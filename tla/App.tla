---------------------------------- MODULE App ----------------------------------
(***************************************************************************)
(* Main.cpp and common/Platform.h: main() builds the loop, the platform    *)
(* and the application, serves the loop until a signal terminates it, and  *)
(* takes everything down again, while the worker of the application feeds  *)
(* the queue of its service and signal handlers run on any thread.         *)
(*                                                                         *)
(* main() is the only caller of start() and stop() here, so that a         *)
(* WorkerThread is its state (see WorkerLife) and a SyncQueue its length   *)
(* and mEOS.                                                               *)
(***************************************************************************)
EXTENDS Naturals, SequencesExt

CONSTANTS
  QueueCapacity,  \* 64
  MaxSignals      \* bound on the signals that arrive

ASSUME AppAssumption == QueueCapacity \in Nat \ {0} /\ MaxSignals \in Nat

VARIABLES
  at,          \* where each thread is
  threadState, \* mState of the two WorkerThreads
  alive,       \* the objects that exist, in the order of their construction
  inDestructor, \* ~App() has been entered
  mMsgQ,       \* its length
  mEOS,
  loopWorks,   \* MainLoop() could create its descriptors
  mTerminated,
  installed,   \* the signals whose handler is _sig_handler
  sLoop,       \* it is not nullptr
  handler,     \* where the signal handler on each thread is
  signals      \* the signals so far

process == <<mMsgQ, mEOS, threadState>>
platform == <<installed, sLoop>>
signalVars == <<handler, mTerminated, signals>>
appVars == <<at, process, alive, inDestructor, loopWorks, platform, signalVars>>

Engines == {"worker", "service"}

AppThreads == {"main"} \cup Engines

AppInit ==
  /\ at = [t \in AppThreads |-> IF t = "main" THEN "construct_loop" ELSE "none"]
  /\ threadState = [e \in Engines |-> "Idle"]
  /\ alive = <<>>
  /\ inDestructor = FALSE
  /\ mMsgQ = 0
  /\ mEOS = FALSE
  /\ loopWorks = FALSE
  /\ mTerminated = FALSE
  /\ installed = {}
  /\ sLoop = FALSE
  /\ handler = [t \in AppThreads |-> "none"]
  /\ signals = 0

\* Thread t goes from one place to another, unless it is in a signal handler.
Step(t, from, to) ==
  /\ at[t] = from
  /\ handler[t] = "none"
  /\ at' = [at EXCEPT ![t] = to]

Exists(object) == \E i \in DOMAIN alive : alive[i] = object

-------------------------------------------------------------------------------
(* main(): the way up *)

ConstructLoop ==
  /\ Step("main", "construct_loop", "construct_platform")
  /\ alive' = <<"loop">>
  /\ loopWorks' \in BOOLEAN
  /\ UNCHANGED <<process, inDestructor, platform, signalVars>>

ConstructPlatform ==
  /\ Step("main", "construct_platform", "install_int")
  /\ alive' = Append(alive, "platform")
  /\ sLoop' = TRUE
  /\ UNCHANGED <<process, inDestructor, loopWorks, installed, signalVars>>

\* installSignal(): two calls of sigaction(), each of which may fail.
InstallInt ==
  /\ Step("main", "install_int", "install_term")
  /\ installed' = {"SIGINT"}
  /\ UNCHANGED <<process, alive, inDestructor, loopWorks, sLoop, signalVars>>

InstallTerm ==
  /\ Step("main", "install_term", "init_callback")
  /\ installed' = {"SIGINT", "SIGTERM"}
  /\ UNCHANGED <<process, alive, inDestructor, loopWorks, sLoop, signalVars>>

\* init() gives back the handlers it has installed and returns false: sigaction()
\* failed, or platform_init().  RemoveSignal is that giving back as well, since
\* main() returns, and ~Platform() finds nothing left to do.
InitFails ==
  /\ \/ Step("main", "install_int", "unwind")
     \/ Step("main", "install_term", "unwind")
     \/ Step("main", "init_callback", "unwind")
  /\ UNCHANGED <<process, alive, inDestructor, loopWorks, platform, signalVars>>

\* The constructor of App, and the first half of SampleService::start().
ConstructApp ==
  /\ Step("main", "init_callback", "start_service")
  /\ alive' = alive \o <<"mThread", "mService">>
  /\ mEOS' = FALSE
  /\ UNCHANGED <<mMsgQ, threadState, inDestructor, loopWorks, platform, signalVars>>

\* start() of a WorkerThread that is Idle.
Started(e, from, next) ==
  /\ at["main"] = from /\ handler["main"] = "none"
  /\ at' = [at EXCEPT !["main"] = next, ![e] = "loop"]
  /\ threadState' = [threadState EXCEPT ![e] = "Running"]
  /\ UNCHANGED <<mMsgQ, mEOS, alive, inDestructor, loopWorks, platform, signalVars>>

ServiceStarts == Started("service", "start_service", "start_worker")

\* App::start() does not look at the result of mService.start().
ServiceFails ==
  /\ Step("main", "start_service", "start_worker")
  /\ UNCHANGED <<process, alive, inDestructor, loopWorks, platform, signalVars>>

WorkerStarts == Started("worker", "start_worker", "serve")

\* main() returns -2.
WorkerFails ==
  /\ Step("main", "start_worker", "unwind")
  /\ UNCHANGED <<process, alive, inDestructor, loopWorks, platform, signalVars>>

\* loop.loop() returns.
LoopEnds ==
  /\ mTerminated \/ ~loopWorks
  /\ Step("main", "serve", "stop_worker")
  /\ UNCHANGED <<process, alive, inDestructor, loopWorks, platform, signalVars>>

-------------------------------------------------------------------------------
(* App::stop(), called by main() and by ~App() *)

RequestStopOf(e) ==
  threadState' = [threadState EXCEPT ![e] = IF @ = "Running" THEN "Stopping" ELSE @]

StopWorker ==
  /\ Step("main", "stop_worker", "join_worker")
  /\ RequestStopOf("worker")
  /\ UNCHANGED <<mMsgQ, mEOS, alive, inDestructor, loopWorks, platform, signalVars>>

\* Mutant of EndStream: the stream is not ended.
EndNothing ==
  /\ Step("main", "end_stream", "stop_service")
  /\ UNCHANGED <<process, alive, inDestructor, loopWorks, platform, signalVars>>

\* SampleService::stop(): the end of the stream, and then the thread.
EndStream ==
  /\ Step("main", "end_stream", "stop_service")
  /\ mEOS' = TRUE
  /\ UNCHANGED <<mMsgQ, threadState, alive, inDestructor, loopWorks, platform, signalVars>>

StopService ==
  /\ Step("main", "stop_service", "join_service")
  /\ RequestStopOf("service")
  /\ UNCHANGED <<mMsgQ, mEOS, alive, inDestructor, loopWorks, platform, signalVars>>

\* join() returns once the thread, if there was one, has exited.
Joined(e, from, next) ==
  /\ threadState[e] \in {"Idle", "Exited"}
  /\ Step("main", from, next)
  /\ threadState' = [threadState EXCEPT ![e] = "Idle"]
  /\ UNCHANGED <<mMsgQ, mEOS, alive, inDestructor, loopWorks, platform, signalVars>>

\* Mutant of WorkerJoined: requestStop() without join().
WorkerNotJoined ==
  /\ Step("main", "join_worker", "end_stream")
  /\ UNCHANGED <<process, alive, inDestructor, loopWorks, platform, signalVars>>

WorkerJoined == Joined("worker", "join_worker", "end_stream")

ServiceJoined == Joined("service", "join_service", "unwind")

-------------------------------------------------------------------------------
(* main(): the way down.  The objects go in reverse order of construction,  *)
(* each with its destructor.                                                *)

\* ~App() begins with stop().
EnterAppDestructor ==
  /\ ~inDestructor /\ Exists("mThread")
  /\ Step("main", "unwind", "stop_worker")
  /\ inDestructor' = TRUE
  /\ UNCHANGED <<process, alive, loopWorks, platform, signalVars>>

\* ~SampleService() and ~WorkerThread() call stop() again, which joins a
\* thread that is still there.
DestroyMember ==
  /\ inDestructor /\ alive # <<>>
  /\ \/ Last(alive) = "mService" /\ threadState["service"] \in {"Idle", "Exited"}
     \/ Last(alive) = "mThread" /\ threadState["worker"] \in {"Idle", "Exited"}
  /\ Step("main", "unwind", "unwind")
  /\ alive' = Front(alive)
  /\ UNCHANGED <<process, inDestructor, loopWorks, platform, signalVars>>

\* ~Platform(): deinit() gives the two signals back one by one.
RemoveSignal ==
  /\ alive # <<>> /\ Last(alive) = "platform"
  /\ installed # {}
  /\ Step("main", "unwind", "unwind")
  /\ installed' = installed \ {IF "SIGINT" \in installed THEN "SIGINT" ELSE "SIGTERM"}
  /\ UNCHANGED <<process, alive, inDestructor, loopWorks, sLoop, signalVars>>

DestroyPlatform ==
  /\ alive # <<>> /\ Last(alive) = "platform"
  /\ installed = {}
  /\ Step("main", "unwind", "unwind")
  /\ sLoop' = FALSE
  /\ alive' = Front(alive)
  /\ UNCHANGED <<process, inDestructor, loopWorks, installed, signalVars>>

DestroyLoop ==
  /\ alive = <<"loop">>
  /\ Step("main", "unwind", "returned")
  /\ alive' = <<>>
  /\ UNCHANGED <<process, inDestructor, loopWorks, platform, signalVars>>

-------------------------------------------------------------------------------
(* App::run() and the thread of SampleService *)

TestShouldRun(e, body) ==
  /\ Step(e, "loop", IF threadState[e] = "Running" THEN body ELSE "exit")
  /\ UNCHANGED <<process, alive, inDestructor, loopWorks, platform, signalVars>>

\* msleep(1000) ends, in time or not; mService.request() follows in any case.
WorkerSleeps ==
  /\ Step("worker", "sleep", "put")
  /\ UNCHANGED <<process, alive, inDestructor, loopWorks, platform, signalVars>>

\* Mutant of WorkerPuts: a full queue is not waited for.
WorkerPutsAnyway ==
  /\ Step("worker", "put", "loop")
  /\ mMsgQ' = IF mEOS THEN mMsgQ ELSE mMsgQ + 1
  /\ UNCHANGED <<mEOS, threadState, alive, inDestructor, loopWorks, platform, signalVars>>

\* mMsgQ.put() waits while the queue is full and has not ended.
WorkerPuts ==
  /\ mMsgQ < QueueCapacity \/ mEOS
  /\ Step("worker", "put", "loop")
  /\ mMsgQ' = IF mEOS THEN mMsgQ ELSE mMsgQ + 1
  /\ UNCHANGED <<mEOS, threadState, alive, inDestructor, loopWorks, platform, signalVars>>

ServiceGets ==
  /\ mMsgQ > 0 /\ ~mEOS
  /\ Step("service", "get", "loop")
  /\ mMsgQ' = mMsgQ - 1
  /\ UNCHANGED <<mEOS, threadState, alive, inDestructor, loopWorks, platform, signalVars>>

\* mMsgQ.get() returns false.
ServiceEnds ==
  /\ mEOS
  /\ Step("service", "get", "exit")
  /\ UNCHANGED <<process, alive, inDestructor, loopWorks, platform, signalVars>>

ThreadExits(e) ==
  /\ Step(e, "exit", "none")
  /\ threadState' = [threadState EXCEPT ![e] = "Exited"]
  /\ UNCHANGED <<mMsgQ, mEOS, alive, inDestructor, loopWorks, platform, signalVars>>

-------------------------------------------------------------------------------
(* Signals *)

\* A signal interrupts any thread of the process.
Deliver(t) ==
  /\ installed # {}
  /\ signals < MaxSignals
  /\ t = "main" \/ at[t] # "none"
  /\ handler[t] = "none"
  /\ handler' = [handler EXCEPT ![t] = "test"]
  /\ signals' = signals + 1
  /\ UNCHANGED <<at, process, alive, inDestructor, loopWorks, platform, mTerminated>>

HandlerTests(t) ==
  /\ handler[t] = "test"
  /\ handler' = [handler EXCEPT ![t] = IF sLoop THEN "store" ELSE "none"]
  /\ UNCHANGED <<at, process, alive, inDestructor, loopWorks, platform, mTerminated, signals>>

\* MainLoop::terminate(): the flag, and then the command.
HandlerStores(t) ==
  /\ handler[t] = "store"
  /\ mTerminated' = TRUE
  /\ handler' = [handler EXCEPT ![t] = "send"]
  /\ UNCHANGED <<at, process, alive, inDestructor, loopWorks, platform, signals>>

HandlerSends(t) ==
  /\ handler[t] = "send"
  /\ handler' = [handler EXCEPT ![t] = "none"]
  /\ UNCHANGED <<at, process, alive, inDestructor, loopWorks, platform, mTerminated, signals>>

-------------------------------------------------------------------------------

GoesUp ==
  \/ ConstructLoop \/ ConstructPlatform \/ InstallInt \/ InstallTerm
  \/ InitFails \/ ConstructApp \/ ServiceStarts \/ ServiceFails
  \/ WorkerStarts \/ WorkerFails

GoesDown ==
  \/ LoopEnds \/ StopWorker \/ WorkerJoined
  \/ EndStream \/ StopService \/ ServiceJoined
  \/ EnterAppDestructor \/ DestroyMember
  \/ RemoveSignal \/ DestroyPlatform \/ DestroyLoop

WorkerStep ==
  TestShouldRun("worker", "sleep") \/ WorkerSleeps \/ WorkerPuts \/ ThreadExits("worker")

ServiceStep ==
  TestShouldRun("service", "get") \/ ServiceGets \/ ServiceEnds \/ ThreadExits("service")

HandlerStep(t) == HandlerTests(t) \/ HandlerStores(t) \/ HandlerSends(t)

AppNext ==
  \/ GoesUp \/ GoesDown \/ WorkerStep \/ ServiceStep
  \/ \E t \in AppThreads : Deliver(t) \/ HandlerStep(t)

AppSpec == AppInit /\ [][AppNext]_appVars

\* Every thread that can run does.  Nothing makes a signal arrive.
AppFairness ==
  /\ WF_appVars(GoesUp)
  /\ WF_appVars(GoesDown)
  /\ WF_appVars(WorkerStep)
  /\ WF_appVars(ServiceStep)
  /\ \A t \in AppThreads : WF_appVars(HandlerStep(t))

-------------------------------------------------------------------------------
(* Properties *)

Places ==
  {"construct_loop", "construct_platform", "install_int", "install_term",
   "init_callback", "start_service", "start_worker", "serve", "stop_worker",
   "join_worker", "end_stream", "stop_service", "join_service", "unwind",
   "returned", "none", "loop", "sleep", "put", "get", "exit"}

AppTypeOK ==
  /\ at \in [AppThreads -> Places]
  /\ threadState \in [Engines -> {"Idle", "Running", "Stopping", "Exited"}]
  /\ mMsgQ \in 0 .. QueueCapacity
  /\ {mEOS, inDestructor, loopWorks, mTerminated, sLoop} \subseteq BOOLEAN
  /\ installed \subseteq {"SIGINT", "SIGTERM"}
  /\ handler \in [AppThreads -> {"none", "test", "store", "send"}]

\* Nobody uses an object that has been destroyed: a signal handler the loop,
\* whose address it may have read long before on another thread; the worker
\* mService, which App declares behind mThread; the service its queue; and
\* main() destroys a WorkerThread only after its thread.
UsedObjectsExist ==
  /\ \A t \in AppThreads : handler[t] \in {"store", "send"} => Exists("loop")
  /\ at["worker"] = "put" => Exists("mService")
  /\ at["service"] = "get" => Exists("mService")
  /\ at["worker"] # "none" => Exists("mThread")

\* What main() waits for goes on.  A thread that it joins has been told to
\* stop; if the worker waits for room in the queue meanwhile, the service, if
\* it has a thread, is still taking from it, since it leaves its loop only
\* after the end of the stream, which lets the worker go on as well; and when
\* main() joins the service, get() no longer waits.
ShutdownGoesOn ==
  /\ at["main"] = "join_worker" => threadState["worker"] # "Running"
  /\ at["main"] = "join_service" => threadState["service"] # "Running" /\ mEOS
  /\ at["worker"] = "put" /\ mMsgQ = QueueCapacity /\ ~mEOS
       => \/ threadState["service"] = "Idle"
          \/ threadState["service"] = "Running" /\ at["service"] \in {"loop", "get"}

\* Once a signal has terminated the loop, main() returns, even if the worker
\* waits for room in the queue when it is stopped: as long as the service has
\* a thread, which App::start() does not make sure of.
MainReturns ==
  mTerminated /\ threadState["service"] # "Idle" ~> at["main"] = "returned"
================================================================================
