-------------------------------- MODULE MainLoop --------------------------------
(***************************************************************************)
(* common/MainLoop.cpp without its timers (see Timers): functions that any *)
(* thread posts, the command pipe that wakes the loop, termination, and    *)
(* file descriptor watchers.                                               *)
(*                                                                         *)
(* mFunctions is the number of functions in the queue: CircularQueueProofs *)
(* shows that the ring buffer behind it keeps them in order.  runTimers()  *)
(* runs handlers or does not.  The command pipe does not fail, except that *)
(* it may be full, and epoll_wait() does not fail but for EINTR.           *)
(***************************************************************************)
EXTENDS Naturals, FiniteSets, Sequences

CONSTANTS
  Callers,    \* the threads other than the loop's, signal handlers included
  Loop,       \* the thread in MainLoop::loop()
  Nobody,     \* the owner of a free mFunctionLock
  Watchers,   \* IFdWatcher objects
  CommandPipe,       \* the event of mPipe[0]
  kMaxFunctionSize,
  kMaxFdWatcherSize,
  PipeSize    \* the bytes that fit into the command pipe

Threads == Callers \cup {Loop}

LoopCommands == {"Wakeup", "Terminate"}

ASSUME MainLoopAssumption ==
  /\ Loop \notin Callers
  /\ Nobody \notin Threads
  /\ CommandPipe \notin Watchers
  /\ Watchers # {} /\ IsFiniteSet(Watchers)
  /\ {kMaxFunctionSize, kMaxFdWatcherSize, PipeSize} \subseteq Nat \ {0}

VARIABLES
  mFunctions,    \* the number of functions in the queue
  functionLock,  \* owner of mFunctionLock
  mTerminated,
  pipe,          \* the commands in the pipe
  interest,      \* watchers that epoll watches
  mFdWatchers,   \* watchers in the observer list
  readable,      \* watchers whose descriptor is readable
  pc,            \* where each thread is
  watcher,       \* the argument of each thread's add/removeFdWatcher()
  home,          \* the user code that the loop is in
  executedAny,   \* local to runFunctions()
  events,        \* what epoll_wait() returned and has not been looked at
  terminated     \* local to loopOnce()

queue == <<mFunctions, functionLock>>
commands == <<mTerminated, pipe>>
descriptors == <<interest, mFdWatchers, readable>>
loopLocals == <<home, executedAny, events, terminated>>
vars == <<queue, commands, descriptors, pc, watcher, loopLocals>>

SomeWatcher == CHOOSE w \in Watchers : TRUE

Init ==
  /\ mFunctions = 0
  /\ functionLock = Nobody
  /\ mTerminated = FALSE
  /\ pipe = <<>>
  /\ interest = {}
  /\ mFdWatchers = {}
  /\ readable = {}
  /\ pc = [t \in Threads |-> IF t = Loop THEN "functions" ELSE "idle"]
  /\ watcher = [t \in Threads |-> SomeWatcher]
  /\ home = "function"
  /\ executedAny = FALSE
  /\ events = {}
  /\ terminated = FALSE

-------------------------------------------------------------------------------
(* Helpers *)

Goto(t, l) == pc' = [pc EXCEPT ![t] = l]

\* Where the loop is.
At(l) == pc[Loop] = l

\* User code that the loop runs: a posted function, a timer's handler, the
\* onFdReadable() of a watcher.
UserCode == {"function", "timer", "handler"}

\* The first steps of post(), wakeup(), terminate() and of the two operations
\* on watchers.
Starts == {"post", "wakeup", "store", "watch", "unwatch"}

\* A call returns to the user code it was made from.
Return(t) ==
  /\ Goto(t, IF t = Loop THEN home ELSE "idle")
  /\ watcher' = [watcher EXCEPT ![t] = SomeWatcher]

\* sendCommand(): a full pipe drops the byte.
sendCommand(c) ==
  pipe' = IF Len(pipe) < PipeSize THEN Append(pipe, c) ELSE pipe

-------------------------------------------------------------------------------
(* Calls: by other threads at any time, by user code while the loop runs it *)

Invoke(t, l, w) ==
  /\ \/ t # Loop /\ pc[t] = "idle"
     \/ t = Loop /\ pc[t] \in UserCode
  /\ l \notin {"watch", "unwatch"} => w = SomeWatcher
  /\ Goto(t, l)
  /\ watcher' = [watcher EXCEPT ![t] = w]
  /\ home' = IF t = Loop THEN pc[t] ELSE home
  /\ UNCHANGED <<queue, commands, descriptors, executedAny, events, terminated>>

\* Mutant of Post: the queue is never full.
PostUnchecked(t) ==
  /\ pc[t] = "post"
  /\ functionLock = Nobody
  /\ mFunctions' = mFunctions + 1
  /\ functionLock' = t
  /\ Goto(t, "posted")
  /\ UNCHANGED <<commands, descriptors, watcher, loopLocals>>

\* post() wakes the loop up before it unlocks mFunctionLock ...
Post(t) ==
  /\ pc[t] = "post"
  /\ functionLock = Nobody /\ mFunctions < kMaxFunctionSize
  /\ mFunctions' = mFunctions + 1
  /\ functionLock' = t
  /\ Goto(t, "posted")
  /\ UNCHANGED <<commands, descriptors, watcher, loopLocals>>

\* Mutant of PostWakesUp: it only unlocks.
PostQuietly(t) ==
  /\ pc[t] = "posted"
  /\ functionLock' = Nobody
  /\ Return(t)
  /\ UNCHANGED <<mFunctions, commands, descriptors, loopLocals>>

PostWakesUp(t) ==
  /\ pc[t] = "posted"
  /\ sendCommand("Wakeup")
  /\ functionLock' = Nobody
  /\ Return(t)
  /\ UNCHANGED <<mFunctions, mTerminated, descriptors, loopLocals>>

\* ... and drops a function that finds the queue full.
PostDropped(t) ==
  /\ pc[t] = "post"
  /\ functionLock = Nobody /\ mFunctions = kMaxFunctionSize
  /\ Return(t)
  /\ UNCHANGED <<queue, commands, descriptors, loopLocals>>

wakeup(t) ==
  /\ pc[t] = "wakeup"
  /\ sendCommand("Wakeup")
  /\ Return(t)
  /\ UNCHANGED <<queue, mTerminated, descriptors, loopLocals>>

\* Mutant of StoreTerminated: the command has to do.
StoreNothing(t) ==
  /\ pc[t] = "store"
  /\ Goto(t, "send")
  /\ UNCHANGED <<queue, commands, descriptors, watcher, loopLocals>>

\* terminate(): the flag, then the command.
StoreTerminated(t) ==
  /\ pc[t] = "store"
  /\ mTerminated' = TRUE
  /\ Goto(t, "send")
  /\ UNCHANGED <<queue, pipe, descriptors, watcher, loopLocals>>

\* Mutant of SendTerminate: the flag is enough.
SendNothing(t) ==
  /\ pc[t] = "send"
  /\ Return(t)
  /\ UNCHANGED <<queue, commands, descriptors, loopLocals>>

SendTerminate(t) ==
  /\ pc[t] = "send"
  /\ sendCommand("Terminate")
  /\ Return(t)
  /\ UNCHANGED <<queue, mTerminated, descriptors, loopLocals>>

\* addFdWatcher(): epoll_ctl(), which refuses a descriptor twice ...
Watch(t) ==
  /\ pc[t] = "watch"
  /\ IF watcher[t] \in interest
       THEN Return(t) /\ UNCHANGED interest
       ELSE /\ interest' = interest \cup {watcher[t]}
            /\ Goto(t, "list")
            /\ UNCHANGED watcher
  /\ UNCHANGED <<queue, commands, mFdWatchers, readable, loopLocals>>

\* ... and the list, which may be full.
List(t) ==
  /\ pc[t] = "list"
  /\ mFdWatchers' = IF Cardinality(mFdWatchers) < kMaxFdWatcherSize
                      THEN mFdWatchers \cup {watcher[t]} ELSE mFdWatchers
  /\ Return(t)
  /\ UNCHANGED <<queue, commands, interest, readable, loopLocals>>

\* removeFdWatcher(): epoll_ctl(), then the list.
Unwatch(t) ==
  /\ pc[t] = "unwatch"
  /\ interest' = interest \ {watcher[t]}
  /\ Goto(t, "unlist")
  /\ UNCHANGED <<queue, commands, mFdWatchers, readable, watcher, loopLocals>>

Unlist(t) ==
  /\ pc[t] = "unlist"
  /\ mFdWatchers' = mFdWatchers \ {watcher[t]}
  /\ Return(t)
  /\ UNCHANGED <<queue, commands, interest, readable, loopLocals>>

-------------------------------------------------------------------------------
(* The loop *)

\* Mutant of RunFunction: func() is called under mFunctionLock.
RunFunctionLocked ==
  /\ At("functions")
  /\ functionLock = Nobody /\ mFunctions > 0
  /\ mFunctions' = mFunctions - 1
  /\ functionLock' = Loop
  /\ executedAny' = TRUE
  /\ Goto(Loop, "function")
  /\ UNCHANGED <<commands, descriptors, watcher, home, events, terminated>>

\* runFunctions(), called again until there was nothing to run.
RunFunction ==
  /\ At("functions")
  /\ functionLock = Nobody /\ mFunctions > 0
  /\ mFunctions' = mFunctions - 1
  /\ executedAny' = TRUE
  /\ Goto(Loop, "function")
  /\ UNCHANGED <<functionLock, commands, descriptors, watcher, home, events,
                 terminated>>

NoMoreFunctions ==
  /\ At("functions")
  /\ functionLock = Nobody /\ mFunctions = 0
  /\ executedAny' = FALSE
  /\ Goto(Loop, IF executedAny THEN "functions" ELSE "timers")
  /\ UNCHANGED <<queue, commands, descriptors, watcher, home, events, terminated>>

FunctionReturns ==
  /\ At("function")
  /\ Goto(Loop, "functions")
  /\ UNCHANGED <<queue, commands, descriptors, watcher, loopLocals>>

\* runTimers() is called again while the next timeout is 0.
RunTimer ==
  /\ At("timers")
  /\ Goto(Loop, "timer")
  /\ UNCHANGED <<queue, commands, descriptors, watcher, loopLocals>>

TimerReturns ==
  /\ At("timer")
  /\ Goto(Loop, "timers")
  /\ UNCHANGED <<queue, commands, descriptors, watcher, loopLocals>>

TimersDone ==
  /\ At("timers")
  /\ Goto(Loop, "wait")
  /\ UNCHANGED <<queue, commands, descriptors, watcher, loopLocals>>

\* What epoll_wait() would return now, level-triggered (fewer than MaxEvents).
Ready ==
  (interest \cap readable) \cup (IF pipe # <<>> THEN {CommandPipe} ELSE {})

EventsArrive ==
  /\ At("wait")
  /\ Ready # {}
  /\ events' = Ready
  /\ Goto(Loop, "events")
  /\ UNCHANGED <<queue, commands, descriptors, watcher, home, executedAny, terminated>>

\* No event: the time is over, or a signal arrived.
NoEvents ==
  /\ At("wait")
  /\ Ready = {}
  /\ Goto(Loop, "functions")
  /\ UNCHANGED <<queue, commands, descriptors, watcher, loopLocals>>

\* The next event, in the order epoll has put them in.  The call of a watcher
\* reads its descriptor, or part of what is there.
HandleWatcher ==
  /\ At("events")
  /\ \E w \in events \cap Watchers :
       /\ events' = events \ {w}
       /\ readable' \in {readable, readable \ {w}}
  /\ Goto(Loop, "handler")
  /\ UNCHANGED <<queue, commands, interest, mFdWatchers, watcher, home,
                 executedAny, terminated>>

HandlerReturns ==
  /\ At("handler")
  /\ Goto(Loop, "events")
  /\ UNCHANGED <<queue, commands, descriptors, watcher, loopLocals>>

HandleCommands ==
  /\ At("events")
  /\ CommandPipe \in events
  /\ events' = events \ {CommandPipe}
  /\ Goto(Loop, "drain")
  /\ UNCHANGED <<queue, commands, descriptors, watcher, home, executedAny, terminated>>

\* drainCommandPipe(), a byte at a time.
Drain ==
  /\ At("drain")
  /\ pipe # <<>>
  /\ terminated' = (terminated \/ Head(pipe) = "Terminate")
  /\ pipe' = Tail(pipe)
  /\ UNCHANGED <<queue, mTerminated, descriptors, pc, watcher, home, executedAny,
                 events>>

Drained ==
  /\ At("drain")
  /\ pipe = <<>>
  /\ Goto(Loop, "check")
  /\ UNCHANGED <<queue, commands, descriptors, watcher, loopLocals>>

\* Mutant of CheckTerminated: the flag is not looked at.
CheckCommand ==
  /\ At("check")
  /\ Goto(Loop, IF terminated THEN "out" ELSE "events")
  /\ events' = IF terminated THEN {} ELSE events
  /\ terminated' = FALSE
  /\ UNCHANGED <<queue, commands, descriptors, watcher, home, executedAny>>

\* The events that are left when the loop ends are not handled.
CheckTerminated ==
  /\ At("check")
  /\ Goto(Loop, IF terminated \/ mTerminated THEN "out" ELSE "events")
  /\ events' = IF terminated \/ mTerminated THEN {} ELSE events
  /\ terminated' = FALSE   \* out of scope
  /\ UNCHANGED <<queue, commands, descriptors, watcher, home, executedAny>>

EventsDone ==
  /\ At("events")
  /\ events = {}
  /\ Goto(Loop, "functions")
  /\ UNCHANGED <<queue, commands, descriptors, watcher, loopLocals>>

-------------------------------------------------------------------------------
(* Specification *)

\* Something arrives at a descriptor.
Readable(w) ==
  /\ readable' = readable \cup {w}
  /\ UNCHANGED <<queue, commands, interest, mFdWatchers, pc, watcher, loopLocals>>

CallStep(t) ==
  \/ Post(t) \/ PostWakesUp(t) \/ PostDropped(t) \/ wakeup(t)
  \/ StoreTerminated(t) \/ SendTerminate(t)
  \/ Watch(t) \/ List(t) \/ Unwatch(t) \/ Unlist(t)

LoopStep ==
  \/ RunFunction \/ NoMoreFunctions \/ FunctionReturns
  \/ TimerReturns \/ TimersDone
  \/ EventsArrive \/ NoEvents
  \/ HandleWatcher \/ HandlerReturns \/ HandleCommands
  \/ Drain \/ Drained \/ CheckTerminated \/ EventsDone

Next ==
  \/ \E t \in Threads :
       \/ CallStep(t)
       \/ \E l \in Starts, w \in Watchers : Invoke(t, l, w)
  \/ LoopStep
  \/ RunTimer
  \/ \E w \in Watchers : Readable(w)

Spec == Init /\ [][Next]_vars

\* Threads inside a call go on, user code returns (SF: it may make calls in
\* between), and timers are not due all the time.
Fairness ==
  /\ \A t \in Threads : WF_vars(CallStep(t))
  /\ WF_vars(LoopStep)
  /\ SF_vars(FunctionReturns) /\ SF_vars(HandlerReturns) /\ SF_vars(TimerReturns)
  /\ SF_vars(TimersDone)

FairSpec == Spec /\ Fairness

-------------------------------------------------------------------------------
(* Properties *)

Labels ==
  Starts \cup UserCode \cup
  {"idle", "posted", "send", "list", "unlist", "functions", "timers", "wait",
   "events", "drain", "check", "out"}

\* The queue and the pipe keep to their capacities, and the lock is with the
\* thread that is about to wake the loop up.
TypeOK ==
  /\ mFunctions \in 0 .. kMaxFunctionSize
  /\ functionLock \in Threads \cup {Nobody}
  /\ \A t \in Threads : functionLock = t <=> pc[t] = "posted"
  /\ mTerminated \in BOOLEAN
  /\ pipe \in Seq(LoopCommands) /\ Len(pipe) <= PipeSize
  /\ interest \subseteq Watchers
  /\ mFdWatchers \subseteq Watchers /\ Cardinality(mFdWatchers) <= kMaxFdWatcherSize
  /\ readable \subseteq Watchers
  /\ pc \in [Threads -> Labels]
  /\ watcher \in [Threads -> Watchers]
  /\ home \in UserCode
  /\ executedAny \in BOOLEAN
  /\ events \subseteq Watchers \cup {CommandPipe}
  /\ terminated \in BOOLEAN

\* No posted function waits for a timeout: when the loop blocks in epoll_wait()
\* with nothing to read, the queue is empty or a post() is about to wake it up.
NoForgottenFunction ==
  At("wait") /\ pipe = <<>> => mFunctions = 0 \/ functionLock # Nobody

\* MainLoop.cpp:516 "Atomic flag protects termination even if command pipe is
\* full."  Once the flag is set the loop does not block in epoll_wait() with
\* nothing to read, unless a terminate() is about to write.
TerminationIsNoticed ==
  At("wait") /\ mTerminated /\ pipe = <<>> => \E t \in Threads : pc[t] = "send"

Announcing == {"post", "posted", "wakeup", "store", "send"}

\* From some point on nobody begins to post a function or to write a command.
\* (Whoever has begun may well hang.)
Quiet ==
  <>[][\A t \in Threads : pc'[t] \in Announcing => pc[t] \in Announcing]_vars

\* terminate() ends the loop, whatever is in the pipe, unless posts and commands
\* never end.
TerminateEnds ==
  Quiet => \A t \in Threads : pc[t] = "send" ~> At("out")

\* Posted functions are run, unless the loop ends first, also if they post
\* functions themselves: runFunctions() calls them without mFunctionLock.
FunctionsRun ==
  Quiet => (mFunctions > 0 ~> mFunctions = 0 \/ At("out"))

-------------------------------------------------------------------------------
(* The inductive invariant behind the theorems of MainLoopProofs *)

CallLabels == Starts \cup {"posted", "send", "list", "unlist"}

\* The loop is between its last look at the queue and epoll_wait()'s return.
PastFunctions ==
  \/ pc[Loop] \in {"timers", "timer", "wait"}
  \/ pc[Loop] \in CallLabels /\ home = "timer"

\* A function in the queue has a byte in the pipe, unless its post() is about
\* to write one or the loop is about to look at the queue.
FunctionsAnnounced ==
  PastFunctions /\ pipe = <<>> => mFunctions = 0 \/ functionLock # Nobody

\* Termination has a byte in the pipe, unless its terminate() is about to write
\* one or the loop is about to look at the flag, or is over.
TerminationAnnounced ==
  mTerminated /\ pipe = <<>> =>
    \/ \E t \in Threads : pc[t] = "send"
    \/ pc[Loop] \in {"drain", "check", "out"}

IInv ==
  /\ TypeOK
  /\ FunctionsAnnounced
  /\ TerminationAnnounced
===============================================================================
