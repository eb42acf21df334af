----------------------------- MODULE OwnersProofs -----------------------------
(***************************************************************************)
(* The classes built on WorkerThread, for all values of their constants:   *)
(* the application uses no object that is gone, a TimerThread fires on     *)
(* time, and the callable of an AsyncThread is stable while it is          *)
(* executed.  Each of them has an inductive invariant of its own.          *)
(***************************************************************************)
EXTENDS MCOwners, SequenceTheorems, TLAPS

-------------------------------------------------------------------------------
(* The application *)

Objects == {"loop", "platform", "mThread", "mService"}

\* The objects are built, and destroyed, in one order.
IsStack(s) ==
  /\ s \in Seq(Objects)
  /\ Len(s) \in 0 .. 4
  /\ Len(s) >= 1 => s[1] = "loop"
  /\ Len(s) >= 2 => s[2] = "platform"
  /\ Len(s) >= 3 => s[3] = "mThread"
  /\ Len(s) >= 4 => s[4] = "mService"

WithPlatform == {"install_int", "install_term", "init_callback"}

Stopping ==
  {"stop_worker", "join_worker", "end_stream", "stop_service", "join_service"}

WithApp == {"start_service", "start_worker", "serve"} \cup Stopping

\* Which objects exist, from where main() is.
Height ==
  /\ at["main"] = "construct_loop" => Len(alive) = 0
  /\ at["main"] = "construct_platform" => Len(alive) = 1
  /\ at["main"] \in WithPlatform => Len(alive) = 2
  /\ at["main"] \in WithApp => Len(alive) = 4
  /\ at["main"] = "unwind" => Len(alive) >= 1 /\ (~inDestructor => Len(alive) # 3)
  /\ at["main"] = "returned" => Len(alive) = 0
  /\ sLoop <=> Len(alive) >= 2

BeforeService ==
  {"construct_loop", "construct_platform", "start_service"} \cup WithPlatform

\* Who has a thread: nobody before main() starts it or after main() has joined
\* it.  The service may have one when start() of the worker has failed and
\* ~App() has yet to begin.
Joining ==
  /\ at["worker"] \in {"none", "loop", "sleep", "put", "exit"}
  /\ at["service"] \in {"none", "loop", "get", "exit"}
  /\ at["main"] \in {"construct_loop", "construct_platform", "unwind", "returned"}
                      \cup WithPlatform \cup WithApp
  /\ \A e \in Engines : at[e] = "none" <=> threadState[e] \in {"Idle", "Exited"}
  /\ at["main"] \notin {"serve", "stop_worker", "join_worker"}
       => threadState["worker"] = "Idle"
  /\ at["main"] \in BeforeService \cup {"returned"} => threadState["service"] = "Idle"
  /\ at["main"] = "unwind"
       => threadState["service"] = "Idle" \/ (~inDestructor /\ Len(alive) = 4)
  /\ at["main"] \in BeforeService \cup {"start_worker"} => ~inDestructor

\* A handler that has seen the loop keeps main() from destroying it: it
\* interrupts main() itself, or a thread that main() has yet to join.
Handling ==
  /\ \A t \in AppThreads : handler[t] \in {"store", "send"} => Len(alive) >= 1
  /\ \A e \in Engines : handler[e] # "none" => at[e] # "none"

\* The inductive invariant.
AppIInv == AppTypeOK /\ IsStack(alive) /\ Height /\ Joining /\ Handling

\* The order of the objects tells which of them exist.
LEMMA Existing ==
  ASSUME IsStack(alive)
  PROVE  /\ Exists("loop") <=> Len(alive) >= 1
         /\ Exists("mThread") <=> Len(alive) >= 3
         /\ Exists("mService") <=> Len(alive) >= 4
  <1>1. DOMAIN alive = 1 .. Len(alive)
    BY LenProperties DEF IsStack
  <1>2. \A i \in DOMAIN alive : i \in {1, 2, 3, 4} /\ i <= Len(alive)
    BY <1>1 DEF IsStack
  <1>3. \A i \in {1, 2, 3, 4} : i <= Len(alive) => i \in DOMAIN alive
    BY <1>1 DEF IsStack
  <1> QED
    BY <1>2, <1>3 DEF IsStack, Exists

\* Front and Last take the object off that Append put there last.
LEMMA FrontAndLast ==
  ASSUME NEW S, NEW s \in Seq(S), s # <<>>
  PROVE  /\ Len(s) > 0 /\ Last(s) = s[Len(s)]
         /\ Front(s) \in Seq(S) /\ Len(Front(s)) = Len(s) - 1
         /\ \A i \in 1 .. Len(s) - 1 : Front(s)[i] = s[i]
  <1>1. Len(s) \in Nat /\ Len(s) > 0 /\ \A i \in 1 .. Len(s) - 1 : s[i] \in S
    BY EmptySeq, LenProperties
  <1>2. Front(s) = SubSeq(s, 1, Len(s) - 1) /\ Last(s) = s[Len(s)]
    BY DEF Front, Last
  <1> DEFINE n == Len(s) - 1
  <1>3. n \in Nat
    BY <1>1
  <1> HIDE DEF n
  <1>4. /\ SubSeq(s, 1, n) \in Seq(S)
        /\ Len(SubSeq(s, 1, n)) = IF 1 <= n THEN n ELSE 0
        /\ \A i \in 1 .. n: SubSeq(s, 1, n)[i] = s[i]
    BY <1>1, <1>3, SubSeqProperties DEF n
  <1>5. Len(s) - 1 = n /\ Front(s) = SubSeq(s, 1, n) /\ Last(s) = s[Len(s)]
    BY <1>2 DEF n
  <1> QED
    BY <1>1, <1>3, <1>4, <1>5

\* The object on top tells how many there are.
LEMMA LastTells ==
  ASSUME IsStack(alive), alive # <<>>
  PROVE  /\ Last(alive) = "mService" => Len(alive) = 4
         /\ Last(alive) = "mThread" => Len(alive) = 3
         /\ Last(alive) = "platform" => Len(alive) = 2
  <1>1. alive \in Seq(Objects)
    BY DEF IsStack
  <1>2. Len(alive) > 0 /\ Last(alive) = alive[Len(alive)]
    BY <1>1, FrontAndLast
  <1>3. \/ Len(alive) = 1 /\ alive[Len(alive)] = "loop"
        \/ Len(alive) = 2 /\ alive[Len(alive)] = "platform"
        \/ Len(alive) = 3 /\ alive[Len(alive)] = "mThread"
        \/ Len(alive) = 4 /\ alive[Len(alive)] = "mService"
    <2>1. PICK n \in 0 .. 4 : n = Len(alive)
      BY DEF IsStack
    <2>2. n = 1 \/ n = 2 \/ n = 3 \/ n = 4
      BY <1>2, <2>1
    <2> QED
      BY <2>1, <2>2 DEF IsStack
  <1> QED
    BY <1>2, <1>3

\* What the constructors and destructors of main() make of the stack.
LEMMA Stacks ==
  /\ IsStack(<<>>) /\ Len(<<>>) = 0
  /\ IsStack(<<"loop">>) /\ Len(<<"loop">>) = 1
  /\ \A s : IsStack(s) /\ Len(s) = 1
              => IsStack(Append(s, "platform")) /\ Len(Append(s, "platform")) = 2
  /\ \A s : IsStack(s) /\ Len(s) = 2
              => /\ IsStack(s \o <<"mThread", "mService">>)
                 /\ Len(s \o <<"mThread", "mService">>) = 4
  /\ \A s : IsStack(s) /\ s # <<>> => IsStack(Front(s)) /\ Len(Front(s)) = Len(s) - 1
  <1> USE DEF Objects
  <1>1. IsStack(<<>>) /\ Len(<<>>) = 0
    BY EmptySeq DEF IsStack
  <1>2. IsStack(<<"loop">>) /\ Len(<<"loop">>) = 1
    BY DEF IsStack
  <1>3. ASSUME NEW s, IsStack(s), Len(s) = 1
        PROVE  IsStack(Append(s, "platform")) /\ Len(Append(s, "platform")) = 2
    <2>1. PICK x \in Objects : x = "platform"
      OBVIOUS
    <2>2. s \in Seq(Objects)
      BY <1>3 DEF IsStack
    <2> HIDE DEF Objects
    <2>3. /\ Append(s, x) \in Seq(Objects)
          /\ Len(Append(s, x)) = Len(s) + 1
          /\ \A i \in 1 .. Len(s) : Append(s, x)[i] = s[i]
          /\ Append(s, x)[Len(s) + 1] = x
      BY <2>2, AppendProperties
    <2> QED
      BY <1>3, <2>1, <2>3 DEF IsStack
  <1>4. ASSUME NEW s, IsStack(s), Len(s) = 2
        PROVE  /\ IsStack(s \o <<"mThread", "mService">>)
               /\ Len(s \o <<"mThread", "mService">>) = 4
    <2> DEFINE app == <<"mThread", "mService">>
    <2>1. app \in Seq(Objects) /\ Len(app) = 2 /\ app[1] = "mThread" /\ app[2] = "mService"
      OBVIOUS
    <2> HIDE DEF app
    <2>2. s \in Seq(Objects)
      BY <1>4 DEF IsStack
    <2> HIDE DEF Objects
    <2>3. /\ s \o app \in Seq(Objects)
          /\ Len(s \o app) = Len(s) + Len(app)
          /\ \A i \in 1 .. Len(s) + Len(app) :
               (s \o app)[i] = IF i <= Len(s) THEN s[i] ELSE app[i - Len(s)]
      BY <2>1, <2>2, ConcatProperties, Zenon
    <2>4. IsStack(s \o app) /\ Len(s \o app) = 4
      BY <1>4, <2>1, <2>3 DEF IsStack
    <2> QED
      BY <2>4 DEF app
  <1>5. ASSUME NEW s, IsStack(s), s # <<>>
        PROVE  IsStack(Front(s)) /\ Len(Front(s)) = Len(s) - 1
    <2>1. s \in Seq(Objects)
      BY <1>5 DEF IsStack
    <2> HIDE DEF Objects
    <2>2. /\ Front(s) \in Seq(Objects) /\ Len(Front(s)) = Len(s) - 1
          /\ \A i \in 1 .. Len(s) - 1 : Front(s)[i] = s[i]
      BY <1>5, <2>1, FrontAndLast, Zenon
    <2>3. Len(s) \in 1 .. 4
      BY <1>5, <2>1, FrontAndLast DEF IsStack
    <2> QED
      BY <1>5, <2>2, <2>3 DEF IsStack
  <1> QED
    BY <1>1, <1>2, <1>3, <1>4, <1>5

\* The constructors establish the invariant.
LEMMA AppInitial == AppInit => AppIInv
  <1> SUFFICES ASSUME AppInit PROVE AppIInv
    OBVIOUS
  <1> USE AppAssumption DEF AppInit, AppThreads, Engines
  <1>1. AppTypeOK
    <2>1. at \in [AppThreads -> Places]
      BY DEF Places
    <2>2. threadState \in [Engines -> {"Idle", "Running", "Stopping", "Exited"}]
      OBVIOUS
    <2>3. handler \in [AppThreads -> {"none", "test", "store", "send"}]
      OBVIOUS
    <2>4. {mEOS, inDestructor, loopWorks, mTerminated, sLoop} \subseteq BOOLEAN
      BY Zenon
    <2>5. mMsgQ \in 0 .. QueueCapacity /\ installed \subseteq {"SIGINT", "SIGTERM"}
      OBVIOUS
    <2> QED
      BY <2>1, <2>2, <2>3, <2>4, <2>5 DEF AppTypeOK
  <1>2. IsStack(alive) /\ Len(alive) = 0
    BY Stacks
  <1>3. Height
    BY <1>2 DEF Height, WithPlatform, WithApp, Stopping
  <1>4. Joining /\ Handling
    BY DEF Joining, Handling, BeforeService, WithPlatform, WithApp, Stopping
  <1> QED
    BY <1>1, <1>2, <1>3, <1>4 DEF AppIInv

\* main() on its way up.
LEMMA GoesUpKeeps ==
  ASSUME AppIInv, GoesUp
  PROVE  AppIInv'
  <1> USE AppAssumption
      DEF GoesUp, ConstructLoop, ConstructPlatform, InstallInt, InstallTerm,
          InitFails, ConstructApp, ServiceStarts, ServiceFails, WorkerStarts,
          WorkerFails, Started, Step, AppThreads, Engines, AppIInv, process,
          platform, signalVars
  <1>1. AppTypeOK'
    <2>1. (at \in [AppThreads -> Places])'
      BY DEF AppTypeOK, Places
    <2>2. (threadState \in [Engines -> {"Idle", "Running", "Stopping", "Exited"}])'
      BY DEF AppTypeOK
    <2>3. (handler \in [AppThreads -> {"none", "test", "store", "send"}])'
      BY DEF AppTypeOK
    <2>4. {mEOS, inDestructor, loopWorks, mTerminated, sLoop}' \subseteq BOOLEAN
      BY DEF AppTypeOK
    <2>5. (mMsgQ \in 0 .. QueueCapacity /\ installed \subseteq {"SIGINT", "SIGTERM"})'
      BY DEF AppTypeOK
    <2> QED
      BY <2>1, <2>2, <2>3, <2>4, <2>5 DEF AppTypeOK
  <1> USE DEF Height, WithPlatform, WithApp, Stopping
  <1>2. /\ IsStack(alive)' /\ (sLoop' <=> Len(alive') >= 2)
        /\ at["main"] = "construct_loop" => Len(alive') = 1
        /\ at["main"] = "construct_platform" => Len(alive') = 2
        /\ at["main"] \in WithPlatform =>
             \/ at'["main"] = "start_service" /\ Len(alive') = 4
             \/ at'["main"] \in WithPlatform \cup {"unwind"} /\ Len(alive') = 2
        /\ at["main"] \in {"start_service", "start_worker"} => Len(alive') = 4
    <2>1. CASE ConstructLoop
      BY <2>1, Stacks DEF AppTypeOK
    <2>2. CASE ConstructPlatform
      BY <2>2, Stacks DEF AppTypeOK
    <2>3. CASE ConstructApp
      BY <2>3, Stacks DEF AppTypeOK
    <2>4. CASE ~(ConstructLoop \/ ConstructPlatform \/ ConstructApp)
      BY <2>4 DEF AppTypeOK
    <2> QED
      BY <2>1, <2>2, <2>3, <2>4
  <1>3. Height'
    <2>1. CASE at["main"] \in {"construct_loop", "construct_platform"}
      BY <1>2, <2>1 DEF AppTypeOK
    <2>2. CASE at["main"] \in WithPlatform
      <3> HIDE DEF GoesUp, AppIInv
      <3>1. CASE at'["main"] = "start_service" /\ Len(alive') = 4
        BY <1>2, <3>1
      <3>2. CASE at'["main"] \in WithPlatform /\ Len(alive') = 2
        BY <1>2, <3>2
      <3>3. CASE at'["main"] = "unwind" /\ Len(alive') = 2
        BY <1>2, <3>3
      <3> QED
        BY <1>2, <2>2, <3>1, <3>2, <3>3
    <2>3. CASE at["main"] \in {"start_service", "start_worker"}
      <3>1. at'["main"] \in {"start_worker", "serve", "unwind"}
        BY <2>3 DEF AppTypeOK
      <3>2. Len(alive') = 4
        BY <1>2, <2>3
      <3> HIDE DEF GoesUp, AppIInv
      <3> QED
        BY <1>2, <2>3, <3>1, <3>2
    <2>4. at["main"] \in {"construct_loop", "construct_platform", "start_service", "start_worker"} \cup WithPlatform
      BY DEF AppTypeOK
    <2> QED
      BY <2>1, <2>2, <2>3, <2>4
  <1>4. Joining'
    BY <1>2 DEF Joining, AppTypeOK, Height, BeforeService, WithPlatform, WithApp, Stopping
  <1>5. Handling'
    BY <1>2 DEF Handling, AppTypeOK, Height, BeforeService, WithPlatform, WithApp, Stopping
  <1> QED
    BY <1>1, <1>2, <1>3, <1>4, <1>5

\* main() on its way down.
LEMMA GoesDownKeeps ==
  ASSUME AppIInv, GoesDown
  PROVE  AppIInv'
  <1> USE AppAssumption
      DEF GoesDown, LoopEnds, StopWorker, WorkerJoined, EndStream, StopService,
          ServiceJoined, EnterAppDestructor, DestroyMember, RemoveSignal,
          DestroyPlatform, DestroyLoop, RequestStopOf, Joined, Step, AppThreads,
          Engines, AppIInv, process, platform, signalVars
  <1>1. AppTypeOK'
    <2>1. (at \in [AppThreads -> Places])'
      BY DEF AppTypeOK, Places
    <2>2. (threadState \in [Engines -> {"Idle", "Running", "Stopping", "Exited"}])'
      BY DEF AppTypeOK
    <2>3. (handler \in [AppThreads -> {"none", "test", "store", "send"}])'
      BY DEF AppTypeOK
    <2>4. {mEOS, inDestructor, loopWorks, mTerminated, sLoop}' \subseteq BOOLEAN
      BY DEF AppTypeOK
    <2>5. (mMsgQ \in 0 .. QueueCapacity /\ installed \subseteq {"SIGINT", "SIGTERM"})'
      BY DEF AppTypeOK
    <2> QED
      BY <2>1, <2>2, <2>3, <2>4, <2>5 DEF AppTypeOK
  <1> USE DEF Height, WithPlatform, WithApp, Stopping
  <1>2. /\ IsStack(alive)' /\ (sLoop' <=> Len(alive') >= 2)
        /\ at["main"] # "unwind" => Len(alive') = 4
        /\ at["main"] = "unwind" =>
             \/ at'["main"] = "stop_worker" /\ Len(alive') = 4
             \/ at'["main"] = "returned" /\ Len(alive') = 0
             \/ /\ at'["main"] = "unwind" /\ Len(alive') >= 1
                /\ inDestructor' = inDestructor
                /\ ~inDestructor => Len(alive') # 3
                /\ Len(alive') = Len(alive) \/ threadState["service"] = "Idle"
    <2>1. CASE DestroyMember \/ DestroyPlatform
      <3>1. /\ alive # <<>> /\ alive' = Front(alive)
            /\ at["main"] = "unwind" /\ at'["main"] = "unwind"
            /\ inDestructor' = inDestructor
            /\ \/ inDestructor /\ Last(alive) \in {"mService", "mThread"} /\ sLoop' = sLoop
               \/ Last(alive) = "platform" /\ ~sLoop'
        BY <2>1 DEF AppTypeOK
      <3> HIDE DEF GoesDown
      <3>2. IsStack(alive)' /\ Len(alive') = Len(alive) - 1
        BY <3>1, Stacks
      <3>3. /\ Last(alive) = "mService" => Len(alive) = 4
            /\ Last(alive) = "mThread" => Len(alive) = 3
            /\ Last(alive) = "platform" => Len(alive) = 2
        BY <3>1, LastTells
      <3>4. threadState["service"] = "Idle"
        <4>1. threadState["service"] = "Idle" \/ (~inDestructor /\ Len(alive) = 4)
          BY <3>1, Zenon DEF Joining
        <4>2. inDestructor \/ Len(alive) = 2
          BY <3>1, <3>3, Zenon
        <4> HIDE DEF AppIInv
        <4> QED
          BY <4>1, <4>2
      <3> QED
        BY <3>1, <3>2, <3>3, <3>4
    <2>2. CASE DestroyLoop
      BY <2>2, Stacks DEF AppTypeOK
    <2>3. CASE EnterAppDestructor
      <3>1. /\ alive' = alive /\ sLoop' = sLoop /\ ~inDestructor
            /\ at["main"] = "unwind" /\ at'["main"] = "stop_worker"
            /\ Exists("mThread")
        BY <2>3 DEF AppTypeOK
      <3> HIDE DEF GoesDown
      <3> QED
        BY <3>1, Existing DEF IsStack
    <2>4. CASE ~(DestroyMember \/ DestroyPlatform \/ DestroyLoop \/ EnterAppDestructor)
      BY <2>4 DEF AppTypeOK
    <2> QED
      BY <2>1, <2>2, <2>3, <2>4
  <1>3. Height'
    <2>1. CASE at["main"] # "unwind"
      <3>1. at'["main"] \in Stopping \cup {"unwind"}
        BY <2>1 DEF AppTypeOK
      <3> HIDE DEF GoesDown, AppIInv
      <3>2. CASE at'["main"] \in Stopping
        BY <1>2, <2>1, <3>2
      <3>3. CASE at'["main"] = "unwind"
        BY <1>2, <2>1, <3>3
      <3> QED
        BY <3>1, <3>2, <3>3
    <2>2. CASE at["main"] = "unwind"
      <3> HIDE DEF GoesDown, AppIInv
      <3> QED
        BY <1>2, <2>2
    <2> QED
      BY <2>1, <2>2
  <1>4. Joining'
    BY <1>2 DEF Joining, AppTypeOK, BeforeService
  <1>5. Handling'
    BY <1>2 DEF Handling, AppTypeOK, Joining, BeforeService
  <1> QED
    BY <1>1, <1>2, <1>3, <1>4, <1>5

\* The threads: each moves among its own places, and ends when nobody needs it.
LEMMA ThreadsKeep ==
  ASSUME AppIInv, WorkerStep \/ ServiceStep
  PROVE  AppIInv'
  <1> USE AppAssumption
      DEF WorkerStep, ServiceStep, TestShouldRun, WorkerSleeps, WorkerPuts,
          ServiceGets, ServiceEnds, ThreadExits, Step, AppThreads, Engines,
          AppIInv, process, platform, signalVars
  <1>1. AppTypeOK'
    <2>1. (at \in [AppThreads -> Places])'
      BY DEF AppTypeOK, Places
    <2>2. (threadState \in [Engines -> {"Idle", "Running", "Stopping", "Exited"}])'
      BY DEF AppTypeOK
    <2>3. (handler \in [AppThreads -> {"none", "test", "store", "send"}])'
      BY DEF AppTypeOK
    <2>4. {mEOS, inDestructor, loopWorks, mTerminated, sLoop}' \subseteq BOOLEAN
      BY DEF AppTypeOK
    <2>5. mMsgQ' \in 0 .. QueueCapacity
      <3>1. CASE WorkerPuts
        BY <3>1 DEF AppTypeOK
      <3>2. CASE ServiceGets
        BY <3>2 DEF AppTypeOK
      <3>3. CASE ~WorkerPuts /\ ~ServiceGets
        BY <3>3 DEF AppTypeOK
      <3> QED
        BY <3>1, <3>2, <3>3
    <2>6. (installed \subseteq {"SIGINT", "SIGTERM"})'
      BY DEF AppTypeOK
    <2> QED
      BY <2>1, <2>2, <2>3, <2>4, <2>5, <2>6 DEF AppTypeOK
  <1>2. UNCHANGED <<alive, inDestructor, sLoop, handler>> /\ at'["main"] = at["main"]
    BY DEF AppTypeOK
  <1>3. IsStack(alive)' /\ Height'
    BY <1>2 DEF Height
  <1>4. Joining'
    BY <1>2 DEF Joining, AppTypeOK
  <1>5. Handling'
    BY <1>2 DEF Handling, AppTypeOK
  <1> QED
    BY <1>1, <1>3, <1>4, <1>5

\* A signal, on any thread.
LEMMA SignalsKeep ==
  ASSUME AppIInv, NEW t \in AppThreads, Deliver(t) \/ HandlerStep(t)
  PROVE  AppIInv'
  <1> USE AppAssumption
      DEF Deliver, HandlerStep, HandlerTests, HandlerStores, HandlerSends, AppIInv,
          process, platform
  <1>1. UNCHANGED <<at, threadState, mMsgQ, mEOS, alive, inDestructor, loopWorks,
                    installed, sLoop>>
    OBVIOUS
  <1>2. AppTypeOK'
    <2>1. (handler \in [AppThreads -> {"none", "test", "store", "send"}])'
      BY DEF AppTypeOK
    <2>2. mTerminated' \in BOOLEAN
      BY DEF AppTypeOK
    <2> QED
      BY <1>1, <2>1, <2>2 DEF AppTypeOK
  <1>3. IsStack(alive)' /\ Height' /\ Joining'
    BY <1>1 DEF Height, Joining
  <1>4. Handling'
    BY <1>1 DEF Handling, AppTypeOK, AppThreads, Engines, Height
  <1> QED
    BY <1>2, <1>3, <1>4

\* Every step keeps the invariant.
LEMMA AppStepKeeps ==
  ASSUME AppIInv, [AppNext]_appVars
  PROVE  AppIInv'
  <1>1. CASE UNCHANGED appVars
    BY <1>1 DEF AppIInv, AppTypeOK, Height, Joining, Handling, appVars, process,
       platform, signalVars
  <1> QED
    BY <1>1, GoesUpKeeps, GoesDownKeeps, ThreadsKeep, SignalsKeep DEF AppNext

\* The invariant holds in every reachable state of the application.
THEOREM AppInductive == AppSpec => []AppIInv
  BY AppInitial, AppStepKeeps, PTL DEF AppSpec

\* Who uses an object keeps it from being destroyed.
LEMMA UsedExist == AppIInv => UsedObjectsExist
  <1> SUFFICES ASSUME AppIInv PROVE UsedObjectsExist
    OBVIOUS
  <1>1. \A t \in AppThreads : handler[t] \in {"store", "send"} => Exists("loop")
    BY Existing DEF AppIInv, Handling
  <1>2. at["worker"] # "none" => Len(alive) = 4
    BY DEF AppIInv, Joining, Height, WithApp, Stopping, Engines, AppTypeOK
  <1>3. at["service"] # "none" => Len(alive) = 4
    BY DEF AppIInv, Joining, Height, BeforeService, WithPlatform, WithApp, Stopping,
           Engines
  <1>4. Len(alive) = 4 => Exists("mThread") /\ Exists("mService")
    BY Existing DEF AppIInv
  <1> QED
    BY <1>1, <1>2, <1>3, <1>4 DEF UsedObjectsExist

\* Wherever a signal, a failure or the end of the loop finds main(), neither a
\* signal handler nor a thread uses an object that main() has destroyed.
THEOREM NothingDangles == AppSpec => []UsedObjectsExist
  BY AppInductive, UsedExist, PTL

\* Until the stream is ended the service takes from its queue, if it has a
\* thread at all; main() ends the stream before it stops the service.
Serving ==
  /\ ~mEOS => \/ threadState["service"] = "Idle"
              \/ threadState["service"] = "Running" /\ at["service"] \in {"loop", "get"}
  /\ at["main"] \in {"stop_service", "join_service"} => mEOS
  /\ \A e \in Engines :
       at["main"] = (IF e = "worker" THEN "join_worker" ELSE "join_service")
         => threadState[e] # "Running"

\* Nothing is served before main() is up, and nobody is stopped.
LEMMA ServingInitially == AppInit => Serving
  BY DEF AppInit, Serving, AppThreads, Engines

\* main() starts threads while nobody stops them, and stops the worker before
\* it ends the stream of the service.
LEMMA MainServes ==
  ASSUME AppIInv, Serving, GoesUp \/ GoesDown
  PROVE  Serving'
  <1> USE DEF AppIInv, AppTypeOK, AppThreads, Engines, Step, process, platform, signalVars
  <1>1. CASE ConstructApp
    BY <1>1 DEF ConstructApp, Serving, Joining, BeforeService, WithPlatform
  <1>2. CASE ServiceStarts \/ WorkerStarts
    BY <1>2 DEF ServiceStarts, WorkerStarts, Started, Serving
  <1>3. CASE StopWorker \/ StopService
    BY <1>3 DEF StopWorker, StopService, RequestStopOf, Serving
  <1>4. CASE WorkerJoined \/ ServiceJoined
    BY <1>4 DEF WorkerJoined, ServiceJoined, Joined, Serving
  <1>5. CASE EndStream
    BY <1>5 DEF EndStream, Serving
  <1>6. CASE \/ ConstructLoop \/ ConstructPlatform \/ InstallInt \/ InstallTerm
             \/ InitFails \/ ServiceFails \/ WorkerFails
    BY <1>6 DEF ConstructLoop, ConstructPlatform, InstallInt, InstallTerm, InitFails,
       ServiceFails, WorkerFails, Serving
  <1>7. CASE \/ LoopEnds \/ EnterAppDestructor \/ DestroyMember
             \/ RemoveSignal \/ DestroyPlatform \/ DestroyLoop
    BY <1>7 DEF LoopEnds, EnterAppDestructor, DestroyMember, RemoveSignal,
       DestroyPlatform, DestroyLoop, Serving
  <1> QED
    BY <1>1, <1>2, <1>3, <1>4, <1>5, <1>6, <1>7 DEF GoesUp, GoesDown

\* The service leaves its loop after the end of its stream only.
LEMMA ThreadsServe ==
  ASSUME AppIInv, Serving, WorkerStep \/ ServiceStep
  PROVE  Serving'
  <1> USE DEF AppIInv, AppTypeOK, AppThreads, Engines, Step, process, Serving
  <1>1. CASE WorkerStep
    BY <1>1 DEF WorkerStep, TestShouldRun, WorkerSleeps, WorkerPuts, ThreadExits
  <1>2. CASE ServiceStep
    <2>1. CASE TestShouldRun("service", "get")
      BY <2>1 DEF TestShouldRun
    <2>2. CASE ServiceGets \/ ServiceEnds
      BY <2>2 DEF ServiceGets, ServiceEnds
    <2>3. CASE ThreadExits("service")
      <3>1. at["service"] = "exit" /\ threadState["service"] # "Idle"
        BY <2>3 DEF ThreadExits, Joining
      <3>2. mEOS
        BY <3>1
      <3> QED
        BY <2>3, <3>2 DEF ThreadExits
    <2> QED
      BY <1>2, <2>1, <2>2, <2>3 DEF ServiceStep
  <1> QED
    BY <1>1, <1>2

\* Every step keeps it; a signal handler touches nothing of it.
LEMMA ServingKept ==
  ASSUME AppIInv, Serving, [AppNext]_appVars
  PROVE  Serving'
  <1>1. CASE UNCHANGED appVars
    BY <1>1 DEF Serving, appVars, process
  <1>2. ASSUME NEW t \in AppThreads, Deliver(t) \/ HandlerStep(t)
        PROVE  Serving'
    BY <1>2 DEF Deliver, HandlerStep, HandlerTests, HandlerStores, HandlerSends,
       process, Serving
  <1> QED
    BY <1>1, <1>2, MainServes, ThreadsServe DEF AppNext

\* Wherever the shutdown finds the threads, what main() waits for is not itself
\* waiting for something that main() has yet to do.
THEOREM ShutdownNeverSticks == AppSpec => []ShutdownGoesOn
  <1>1. AppIInv /\ Serving => ShutdownGoesOn
    BY DEF Serving, ShutdownGoesOn, Engines
  <1>2. AppIInv /\ Serving /\ [AppNext]_appVars => Serving'
    BY ServingKept
  <1> QED
    BY <1>1, <1>2, AppInductive, ServingInitially, PTL DEF AppSpec

-------------------------------------------------------------------------------
(* TimerThread *)

TimerOps ==
  [name : {"none", "stop", "restart"}]
    \cup [name : {"start"}, msec : Intervals, repeat : BOOLEAN]

RunPlaces ==
  {"loop", "compute", "msleep", "sleep", "expired", "handler", "end"}

\* run() is executed in one life of the thread at most, and mLock is held
\* for the handler and for nothing else.
Running ==
  /\ op \in [Callers -> TimerOps]
  /\ pc[Worker] \in {"none"} \cup RunPlaces
  /\ pc[Worker] # "none" <=> body = "running"
  /\ body = "running" => mState \in {"Running", "Stopping"}
  /\ mState \in {"Idle", "Starting"} => body = "none"
  /\ mState = "Exited" => body = "returned"
  /\ mLock = Worker <=> pc[Worker] = "handler"
  /\ pc[Worker] = "handler" => mHandler

\* The sleep never ends before the time that was computed for it, whatever
\* setInterval() and start() do to the times meanwhile.
OnTime ==
  /\ due <= now + IntMax
  /\ due <= mStartTime + mIntervalMs
  /\ pc[Worker] = "msleep" => timeoutMs >= 1 /\ now + timeoutMs >= due
  /\ pc[Worker] = "sleep" => wakeAt > lastCall /\ wakeAt >= due
  /\ pc[Worker] = "expired" /\ mState = "Running" => now > lastCall /\ now >= due

\* The inductive invariant.
TimerIInv == TimerTypeOK /\ Running /\ OnTime

\* The intervals that the timer may have.
LEMMA IntervalsTyped ==
  /\ ToInt(0) = 0 /\ ToInt(0) \in {ToInt(msec) : msec \in Intervals \cup {0}}
  /\ \A msec \in Intervals :
       ToInt(msec) \in {ToInt(m) : m \in Intervals \cup {0}}
  /\ \A i \in {ToInt(msec) : msec \in Intervals \cup {0}} : i \in Int
  <1>1. \A msec \in Intervals \cup {0} : ToInt(msec) \in Int
    BY TimeAssumption DEF ToInt
  <1>2. ToInt(0) = 0
    BY TimeAssumption DEF ToInt
  <1> QED
    BY <1>1, <1>2

\* The constructor establishes the invariant.
LEMMA TimerInitial == TimerInit => TimerIInv
  <1> SUFFICES ASSUME TimerInit PROVE TimerIInv
    OBVIOUS
  <1> USE CallersAssumption, TimeAssumption DEF TimerInit, CallInit, Init
  <1>1. CallTypeOK
    BY DEF CallTypeOK
  <1>2. mIntervalMs \in {ToInt(msec) : msec \in Intervals \cup {0}}
    BY IntervalsTyped
  <1>3. {mRepeat, mHandler, keepGoing} \subseteq BOOLEAN
    BY Zenon
  <1>4. TimerTypeOK
    BY <1>1, <1>2, <1>3 DEF TimerTypeOK
  <1>5. Running
    BY DEF Running, NoOp, TimerOps, RunPlaces
  <1>6. OnTime
    BY DEF OnTime
  <1> QED
    BY <1>4, <1>5, <1>6 DEF TimerIInv

\* The clock goes on.
LEMMA TickKeeps ==
  ASSUME TimerIInv, Tick
  PROVE  TimerIInv'
  <1> USE TimeAssumption
      DEF TimerIInv, Tick, callVars, lifeVars, config, runVars
  <1>1. TimerTypeOK'
    BY DEF TimerTypeOK, CallTypeOK
  <1>2. Running'
    BY DEF Running
  <1>3. OnTime'
    BY IntervalsTyped DEF OnTime, TimerTypeOK
  <1> QED
    BY <1>1, <1>2, <1>3

\* A caller moves between the sections of its operation; times do not change.
LEMMA TimerCallersKeep ==
  ASSUME TimerIInv, NEW t \in Controllers,
         InvokeTimer(t) \/ StopTimer(t) \/ StartTimer(t) \/ ReturnTimer(t)
  PROVE  TimerIInv'
  <1> USE CallersAssumption, TimeAssumption
      DEF TimerIInv, InvokeTimer, StopTimer, StartTimer, ReturnTimer, Invoke,
          StopStep, StartStep, Return, Goto, CountCall, Acquire, Free, RequestStop,
          Reap, Claim, Begin, Fail, shouldRun, lifeVars, timerVars, config, runVars
  <1>1. UNCHANGED <<mRepeat, mStartTime, mIntervalMs, mHandler, mLock, now,
                    timeoutMs, wakeAt, keepGoing, lastCall, due>>
    OBVIOUS
  <1>2. calls' \in 0 .. MaxCalls
    BY DEF TimerTypeOK
  <1>3. CallTypeOK'
    BY DEF TimerTypeOK, CallTypeOK
  <1>4. op' \in [Callers -> TimerOps]
    BY DEF Running, TimerOps, NoOp
  <1>5. /\ body' = "running" <=> body = "running"
        /\ body' = "running" => mState' \in {"Running", "Stopping"}
        /\ mState' \in {"Idle", "Starting"} => body' = "none"
        /\ mState' = "Exited" => body' = "returned"
        /\ body = "running" /\ mState' = "Running" => mState = "Running"
    BY DEF Running
  <1>6. pc'[Worker] = pc[Worker]
    BY DEF TimerTypeOK, CallTypeOK
  <1>7. TimerTypeOK'
    BY <1>1, <1>2, <1>3 DEF TimerTypeOK
  <1>8. Running'
    BY <1>1, <1>4, <1>5, <1>6 DEF Running
  <1>9. OnTime'
    BY <1>1, <1>5, <1>6 DEF OnTime, Running, RunPlaces
  <1> QED
    BY <1>7, <1>8, <1>9

\* The times are numbers.
LEMMA TimerNumbers ==
  ASSUME TimerTypeOK
  PROVE  /\ now \in Nat /\ IntMax \in Nat /\ wakeAt \in Nat /\ timeoutMs \in Nat
         /\ lastCall \in Nat /\ due \in Int /\ mStartTime \in Int /\ mIntervalMs \in Int
  BY TimeAssumption, IntervalsTyped DEF TimerTypeOK

\* A wait ends no later than either of the two times.
LEMMA EarliestOf ==
  ASSUME TimerTypeOK
  PROVE  \A start, interval \in Int :
           /\ Earliest(start, interval) \in Int
           /\ Earliest(start, interval) <= start + interval
           /\ Earliest(start, interval) <= now + IntMax
  BY TimerNumbers DEF Earliest, LesserOf

\* Of two times the lesser.
LEMMA Lesser ==
  \A a, b \in Int : LesserOf(a, b) \in Int /\ LesserOf(a, b) <= a /\ LesserOf(a, b) <= b
  BY DEF LesserOf

\* The times of start() and restart(), which find the thread stopped, or
\* executing run() for somebody who was faster.
LEMMA ConfigureKeeps ==
  ASSUME TimerIInv, NEW t \in Controllers, Configure(t)
  PROVE  TimerIInv'
  <1> USE CallersAssumption, TimeAssumption
      DEF TimerIInv, Configure, Goto, lifeVars, runVars
  <1>1. /\ pc'[Worker] = pc[Worker] /\ DOMAIN pc' = Threads /\ op' = op
        /\ UNCHANGED <<mState, body, lifecycle, mHandler, mLock, now, timeoutMs,
                       wakeAt, keepGoing, lastCall, calls>>
        /\ mStartTime' = now
    BY DEF TimerTypeOK, CallTypeOK
  <1>2. /\ mIntervalMs' \in {ToInt(msec) : msec \in Intervals \cup {0}}
        /\ mRepeat' \in BOOLEAN
    <2>1. CASE op[t].name = "start"
      <3>1. op[t].msec \in Intervals /\ op[t].repeat \in BOOLEAN
        BY <2>1 DEF Running, TimerOps
      <3> QED
        BY <2>1, <3>1, IntervalsTyped
    <2>2. CASE op[t].name # "start"
      BY <2>2 DEF TimerTypeOK
    <2> QED
      BY <2>1, <2>2
  <1>3. mIntervalMs' \in Int /\ now \in Int
    BY <1>2, IntervalsTyped DEF TimerTypeOK
  <1>4. due' = IF body = "running" THEN LesserOf(due, Earliest(now, mIntervalMs'))
                ELSE Earliest(now, mIntervalMs')
    OBVIOUS
  <1> HIDE DEF Configure
  <1>5. /\ due' \in Int /\ due' <= now + IntMax
        /\ due' <= now + mIntervalMs'
        /\ body = "running" => due' <= due
    <2>1. PICK i \in Int : i = mIntervalMs'
      BY <1>3
    <2>2. /\ Earliest(now, i) \in Int /\ Earliest(now, i) <= now + i
          /\ Earliest(now, i) <= now + IntMax
      BY <1>3, EarliestOf
    <2> QED
      <3>1. PICK e \in Int : e = Earliest(now, i)
        BY <2>2
      <3>2. /\ e <= now + IntMax /\ e <= now + mIntervalMs'
            /\ due' = IF body = "running" THEN LesserOf(due, e) ELSE e
        BY <1>4, <2>1, <2>2, <3>1
      <3>3. LesserOf(due, e) \in Int /\ LesserOf(due, e) <= due /\ LesserOf(due, e) <= e
        BY <3>1, Lesser, TimerNumbers
      <3> HIDE DEF TimerIInv
      <3> QED
        BY <1>3, <3>1, <3>2, <3>3, TimerNumbers
  <1>6. TimerTypeOK'
    BY <1>1, <1>2, <1>5 DEF TimerTypeOK, CallTypeOK
  <1>7. Running'
    BY <1>1 DEF Running
  <1>8. OnTime'
    <2>1. CASE body = "running"
      <3>1. due' <= due /\ due' <= now + IntMax /\ due' <= now + mIntervalMs' /\ due' \in Int
        BY <1>5, <2>1
      <3> QED
        BY <1>1, <1>3, <3>1, TimerNumbers DEF OnTime
    <2>2. CASE body # "running"
      <3>1. pc'[Worker] = "none"
        BY <1>1, <2>2 DEF Running
      <3> QED
        BY <1>1, <1>3, <1>5, <3>1, TimerNumbers DEF OnTime
    <2> QED
      BY <2>1, <2>2
  <1> QED
    BY <1>6, <1>7, <1>8

\* setInterval(), setRepeat() and setHandler(); the last one is not for the
\* handler.
LEMMA SettersKeep ==
  ASSUME TimerIInv, NEW t \in Threads,
         \/ \E msec \in Intervals : setInterval(t, msec)
         \/ \E repeat \in BOOLEAN : setRepeat(t, repeat)
         \/ t \in Callers /\ \E on \in BOOLEAN : setHandler(t, on)
  PROVE  TimerIInv'
  <1> USE CallersAssumption, TimeAssumption
      DEF TimerIInv, callVars, lifeVars, runVars, MayLock, CountCall
  <1>1. ASSUME NEW msec \in Intervals, setInterval(t, msec)
        PROVE  TimerIInv'
    <2> USE <1>1 DEF setInterval
    <2>1. /\ mIntervalMs' \in {ToInt(m) : m \in Intervals \cup {0}}
          /\ mIntervalMs' \in Int /\ calls' \in 0 .. MaxCalls
      BY IntervalsTyped DEF TimerTypeOK
    <2>2. due' = LesserOf(due, Earliest(mStartTime, mIntervalMs'))
      OBVIOUS
    <2>3. UNCHANGED <<callVars, mRepeat, mStartTime, mHandler, mLock, now, runVars>>
      OBVIOUS
    <2> HIDE DEF setInterval
    <2>4. /\ due' \in Int /\ due' <= due
          /\ due' <= now + IntMax /\ due' <= mStartTime + mIntervalMs'
      <3>1. PICK i \in Int : i = mIntervalMs'
        BY <2>1
      <3>2. PICK e \in Int : /\ e = Earliest(mStartTime, i)
                             /\ e <= mStartTime + i /\ e <= now + IntMax
        BY EarliestOf, TimerNumbers
      <3>3. LesserOf(due, e) \in Int /\ LesserOf(due, e) <= due /\ LesserOf(due, e) <= e
        BY Lesser, TimerNumbers
      <3> QED
        BY <2>2, <3>1, <3>2, <3>3, TimerNumbers
    <2>5. TimerTypeOK'
      BY <2>1, <2>3, <2>4 DEF TimerTypeOK, CallTypeOK
    <2>6. Running'
      BY <2>3 DEF Running
    <2>7. OnTime'
      BY <2>1, <2>3, <2>4, TimerNumbers DEF OnTime
    <2> QED
      BY <2>5, <2>6, <2>7
  <1>2. ASSUME NEW on \in BOOLEAN,
               setRepeat(t, on) \/ (t \in Callers /\ setHandler(t, on))
        PROVE  TimerIInv'
    <2> USE <1>2 DEF setRepeat, setHandler
    <2>1. UNCHANGED <<callVars, mStartTime, mIntervalMs, mLock, now, runVars, due, calls>>
      OBVIOUS
    <2>2. mRepeat' \in BOOLEAN /\ mHandler' \in BOOLEAN
      BY DEF TimerTypeOK
    <2>3. pc[Worker] = "handler" => mHandler' = mHandler
      BY DEF Running
    <2>4. TimerTypeOK'
      BY <2>1, <2>2 DEF TimerTypeOK, CallTypeOK
    <2>5. Running'
      BY <2>1, <2>3 DEF Running
    <2>6. OnTime'
      BY <2>1 DEF OnTime
    <2> QED
      BY <2>4, <2>5, <2>6
  <1> QED
    BY <1>1, <1>2

\* The end of an iteration: the next one has a later start, or there is none.
LEMMA RearmKeeps ==
  ASSUME TimerIInv, NEW again \in BOOLEAN, Rearm(again),
         mLock' = NoThread, pc[Worker] \in {"expired", "handler"},
         keepGoing' \in BOOLEAN,
         UNCHANGED <<lifeVars, op, mRepeat, mIntervalMs, mHandler, now, timeoutMs,
                     wakeAt, lastCall, calls>>
  PROVE  TimerIInv'
  <1> USE CallersAssumption DEF TimerIInv, lifeVars
  <1>1. CASE again
    <2>1. /\ mStartTime' = mStartTime + mIntervalMs
          /\ due' = Earliest(mStartTime', mIntervalMs)
          /\ pc'[Worker] = "loop" /\ DOMAIN pc' = Threads
      BY <1>1 DEF Rearm, Goto, TimerTypeOK, CallTypeOK
    <2>2. PICK start \in Int : start = mStartTime + mIntervalMs
      BY TimerNumbers
    <2>3. /\ Earliest(start, mIntervalMs) \in Int
          /\ Earliest(start, mIntervalMs) <= start + mIntervalMs
          /\ Earliest(start, mIntervalMs) <= now + IntMax
      BY EarliestOf, TimerNumbers
    <2>4. TimerTypeOK'
      BY <2>1, <2>2, <2>3 DEF TimerTypeOK, CallTypeOK
    <2>5. Running'
      BY <2>1 DEF Running, RunPlaces
    <2>6. OnTime'
      BY <2>1, <2>2, <2>3 DEF OnTime
    <2> QED
      BY <2>4, <2>5, <2>6
  <1>2. CASE ~again
    <2>1. /\ mStartTime' = mStartTime /\ due' = due
          /\ pc'[Worker] = "end" /\ DOMAIN pc' = Threads
      BY <1>2 DEF Rearm, Goto, TimerTypeOK, CallTypeOK
    <2>2. TimerTypeOK'
      BY <2>1 DEF TimerTypeOK, CallTypeOK
    <2>3. Running'
      BY <2>1 DEF Running, RunPlaces
    <2>4. OnTime'
      BY <2>1 DEF OnTime
    <2> QED
      BY <2>2, <2>3, <2>4
  <1> QED
    BY <1>1, <1>2

\* run(), from its beginning to the handler and to its end.
LEMMA RunStepKeeps ==
  ASSUME TimerIInv, RunStep
  PROVE  TimerIInv'
  <1> USE CallersAssumption, TimeAssumption
      DEF TimerIInv, lifeVars, timerVars, config, runVars, shouldRun, Goto
  <1>1. CASE RunTimer
    <2> USE <1>1 DEF RunTimer, RunBegins
    <2>1. TimerTypeOK'
      BY DEF TimerTypeOK, CallTypeOK
    <2>2. Running'
      BY DEF Running, RunPlaces, TimerTypeOK, CallTypeOK
    <2>3. OnTime'
      BY DEF OnTime, TimerTypeOK, CallTypeOK
    <2> QED
      BY <2>1, <2>2, <2>3
  <1>2. CASE TestLoop \/ Stopped
    <2> USE <1>2 DEF TestLoop, Stopped
    <2>1. TimerTypeOK'
      BY DEF TimerTypeOK, CallTypeOK
    <2>2. Running'
      BY DEF Running, RunPlaces, TimerTypeOK, CallTypeOK
    <2>3. OnTime'
      BY DEF OnTime, TimerTypeOK, CallTypeOK
    <2> QED
      BY <2>1, <2>2, <2>3
  <1>3. CASE ComputeWait
    <2> USE <1>3 DEF ComputeWait
    <2>1. /\ timeoutMs' \in 1 .. IntMax
          /\ now + timeoutMs' >= due
      BY TimerNumbers DEF OnTime, LesserOf
    <2>2. /\ pc'[Worker] = "msleep" /\ DOMAIN pc' = Threads /\ pc[Worker] = "compute"
          /\ UNCHANGED <<lifeVars, op, config, mLock, now, wakeAt, keepGoing, due,
                         lastCall, calls>>
      BY DEF TimerTypeOK, CallTypeOK
    <2> HIDE DEF ComputeWait
    <2>3. TimerTypeOK'
      BY <2>1, <2>2 DEF TimerTypeOK, CallTypeOK
    <2>4. Running'
      BY <2>2 DEF Running, RunPlaces
    <2>5. OnTime'
      BY <2>1, <2>2, TimerNumbers DEF OnTime
    <2> QED
      BY <2>3, <2>4, <2>5
  <1>4. CASE Msleep
    <2> USE <1>4 DEF Msleep
    <2>1. wakeAt' \in 0 .. MaxTime + IntMax
      BY DEF TimerTypeOK
    <2>2. TimerTypeOK'
      BY <2>1 DEF TimerTypeOK, CallTypeOK
    <2>3. Running'
      BY DEF Running, RunPlaces, TimerTypeOK, CallTypeOK
    <2>4. OnTime'
      BY TimerNumbers DEF OnTime, TimerTypeOK, CallTypeOK
    <2> QED
      BY <2>2, <2>3, <2>4
  <1>5. CASE Wake
    <2> USE <1>5 DEF Wake
    <2>1. TimerTypeOK'
      BY DEF TimerTypeOK, CallTypeOK
    <2>2. Running'
      BY DEF Running, RunPlaces, TimerTypeOK, CallTypeOK
    <2>3. OnTime'
      BY TimerNumbers DEF OnTime, TimerTypeOK, CallTypeOK
    <2> QED
      BY <2>1, <2>2, <2>3
  <1>6. CASE ExpireUnhandled
    BY <1>6, RearmKeeps DEF ExpireUnhandled, TimerTypeOK
  <1>7. CASE CallHandler
    <2> USE <1>7 DEF CallHandler
    <2>1. TimerTypeOK'
      BY DEF TimerTypeOK, CallTypeOK
    <2>2. Running'
      BY DEF Running, RunPlaces, TimerTypeOK, CallTypeOK
    <2>3. OnTime'
      BY DEF OnTime, TimerTypeOK, CallTypeOK
    <2> QED
      BY <2>1, <2>2, <2>3
  <1>8. ASSUME NEW result \in BOOLEAN, HandlerReturns(result)
        PROVE  TimerIInv'
    <2>1. (keepGoing /\ result) \in BOOLEAN
      OBVIOUS
    <2> QED
      BY <1>8, <2>1, RearmKeeps DEF HandlerReturns
  <1>9. CASE EndRun
    <2> USE <1>9 DEF EndRun, RunReturns
    <2>1. TimerTypeOK'
      BY DEF TimerTypeOK, CallTypeOK
    <2>2. Running'
      BY DEF Running, RunPlaces, TimerTypeOK, CallTypeOK
    <2>3. OnTime'
      BY DEF OnTime, TimerTypeOK, CallTypeOK
    <2> QED
      BY <2>1, <2>2, <2>3
  <1>10. CASE TimerThreadExits
    <2> USE <1>10 DEF TimerThreadExits, Exit
    <2>1. TimerTypeOK'
      BY DEF TimerTypeOK, CallTypeOK
    <2>2. Running'
      BY DEF Running
    <2>3. OnTime'
      BY DEF OnTime, Running
    <2> QED
      BY <2>1, <2>2, <2>3
  <1> QED
    BY <1>1, <1>2, <1>3, <1>4, <1>5, <1>6, <1>7, <1>8, <1>9, <1>10 DEF RunStep

\* Every step keeps the invariant.
LEMMA TimerStepKeeps ==
  ASSUME TimerIInv, [TimerNext]_<<callVars, timerVars>>
  PROVE  TimerIInv'
  <1>1. CASE UNCHANGED <<callVars, timerVars>>
    BY <1>1 DEF TimerIInv, TimerTypeOK, CallTypeOK, Running, OnTime, callVars, lifeVars,
       timerVars, config, runVars
  <1>2. ASSUME NEW t \in Controllers,
               \/ InvokeTimer(t) \/ StopTimer(t) \/ Configure(t)
               \/ StartTimer(t) \/ ReturnTimer(t)
        PROVE  TimerIInv'
    BY <1>2, TimerCallersKeep, ConfigureKeeps
  <1>3. ASSUME NEW t \in Callers, NEW on \in BOOLEAN, setHandler(t, on)
        PROVE  TimerIInv'
    BY <1>3, SettersKeep, CallersAssumption
  <1>4. ASSUME NEW t \in Threads,
               \/ \E msec \in Intervals : setInterval(t, msec)
               \/ \E repeat \in BOOLEAN : setRepeat(t, repeat)
        PROVE  TimerIInv'
    BY <1>4, SettersKeep
  <1> QED
    BY <1>1, <1>2, <1>3, <1>4, TickKeeps, RunStepKeeps DEF TimerNext

\* The invariant holds in every reachable state of a TimerThread.
THEOREM TimerInductive == TimerSpec => []TimerIInv
  BY TimerInitial, TimerStepKeeps, PTL DEF TimerSpec

\* The handler is entered in one place, and nothing takes it or the thread
\* away before it returns.
LEMMA OnTimeStep ==
  ASSUME TimerIInv, [TimerNext]_<<callVars, timerVars>>
  PROVE  /\ pc[Worker] # "handler" /\ pc'[Worker] = "handler"
              => now >= due /\ now > lastCall
         /\ pc[Worker] = "handler"
              => mHandler' /\ mState' \in {"Running", "Stopping"}
  <1> USE CallersAssumption, TimeAssumption
      DEF TimerIInv, callVars, lifeVars, timerVars, config, runVars
  <1>1. pc'[Worker] = pc[Worker] \/ RunStep
    BY DEF TimerNext, Tick, InvokeTimer, StopTimer, Configure, StartTimer, ReturnTimer,
           setHandler, setInterval, setRepeat, Invoke, StopStep, StartStep, Return,
           Goto, TimerTypeOK, CallTypeOK
  <1>2. ASSUME RunStep, pc[Worker] # "handler", pc'[Worker] = "handler"
        PROVE  CallHandler
    BY <1>2 DEF RunStep, RunTimer, TestLoop, ComputeWait, Msleep, Wake, Stopped,
           ExpireUnhandled, CallHandler, HandlerReturns, EndRun, TimerThreadExits,
           Rearm, Goto, TimerTypeOK, CallTypeOK
  <1>3. CallHandler => now >= due /\ now > lastCall
    BY DEF CallHandler, OnTime, shouldRun
  <1>4. ASSUME pc[Worker] = "handler"
        PROVE  mHandler' /\ mState' \in {"Running", "Stopping"}
    <2>1. body = "running" /\ mState \in {"Running", "Stopping"} /\ mHandler /\ mLock = Worker
      BY <1>4 DEF Running
    <2>2. mHandler' = mHandler
      BY <2>1 DEF TimerNext, Tick, InvokeTimer, StopTimer, Configure, StartTimer,
             ReturnTimer, setHandler, setInterval, setRepeat, MayLock, RunStep, RunTimer,
             TestLoop, ComputeWait, Msleep, Wake, Stopped, ExpireUnhandled, CallHandler,
             HandlerReturns, EndRun, TimerThreadExits
    <2>3. mState' \in {"Running", "Stopping"}
      BY <2>1 DEF TimerNext, Tick, InvokeTimer, StopTimer, Configure, StartTimer,
             ReturnTimer, setHandler, setInterval, setRepeat, RunStep, RunTimer,
             TestLoop, ComputeWait, Msleep, Wake, Stopped, ExpireUnhandled, CallHandler,
             HandlerReturns, EndRun, TimerThreadExits, StopStep, StartStep, Acquire,
             Free, Claim, Fail, Begin, RequestStop, Reap, RunBegins, RunReturns, Exit,
             Invoke, Return
    <2> QED
      BY <2>1, <2>2, <2>3
  <1> QED
    BY <1>1, <1>2, <1>3, <1>4

\* However start(), restart(), stop() and the setters interleave with the
\* sleep: no call comes early, two calls are a tick apart, and the handler is
\* there until it returns.
THEOREM FiresOnTime == TimerSpec => CallsOnTime
  <1>1. TimerIInv /\ [TimerNext]_<<callVars, timerVars>>
          => [/\ pc[Worker] # "handler" /\ pc'[Worker] = "handler"
                   => now >= due /\ now > lastCall
              /\ pc[Worker] = "handler"
                   => mHandler' /\ mState' \in {"Running", "Stopping"}
             ]_<<callVars, timerVars>>
    BY OnTimeStep
  <1> QED
    BY <1>1, TimerInductive, PTL DEF TimerSpec, CallsOnTime

-------------------------------------------------------------------------------
(* AsyncThread *)

Operations ==
  [name : {"none", "stop"}] \cup [name : {"start"}, task : Tasks]

\* Where a caller holds AsyncThread::mLifecycleLock, where it also holds
\* WorkerThread::mLifecycleLock, and where it is about to start a thread.
HoldsAsync ==
  {"stop", "request", "join", "replace", "start", "claim", "create", "unlock"}

HoldsLife == {"request", "join", "claim", "create"}

Restarting == {"replace", "start", "claim", "create"}

AsyncTypes ==
  /\ mState \in {"Idle", "Starting", "Running", "Stopping", "Exited"}
  /\ body \in {"none", "running", "returned"}
  /\ lifecycle \in Callers \cup {NoThread}
  /\ asyncLock \in Callers \cup {NoThread}
  /\ DOMAIN pc = Threads
  /\ op \in [Callers -> Operations]
  /\ mWorkerTask \in Tasks \cup {NoTask}
  /\ \A t \in Callers : pc[t] \in {"idle", "lock"} \cup HoldsAsync

\* Both locks belong to the caller that is between their two ends.
Locked(t) ==
  /\ pc[t] \in HoldsAsync <=> asyncLock = t
  /\ pc[t] \in HoldsLife <=> lifecycle = t

\* A caller that has stopped the thread and is about to start it finds it
\* stopped, since nobody else could start it, and its own callable in place.
Restart(t) ==
  /\ pc[t] \in Restarting => op[t].name = "start"
  /\ pc[t] \in Restarting \ {"create"} => mState = "Idle"
  /\ pc[t] = "create" => mState = "Starting"
  /\ pc[t] \in Restarting \ {"replace"} => mWorkerTask = op[t].task

\* The inductive invariant.
AsyncIInv ==
  /\ AsyncTypes
  /\ mState \in {"Idle", "Starting"} => body = "none"
  /\ \A t \in Callers : Locked(t) /\ Restart(t)

\* The constructors establish it.
LEMMA AsyncInitial == AsyncInit => AsyncIInv
  <1> SUFFICES ASSUME AsyncInit PROVE AsyncIInv
    OBVIOUS
  <1> USE CallersAssumption DEF AsyncInit, CallInit, Init, NoOp, HoldsAsync, HoldsLife, Restarting
  <1>1. AsyncTypes
    BY DEF AsyncTypes, Operations
  <1>2. \A t \in Callers : Locked(t) /\ Restart(t)
    BY DEF Locked, Restart
  <1> QED
    BY <1>1, <1>2 DEF AsyncIInv

\* A step that changes neither the locks, nor the thread, nor a callable, nor
\* where a caller is.
LEMMA AsyncStutters ==
  ASSUME AsyncIInv, UNCHANGED <<callVars, asyncVars>>
  PROVE  AsyncIInv'
  BY DEF AsyncIInv, AsyncTypes, Locked, Restart, callVars, lifeVars, asyncVars

\* A step of the thread leaves Idle and Starting alone, and the callers.
LEMMA RunStepsKeep ==
  ASSUME AsyncIInv, RunTask \/ TaskReturns \/ TaskThreadExits
  PROVE  AsyncIInv'
  BY DEF AsyncIInv, AsyncTypes, Locked, Restart, RunTask, TaskReturns, TaskThreadExits,
         RunBegins, RunReturns, Exit, asyncVars, Restarting

\* A caller enters start() or stop().
LEMMA InvokeKeeps ==
  ASSUME AsyncIInv, NEW t \in Callers, InvokeAsync(t)
  PROVE  AsyncIInv'
  <1> USE CallersAssumption DEF HoldsAsync, HoldsLife, Restarting
  <1>1. PICK o \in Operations : Invoke(t, o, "lock")
    BY DEF InvokeAsync, Operations
  <1>2. /\ pc[t] = "idle" /\ pc' = [pc EXCEPT ![t] = "lock"]
        /\ op' = [op EXCEPT ![t] = o]
        /\ UNCHANGED <<lifeVars, asyncVars>>
    BY <1>1 DEF Invoke, Goto, InvokeAsync
  <1>3. AsyncTypes'
    BY <1>2 DEF AsyncIInv, AsyncTypes, lifeVars, asyncVars
  <1>4. \A u \in Callers : Locked(u)' /\ Restart(u)'
    BY <1>2 DEF AsyncIInv, AsyncTypes, Locked, Restart, lifeVars, asyncVars
  <1> QED
    BY <1>2, <1>3, <1>4 DEF AsyncIInv, lifeVars

\* mLifecycleLock of the AsyncThread is taken and given back.
LEMMA LockKeeps ==
  ASSUME AsyncIInv, NEW t \in Callers, LockAsync(t) \/ UnlockAsync(t)
  PROVE  AsyncIInv'
  <1> USE CallersAssumption DEF HoldsAsync, HoldsLife, Restarting, LockAsync, UnlockAsync,
          Goto, Return, NoOp, lifeVars
  <1>1. AsyncTypes'
    BY DEF AsyncIInv, AsyncTypes, Operations
  <1>2. \A u \in Callers : Locked(u)'
    BY DEF AsyncIInv, AsyncTypes, Locked
  <1>3. \A u \in Callers : Restart(u)'
    BY DEF AsyncIInv, AsyncTypes, Restart
  <1> QED
    BY <1>1, <1>2, <1>3 DEF AsyncIInv

\* The callable is replaced by the caller that holds the lock.
LEMMA ReplaceKeeps ==
  ASSUME AsyncIInv, NEW t \in Callers, ReplaceTask(t)
  PROVE  AsyncIInv'
  <1> USE CallersAssumption DEF HoldsAsync, HoldsLife, Restarting, ReplaceTask, Goto, lifeVars
  <1>1. AsyncTypes'
    <2>1. op[t].name = "start" /\ op[t] \in Operations
      BY DEF AsyncIInv, AsyncTypes, Restart
    <2>2. op[t].task \in Tasks
      BY <2>1 DEF Operations
    <2> QED
      BY <2>2 DEF AsyncIInv, AsyncTypes
  <1>2. \A u \in Callers : Locked(u)'
    BY DEF AsyncIInv, AsyncTypes, Locked
  <1>3. \A u \in Callers : Restart(u)'
    BY DEF AsyncIInv, AsyncTypes, Locked, Restart
  <1> QED
    BY <1>1, <1>2, <1>3 DEF AsyncIInv

\* mThreadEngine.stop(): whatever it finds, the thread is Idle after it.
LEMMA StopKeeps ==
  ASSUME AsyncIInv, NEW t \in Callers, StopEngine(t)
  PROVE  AsyncIInv'
  <1> USE CallersAssumption DEF HoldsAsync, HoldsLife, Restarting, StopEngine, StopStep,
          Acquire, Free, RequestStop, Reap, shouldRun, Goto, lifeVars, asyncVars
  <1>1. AsyncTypes'
    BY DEF AsyncIInv, AsyncTypes
  <1>2. \A u \in Callers : Locked(u)'
    BY DEF AsyncIInv, AsyncTypes, Locked
  <1>3. ASSUME NEW u \in Callers PROVE Restart(u)'
    <2>1. CASE u = t
      BY <2>1 DEF AsyncIInv, AsyncTypes, Locked, Restart
    <2>2. CASE u # t
      BY <2>2 DEF AsyncIInv, AsyncTypes, Locked, Restart
    <2> QED
      BY <2>1, <2>2
  <1>4. (mState \in {"Idle", "Starting"} => body = "none")'
    BY DEF AsyncIInv
  <1> QED
    BY <1>1, <1>2, <1>3, <1>4 DEF AsyncIInv

\* mThreadEngine.start(): nobody else is there to start it.
LEMMA StartKeeps ==
  ASSUME AsyncIInv, NEW t \in Callers, StartEngine(t)
  PROVE  AsyncIInv'
  <1> USE CallersAssumption DEF HoldsAsync, HoldsLife, Restarting, StartEngine, StartStep,
          Acquire, Free, Reap, Claim, Begin, Fail, Goto, lifeVars, asyncVars
  <1>1. AsyncTypes'
    BY DEF AsyncIInv, AsyncTypes
  <1>2. \A u \in Callers : Locked(u)'
    BY DEF AsyncIInv, AsyncTypes, Locked
  <1>3. ASSUME NEW u \in Callers PROVE Restart(u)'
    <2>1. CASE u = t
      BY <2>1 DEF AsyncIInv, AsyncTypes, Locked, Restart
    <2>2. CASE u # t
      BY <2>2 DEF AsyncIInv, AsyncTypes, Locked, Restart
    <2> QED
      BY <2>1, <2>2
  <1>4. (mState \in {"Idle", "Starting"} => body = "none")'
    BY DEF AsyncIInv
  <1> QED
    BY <1>1, <1>2, <1>3, <1>4 DEF AsyncIInv

\* Every step keeps the invariant.
LEMMA AsyncStepKeeps ==
  ASSUME AsyncIInv, [AsyncNext]_<<callVars, asyncVars>>
  PROVE  AsyncIInv'
  <1>1. CASE UNCHANGED <<callVars, asyncVars>>
    BY <1>1, AsyncStutters
  <1>2. ASSUME NEW t \in Callers,
               \/ InvokeAsync(t) \/ LockAsync(t) \/ StopEngine(t)
               \/ ReplaceTask(t) \/ StartEngine(t) \/ UnlockAsync(t)
        PROVE  AsyncIInv'
    BY <1>2, InvokeKeeps, LockKeeps, StopKeeps, ReplaceKeeps, StartKeeps
  <1>3. CASE RunTask \/ TaskReturns \/ TaskThreadExits
    BY <1>3, RunStepsKeep
  <1> QED
    BY <1>1, <1>2, <1>3 DEF AsyncNext

\* The invariant holds in every reachable state of an AsyncThread.
THEOREM AsyncInductive == AsyncSpec => []AsyncIInv
  BY AsyncInitial, AsyncStepKeeps, PTL DEF AsyncSpec

\* A step replaces the callable only when there is no thread to execute it, and
\* the thread that a start() creates executes the callable of that start().
LEMMA StableStep ==
  ASSUME AsyncIInv, [AsyncNext]_<<callVars, asyncVars>>
  PROVE  /\ mState \in {"Running", "Stopping"} \/ body = "running"
              => mWorkerTask' = mWorkerTask
         /\ \A t \in Callers :
              pc[t] = "create" /\ "task" \in DOMAIN op[t] => mWorkerTask = op[t].task
  <1>1. \A t \in Callers : pc[t] = "create" => mWorkerTask = op[t].task
    BY DEF AsyncIInv, Restart, Restarting
  <1>2. ASSUME NEW t \in Callers, ReplaceTask(t)
        PROVE  body = "none" /\ mState = "Idle"
    BY <1>2 DEF AsyncIInv, Restart, Restarting, ReplaceTask
  <1>3. (\E t \in Callers : ReplaceTask(t)) \/ mWorkerTask' = mWorkerTask
    BY DEF AsyncNext, InvokeAsync, LockAsync, StopEngine, StartEngine, UnlockAsync,
           RunTask, TaskReturns, TaskThreadExits, asyncVars
  <1> QED
    BY <1>1, <1>2, <1>3

\* start() and stop() of an AsyncThread, called by any number of threads,
\* never replace the callable of a thread that is there to execute it.
THEOREM CallableStable == AsyncSpec => TaskStable
  <1>1. AsyncIInv /\ [AsyncNext]_<<callVars, asyncVars>>
          => [/\ mState \in {"Running", "Stopping"} \/ body = "running"
                   => mWorkerTask' = mWorkerTask
              /\ \A t \in Callers :
                   pc[t] = "create" /\ "task" \in DOMAIN op[t] => mWorkerTask = op[t].task
             ]_<<callVars, asyncVars>>
    BY StableStep
  <1> QED
    BY <1>1, AsyncInductive, PTL DEF AsyncSpec, TaskStable

-------------------------------------------------------------------------------
(* The three of them side by side *)

\* A class that the behaviour is not about keeps its types, and the class that
\* it is about keeps its invariant.
OwnersIInv ==
  /\ TimerTypeOK /\ AsyncTypeOK /\ AppIInv
  /\ subject = "TimerThread" => TimerIInv
  /\ subject = "AsyncThread" => AsyncIInv

LEMMA OwnersInitial == OwnersInit => OwnersIInv
  <1> SUFFICES ASSUME OwnersInit PROVE OwnersIInv
    OBVIOUS
  <1>1. TimerIInv /\ AsyncIInv /\ AppIInv
    BY TimerInitial, AsyncInitial, AppInitial DEF OwnersInit
  <1>2. AsyncTypeOK
    BY <1>1 DEF OwnersInit, AsyncInit, AsyncTypeOK, TimerIInv, TimerTypeOK
  <1> QED
    BY <1>1, <1>2 DEF OwnersIInv, TimerIInv

LEMMA OwnersStepKeeps ==
  ASSUME OwnersIInv, [OwnersNext]_ownerVars
  PROVE  OwnersIInv'
  <1> USE DEF OwnersIInv
  <1>1. CASE UNCHANGED ownerVars
    <2>1. [TimerNext]_<<callVars, timerVars>> /\ [AsyncNext]_<<callVars, asyncVars>>
          /\ [AppNext]_appVars
      BY <1>1 DEF ownerVars
    <2>2. (TimerTypeOK /\ AsyncTypeOK)'
      BY <1>1 DEF ownerVars, TimerTypeOK, AsyncTypeOK, CallTypeOK, callVars, lifeVars,
         timerVars, config, runVars, asyncVars
    <2> QED
      BY <1>1, <2>1, <2>2, TimerStepKeeps, AsyncStepKeeps, AppStepKeeps DEF ownerVars
  <1>2. CASE /\ subject = "TimerThread" /\ UNCHANGED subject
             /\ TimerNext /\ UNCHANGED <<asyncVars, appVars>>
    <2>1. TimerIInv' /\ AppIInv'
      BY <1>2, TimerStepKeeps, AppStepKeeps
    <2>2. AsyncTypeOK'
      BY <1>2, <2>1 DEF TimerIInv, TimerTypeOK, AsyncTypeOK, asyncVars
    <2> QED
      BY <1>2, <2>1, <2>2 DEF TimerIInv
  <1>3. CASE /\ subject = "AsyncThread" /\ UNCHANGED subject
             /\ AsyncNext /\ UNCHANGED <<timerVars, appVars>>
    <2>1. AsyncIInv' /\ AppIInv'
      BY <1>3, AsyncStepKeeps, AppStepKeeps
    <2>2. CallTypeOK' /\ AsyncTypeOK'
      BY <2>1 DEF AsyncIInv, AsyncTypes, AsyncTypeOK, CallTypeOK
    <2>3. TimerTypeOK'
      BY <1>3, <2>2 DEF TimerTypeOK, timerVars, config, runVars
    <2> QED
      BY <1>3, <2>1, <2>2, <2>3
  <1>4. CASE /\ subject = "App" /\ UNCHANGED subject
             /\ AppNext /\ UNCHANGED <<callVars, timerVars, asyncVars>>
    <2>1. AppIInv'
      BY <1>4, AppStepKeeps
    <2>2. (TimerTypeOK /\ AsyncTypeOK)'
      BY <1>4 DEF TimerTypeOK, AsyncTypeOK, CallTypeOK, callVars, lifeVars,
         timerVars, config, runVars, asyncVars
    <2> QED
      BY <1>4, <2>1, <2>2
  <1> QED
    BY <1>1, <1>2, <1>3, <1>4 DEF OwnersNext

\* The types of the three classes hold in every reachable state.
THEOREM OwnersTyped == OwnersSpec => []TypeOK
  <1>1. OwnersIInv => TypeOK
    BY DEF OwnersIInv, TypeOK, AppIInv
  <1> QED
    BY <1>1, OwnersInitial, OwnersStepKeeps, PTL DEF OwnersSpec

===============================================================================
