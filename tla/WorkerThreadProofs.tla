-------------------------- MODULE WorkerThreadProofs --------------------------
(***************************************************************************)
(* Proofs about WorkerThread, for any number of callers and any operations *)
(* that they and run() use.                                                *)
(*                                                                         *)
(* IInv is inductive: one lemma for each group of actions, in each of them *)
(* one step per action and under it the conjuncts of IInv, those that need *)
(* only themselves together.  The safety properties follow from IInv.      *)
(***************************************************************************)
EXTENDS WorkerThread, TLAPS

\* The Boolean fields have their type: for the steps that assign constants to
\* them.
Flags ==
  /\ mWorker \in BOOLEAN
  /\ mStopRequested \in BOOLEAN
  /\ mThreadReady \in BOOLEAN
  /\ mStartReleased \in BOOLEAN
  /\ mWakeupRequested \in BOOLEAN

\* A constructed WorkerThread that nobody has used.
LEMMA InitEstablishesIInv == Init => IInv
<1> SUFFICES ASSUME Init PROVE IInv
  OBVIOUS
<1> USE ThreadsAssumption DEF Threads
<1>1. \A t \in Threads : pc[t] = IF t = Worker THEN "none" ELSE "idle"
  BY SMT DEF Init
<1>2. \A t \in Threads : pc[t] = "none" \/ pc[t] = "idle"
  BY <1>1
<1>3. \A t \in Threads : op[t] = "requestStop"
  BY SMT DEF Init
<1>4. \A t \in Threads : ~Holds(t) /\ ~InCallback(t)
  BY <1>2, SMT DEF Holds, InCallback, StartingLabels, JoinLabels
<1>5. Flags
  BY Zenon DEF Init, Flags
<1>6. pc \in [Threads -> Labels] /\ op \in [Threads -> Ops]
  BY SMT DEF Init, Labels, Ops
<1>7. TypeOK
  BY <1>5, <1>6, SMT DEF Init, TypeOK, Flags, States
<1>8. LockInv
  BY <1>4, SMT DEF Init, LockInv
<1>9. LabelInv
  <2>1. \A t \in Callers : pc[t] \notin WorkerOnly
    BY <1>1, SMT DEF WorkerOnly
  <2>2. pc[Worker] = "none"
    BY <1>1
  <2>3. \A t \in Threads : pc[t] \notin Ops \cup JoinLabels \cup StartingLabels
            \cup {"claim", "fail_cleanup", "notify", "stop_join"}
    BY <1>2, SMT DEF Ops, JoinLabels, StartingLabels
  <2> QED
    BY <2>1, <2>2, <2>3, SMT DEF LabelInv, WorkerOnly, Ops
<1>10. pc[Worker] = "none" /\ HolderPc = "idle"
  <2>1. lifecycle = NoThread
    BY DEF Init
  <2> QED
    BY <1>1, <2>1 DEF HolderPc
<1>11. PhaseInv
  BY <1>10, SMT DEF Init, PhaseInv, StartingLabels, JoinLabels
<1>12. CallbackInv
  BY <1>4, <1>10, SMT DEF Init, CallbackInv
<1>13. LifeInv /\ StopNotLost
  BY <1>10, SMT DEF Init, LifeInv, StopNotLost
<1> QED
  BY <1>7, <1>8, <1>9, <1>11, <1>12, <1>13 DEF IInv

\* start(), from the acquisition of mLifecycleLock to its release.
LEMMA StartStepPreservesIInv ==
  ASSUME IInv, NEW t \in Threads, StartStep(t)
  PROVE  IInv'
<1> USE ThreadsAssumption DEF IInv, TypeOK, Labels, Ops, States, Threads,
        Holds, HolderPc, StartingLabels, JoinLabels, WorkerOnly, RunLabels,
        InCallback
<1>1. CASE StartLock(t)
  <2> USE DEF StartLock, Goto, state, history, flags
  <2>1. TypeOK' /\ LockInv' /\ PhaseInv' /\ CallbackInv' /\ LifeInv' /\
        StopNotLost'
    BY <1>1, SMT DEF LockInv, PhaseInv, CallbackInv, LifeInv, StopNotLost
  <2>2. LabelInv' BY <1>1, SMT DEF LabelInv, PhaseInv
  <2> QED BY <2>1, <2>2
<1>2. CASE AlreadyActive(t)
  <2> USE DEF AlreadyActive, ReleaseAndReturn, Return, Home, Goto, state,
      history, flags
  <2>1. TypeOK' /\ LockInv' /\ LabelInv' /\ CallbackInv'
    BY <1>2, SMT DEF LockInv, LabelInv, CallbackInv
  <2>2. PhaseInv' BY <1>2, SMT DEF LockInv, LabelInv, PhaseInv
  <2>3. LifeInv' BY <1>2, SMT DEF LockInv, LifeInv
  <2>4. StopNotLost' BY <1>2, SMT DEF PhaseInv, StopNotLost
  <2> QED BY <2>1, <2>2, <2>3, <2>4
<1>3. CASE Claim(t)
  <2> USE DEF Claim, Goto, history
  <2>1. CallbackInv' /\ LifeInv' /\ StopNotLost'
    BY <1>3, SMT DEF CallbackInv, LifeInv, StopNotLost
  <2>2. Flags' BY <1>3, Zenon DEF Flags
  <2>3. TypeOK'
    BY <2>2, <1>3, SMT DEF Flags, PhaseInv, LockInv, CallbackInv, LifeInv
  <2>4. LockInv' BY <1>3, SMT DEF LockInv, LabelInv
  <2>5. LabelInv' BY <1>3, SMT DEF LabelInv, PhaseInv
  <2>6. PhaseInv' BY <1>3, SMT DEF LockInv, PhaseInv
  <2> QED BY <2>1, <2>2, <2>3, <2>4, <2>5, <2>6
<1>4. CASE PrepareFails(t)
  <2> USE DEF PrepareFails, ReleaseAndReturn, resetToIdle, Return,
      BroadcastBoth, resetStateLocked, Home, Goto, history
  <2>1. LockInv' /\ LabelInv' /\ StopNotLost'
    BY <1>4, SMT DEF LockInv, LabelInv, StopNotLost
  <2>2. Flags' BY <1>4, Zenon DEF Flags
  <2>3. TypeOK'
    BY <2>2, <1>4, SMT DEF Flags, PhaseInv, LockInv, CallbackInv, LifeInv
  <2>4. PhaseInv' BY <1>4, SMT DEF LockInv, PhaseInv
  <2>5. CallbackInv' BY <1>4, SMT DEF LockInv, PhaseInv, CallbackInv
  <2>6. LifeInv' BY <1>4, SMT DEF LockInv, LabelInv, PhaseInv, LifeInv
  <2> QED BY <2>1, <2>2, <2>3, <2>4, <2>5, <2>6
<1>5. CASE Prepared(t)
  <2> USE DEF Prepared, Goto, state, flags
  <2>1. LockInv' /\ LabelInv' /\ PhaseInv'
    BY <1>5, SMT DEF LockInv, LabelInv, PhaseInv
  <2>2. TypeOK' BY <1>5, SMT DEF LockInv, PhaseInv, LifeInv
  <2>3. CallbackInv' BY <1>5, SMT DEF LockInv, CallbackInv
  <2>4. LifeInv' BY <1>5, SMT DEF LockInv, PhaseInv, LifeInv
  <2>5. StopNotLost' BY <1>5, SMT DEF PhaseInv, StopNotLost
  <2> QED BY <2>1, <2>2, <2>3, <2>4, <2>5
<1>6. CASE CreateFails(t)
  <2> USE DEF CreateFails, Goto, resetToIdle, BroadcastBoth, resetStateLocked,
      history
  <2>1. LockInv' /\ LabelInv' /\ LifeInv' /\ StopNotLost'
    BY <1>6, SMT DEF LockInv, LabelInv, LifeInv, StopNotLost
  <2>2. Flags' BY <1>6, Zenon DEF Flags
  <2>3. TypeOK'
    BY <2>2, <1>6, SMT DEF Flags, PhaseInv, LockInv, CallbackInv, LifeInv
  <2>4. PhaseInv' BY <1>6, SMT DEF LockInv, PhaseInv
  <2>5. CallbackInv' BY <1>6, SMT DEF LockInv, PhaseInv, CallbackInv
  <2> QED BY <2>1, <2>2, <2>3, <2>4, <2>5
<1>7. CASE FailCleanup(t)
  <2> USE DEF FailCleanup, ReleaseAndReturn, onCleanup, Return, Home, Goto,
      state, flags
  <2>1. LockInv' /\ LabelInv' /\ StopNotLost'
    BY <1>7, SMT DEF LockInv, LabelInv, StopNotLost
  <2>2. TypeOK' BY <1>7, SMT DEF LockInv, PhaseInv, LifeInv
  <2>3. PhaseInv' BY <1>7, SMT DEF LockInv, PhaseInv
  <2>4. CallbackInv' BY <1>7, SMT DEF LockInv, PhaseInv, CallbackInv
  <2>5. LifeInv' BY <1>7, SMT DEF LockInv, PhaseInv, LifeInv
  <2> QED BY <2>1, <2>2, <2>3, <2>4, <2>5
<1>8. CASE Created(t)
  <2> USE DEF Created, state, history, flags
  <2>1. TypeOK' /\ LockInv' /\ LabelInv' /\ StopNotLost'
    BY <1>8, SMT DEF LockInv, LabelInv, StopNotLost
  <2>2. PhaseInv' BY <1>8, SMT DEF LockInv, PhaseInv
  <2>3. CallbackInv' BY <1>8, SMT DEF LockInv, PhaseInv, CallbackInv
  <2>4. LifeInv' BY <1>8, SMT DEF LockInv, LifeInv
  <2> QED BY <2>1, <2>2, <2>3, <2>4
<1>9. CASE AwaitReady(t)
  <2> USE DEF AwaitReady, flags, history
  <2> QED
    BY <1>9, SMT DEF LockInv, LabelInv, PhaseInv, CallbackInv, LifeInv,
       StopNotLost
<1>10. CASE ReleaseRunning(t)
  <2> USE DEF ReleaseRunning, ReleaseAndReturn, Return, Home, Goto, history
  <2>1. TypeOK' /\ LockInv' /\ LabelInv' /\ StopNotLost'
    BY <1>10, SMT DEF LockInv, LabelInv, StopNotLost
  <2>2. PhaseInv' BY <1>10, SMT DEF LockInv, PhaseInv
  <2>3. CallbackInv'
    BY <1>10, SMT DEF LockInv, LabelInv, PhaseInv, CallbackInv
  <2>4. LifeInv' BY <1>10, SMT DEF LockInv, PhaseInv, LifeInv
  <2> QED BY <2>1, <2>2, <2>3, <2>4
<1>11. CASE ReleaseStopping(t)
  <2> USE DEF ReleaseStopping, BeginStopping, Goto, BroadcastBoth
  <2>1. LabelInv' /\ StopNotLost' BY <1>11, SMT DEF LabelInv, StopNotLost
  <2>2. TypeOK'
    BY <1>11, SMT DEF LockInv, LabelInv, PhaseInv, CallbackInv, LifeInv
  <2>3. LockInv' BY <1>11, SMT DEF LockInv, LabelInv
  <2>4. PhaseInv' BY <1>11, SMT DEF LockInv, PhaseInv
  <2>5. CallbackInv' BY <1>11, SMT DEF LockInv, PhaseInv, CallbackInv
  <2>6. LifeInv' BY <1>11, SMT DEF PhaseInv, LifeInv
  <2> QED BY <2>1, <2>2, <2>3, <2>4, <2>5, <2>6
<1> QED BY <1>1, <1>2, <1>3, <1>4, <1>5, <1>6, <1>7, <1>8, <1>9, <1>10, <1>11
        DEF StartStep

\* requestStop(), and stop() up to joinLocked().
LEMMA StopStepPreservesIInv ==
  ASSUME IInv, NEW t \in Threads, StopStep(t)
  PROVE  IInv'
<1> USE ThreadsAssumption DEF IInv, TypeOK, Labels, Ops, States, Threads,
        Holds, HolderPc, StartingLabels, JoinLabels, WorkerOnly, RunLabels,
        InCallback
<1>1. CASE RequestIgnored(t)
  <2> USE DEF RequestIgnored, AfterRequest, Home, Goto, state, history, flags
  <2> QED
    BY <1>1, SMT DEF LockInv, LabelInv, PhaseInv, CallbackInv, LifeInv,
       StopNotLost
<1>2. CASE RequestRunning(t)
  <2> USE DEF RequestRunning, BeginStopping, Goto, BroadcastBoth
  <2>1. LabelInv' /\ PhaseInv' /\ StopNotLost'
    BY <1>2, SMT DEF LabelInv, PhaseInv, StopNotLost
  <2>2. TypeOK' BY <1>2, SMT DEF PhaseInv, CallbackInv
  <2>3. LockInv' BY <1>2, SMT DEF LockInv, LabelInv
  <2>4. CallbackInv' BY <1>2, SMT DEF PhaseInv, CallbackInv
  <2>5. LifeInv' BY <1>2, SMT DEF PhaseInv, LifeInv
  <2> QED BY <2>1, <2>2, <2>3, <2>4, <2>5
<1>3. CASE RequestNoted(t)
  <2> USE DEF RequestNoted, BroadcastBoth, AfterRequest, Home, Goto, history
  <2>1. TypeOK' /\ LockInv' /\ LabelInv' /\ CallbackInv' /\ LifeInv' /\
        StopNotLost'
    BY <1>3, SMT DEF LockInv, LabelInv, CallbackInv, LifeInv, StopNotLost
  <2>2. PhaseInv' BY <1>3, SMT DEF LabelInv, PhaseInv
  <2> QED BY <2>1, <2>2
<1>4. CASE Notified(t)
  <2> USE DEF Notified, ReleaseAndReturn, AfterRequest, CallbackDone, Return,
      Home, Goto, flags, history
  <2>1. TypeOK' /\ LockInv' /\ LabelInv' /\ CallbackInv' /\ StopNotLost'
    BY <1>4, SMT DEF LockInv, LabelInv, CallbackInv, StopNotLost
  <2>2. PhaseInv' BY <1>4, SMT DEF LockInv, LabelInv, PhaseInv
  <2>3. LifeInv' BY <1>4, SMT DEF LockInv, LifeInv
  <2> QED BY <2>1, <2>2, <2>3
<1>5. CASE StopSelf(t)
  <2> USE DEF StopSelf, IsCurrentThread, Goto, state, history, flags
  <2> QED
    BY <1>5, SMT DEF LockInv, LabelInv, PhaseInv, CallbackInv, LifeInv,
       StopNotLost
<1>6. CASE StopLock(t)
  <2> USE DEF StopLock, IsCurrentThread, Goto, state, history, flags
  <2>1. TypeOK' /\ PhaseInv' /\ CallbackInv' /\ LifeInv' /\ StopNotLost'
    BY <1>6, SMT DEF PhaseInv, CallbackInv, LifeInv, StopNotLost
  <2>2. LockInv' BY <1>6, SMT DEF LockInv, LabelInv
  <2>3. LabelInv' BY <1>6, SMT DEF LockInv, LabelInv, PhaseInv
  <2> QED BY <2>1, <2>2, <2>3
<1>7. CASE StopJoin(t)
  <2> USE DEF StopJoin, Goto, ReleaseAndReturn, Return, Home, state, history,
      flags
  <2>1. TypeOK' /\ LockInv' /\ LabelInv' /\ PhaseInv' /\ CallbackInv' /\
        StopNotLost'
    BY <1>7, SMT DEF LockInv, LabelInv, PhaseInv, CallbackInv, StopNotLost
  <2>2. LifeInv' BY <1>7, SMT DEF LockInv, LifeInv
  <2> QED BY <2>1, <2>2
<1> QED BY <1>1, <1>2, <1>3, <1>4, <1>5, <1>6, <1>7 DEF StopStep

\* join() and joinLocked().
LEMMA JoinStepPreservesIInv ==
  ASSUME IInv, NEW t \in Threads, JoinStep(t)
  PROVE  IInv'
<1> USE ThreadsAssumption DEF IInv, TypeOK, Labels, Ops, States, Threads,
        Holds, HolderPc, StartingLabels, JoinLabels, WorkerOnly, RunLabels,
        InCallback
<1>1. CASE JoinSelf(t)
  <2> USE DEF JoinSelf, IsCurrentThread, Return, Home, Goto, state, history,
      flags
  <2> QED
    BY <1>1, SMT DEF LockInv, LabelInv, PhaseInv, CallbackInv, LifeInv,
       StopNotLost
<1>2. CASE JoinLock(t)
  <2> USE DEF JoinLock, IsCurrentThread, Goto, Return, Home, state, history,
      flags
  <2>1. TypeOK' /\ LockInv' /\ PhaseInv' /\ CallbackInv' /\ LifeInv' /\
        StopNotLost'
    BY <1>2, SMT DEF LockInv, PhaseInv, CallbackInv, LifeInv, StopNotLost
  <2>2. LabelInv' BY <1>2, SMT DEF LabelInv, PhaseInv
  <2> QED BY <2>1, <2>2
<1>3. CASE JoinId(t)
  <2> USE DEF JoinId, Goto, JoinReturn, ReleaseAndReturn, Return, Home, state,
      history, flags
  <2>1. TypeOK' /\ LockInv' /\ LabelInv' /\ CallbackInv' /\ StopNotLost'
    BY <1>3, SMT DEF LockInv, LabelInv, CallbackInv, StopNotLost
  <2>2. PhaseInv' BY <1>3, SMT DEF LockInv, PhaseInv
  <2>3. LifeInv' BY <1>3, SMT DEF LockInv, LifeInv
  <2> QED BY <2>1, <2>2, <2>3
<1>4. CASE JoinThread(t)
  <2> USE DEF JoinThread, state, history, flags
  <2>1. TypeOK' /\ LockInv' /\ LabelInv' /\ CallbackInv' /\ StopNotLost'
    BY <1>4, SMT DEF LockInv, LabelInv, CallbackInv, StopNotLost
  <2>2. PhaseInv' BY <1>4, SMT DEF LockInv, PhaseInv
  <2>3. LifeInv' BY <1>4, SMT DEF LockInv, LifeInv
  <2> QED BY <2>1, <2>2, <2>3
<1>5. CASE DrainWait(t)
  <2> USE DEF DrainWait, state, history, flags
  <2>1. TypeOK' /\ LockInv' /\ StopNotLost'
    BY <1>5, SMT DEF LockInv, StopNotLost
  <2>2. LabelInv' BY <1>5, SMT DEF LockInv, LabelInv
  <2>3. PhaseInv' BY <1>5, SMT DEF LockInv, PhaseInv
  <2>4. CallbackInv' BY <1>5, SMT DEF LockInv, CallbackInv
  <2>5. LifeInv' BY <1>5, SMT DEF LockInv, LifeInv
  <2> QED BY <2>1, <2>2, <2>3, <2>4, <2>5
<1>6. CASE Drained(t)
  <2> USE DEF Drained, Goto, flags, history
  <2>1. LockInv' /\ LabelInv' /\ CallbackInv' /\ StopNotLost'
    BY <1>6, SMT DEF LockInv, LabelInv, CallbackInv, StopNotLost
  <2>2. Flags' BY <1>6, Zenon DEF Flags
  <2>3. TypeOK'
    BY <2>2, <1>6, SMT DEF Flags, PhaseInv, LockInv, CallbackInv, LifeInv
  <2>4. PhaseInv' BY <1>6, SMT DEF LockInv, LabelInv, PhaseInv
  <2>5. LifeInv' BY <1>6, SMT DEF PhaseInv, LifeInv
  <2> QED BY <2>1, <2>2, <2>3, <2>4, <2>5
<1>7. CASE Cleanup(t)
  <2> USE DEF Cleanup, Goto, onCleanup, state, flags
  <2>1. LockInv' /\ LabelInv' /\ PhaseInv' /\ StopNotLost'
    BY <1>7, SMT DEF LockInv, LabelInv, PhaseInv, StopNotLost
  <2>2. TypeOK' BY <1>7, SMT DEF LockInv, PhaseInv, LifeInv
  <2>3. CallbackInv' BY <1>7, SMT DEF LockInv, PhaseInv, CallbackInv
  <2>4. LifeInv' BY <1>7, SMT DEF LockInv, PhaseInv, LifeInv
  <2> QED BY <2>1, <2>2, <2>3, <2>4
<1>8. CASE Reset(t)
  <2> USE DEF Reset, resetToIdle, JoinReturn, BroadcastBoth, resetStateLocked,
      Goto, ReleaseAndReturn, Return, Home, history
  <2>1. LockInv' /\ LabelInv' /\ StopNotLost'
    BY <1>8, SMT DEF LockInv, LabelInv, StopNotLost
  <2>2. Flags' BY <1>8, Zenon DEF Flags
  <2>3. TypeOK'
    BY <2>2, <1>8, SMT DEF Flags, PhaseInv, LockInv, CallbackInv, LifeInv
  <2>4. PhaseInv' BY <1>8, SMT DEF LockInv, PhaseInv
  <2>5. CallbackInv' BY <1>8, SMT DEF LockInv, PhaseInv, CallbackInv, LifeInv
  <2>6. LifeInv' BY <1>8, SMT DEF LockInv, PhaseInv, LifeInv
  <2> QED BY <2>1, <2>2, <2>3, <2>4, <2>5, <2>6
<1> QED BY <1>1, <1>2, <1>3, <1>4, <1>5, <1>6, <1>7, <1>8 DEF JoinStep

\* taskEntry() and the loop of run().
LEMMA RunStepPreservesIInv ==
  ASSUME IInv, RunStep
  PROVE  IInv'
<1> USE ThreadsAssumption DEF IInv, TypeOK, Labels, Ops, States, Threads,
        Holds, HolderPc, StartingLabels, JoinLabels, WorkerOnly, RunLabels,
        InCallback
<1>1. CASE TaskEntry
  <2> USE DEF TaskEntry, Goto, history
  <2> QED
    BY <1>1, SMT DEF LockInv, LabelInv, PhaseInv, CallbackInv, LifeInv,
       StopNotLost
<1>2. CASE HeldAgain
  <2> USE DEF HeldAgain, state, history, flags
  <2> QED
    BY <1>2, SMT DEF LockInv, LabelInv, PhaseInv, CallbackInv, LifeInv,
       StopNotLost
<1>3. CASE Released
  <2> USE DEF Released, Goto, state, history, flags
  <2> QED
    BY <1>3, SMT DEF LockInv, LabelInv, PhaseInv, CallbackInv, LifeInv,
       StopNotLost
<1>4. CASE LoopTest
  <2> USE DEF LoopTest, shouldRun, Goto, state, history, flags
  <2> QED
    BY <1>4, SMT DEF LockInv, LabelInv, PhaseInv, CallbackInv, LifeInv,
       StopNotLost
<1>5. CASE BodyEnds
  <2> USE DEF BodyEnds, Goto, state, history, flags
  <2> QED
    BY <1>5, SMT DEF LockInv, LabelInv, PhaseInv, CallbackInv, LifeInv,
       StopNotLost
<1>6. CASE SleepWoken
  <2> USE DEF SleepWoken, SleepEnds, Woken, Goto, history
  <2>1. LockInv' /\ LabelInv' /\ PhaseInv' /\ CallbackInv' /\ LifeInv' /\
        StopNotLost'
    BY <1>6, SMT DEF LockInv, LabelInv, PhaseInv, CallbackInv, LifeInv,
       StopNotLost
  <2>2. Flags' BY <1>6, Zenon DEF Flags
  <2>3. TypeOK' BY <2>2, <1>6, SMT DEF Flags
  <2> QED BY <2>1, <2>2, <2>3
<1>7. CASE Exit
  <2> USE DEF Exit, Goto, BroadcastBoth, flags, history
  <2> QED
    BY <1>7, SMT DEF LockInv, LabelInv, PhaseInv, CallbackInv, LifeInv,
       StopNotLost
<1> QED BY <1>1, <1>2, <1>3, <1>4, <1>5, <1>6, <1>7 DEF RunStep

\* What run() may do besides.
LEMMA RunChoicePreservesIInv ==
  ASSUME IInv, RunChoice
  PROVE  IInv'
<1> USE ThreadsAssumption DEF IInv, TypeOK, Labels, Ops, States, Threads,
        Holds, HolderPc, StartingLabels, JoinLabels, WorkerOnly, RunLabels,
        InCallback
<1>1. CASE RunReturns
  <2> USE DEF RunReturns, Goto, state, history, flags
  <2> QED
    BY <1>1, SMT DEF LockInv, LabelInv, PhaseInv, CallbackInv, LifeInv,
       StopNotLost
<1>2. CASE Sleep
  <2> USE DEF Sleep, IsCurrentThread, Goto, Woken, state, history, flags
  <2> QED
    BY <1>2, SMT DEF LockInv, LabelInv, PhaseInv, CallbackInv, LifeInv,
       StopNotLost
<1>3. CASE SleepTimesOut
  <2> USE DEF SleepTimesOut, SleepEnds, Goto, history
  <2>1. LockInv' /\ LabelInv' /\ PhaseInv' /\ CallbackInv' /\ LifeInv' /\
        StopNotLost'
    BY <1>3, SMT DEF LockInv, LabelInv, PhaseInv, CallbackInv, LifeInv,
       StopNotLost
  <2>2. Flags' BY <1>3, Zenon DEF Flags
  <2>3. TypeOK' BY <2>2, <1>3, SMT DEF Flags
  <2> QED BY <2>1, <2>2, <2>3
<1>4. ASSUME NEW o \in Ops, RunInvokes(o) PROVE IInv'
  <2> USE DEF RunInvokes, Goto, state, history, flags
  <2> QED
    BY <1>4, SMT DEF LockInv, LabelInv, PhaseInv, CallbackInv, LifeInv,
       StopNotLost
<1> QED BY <1>1, <1>2, <1>3, <1>4 DEF RunChoice

\* A caller begins an operation.
LEMMA InvokePreservesIInv ==
  ASSUME IInv, NEW t \in Callers, NEW o \in Ops, Invoke(t, o)
  PROVE  IInv'
<1> USE ThreadsAssumption DEF IInv, TypeOK, Labels, Ops, States, Threads,
        Holds, HolderPc, StartingLabels, JoinLabels, WorkerOnly, RunLabels,
        InCallback
<1>1. CASE Invoke(t, o)
  <2> USE DEF Invoke, Goto, state, history, flags
  <2> QED
    BY <1>1, SMT DEF LockInv, LabelInv, PhaseInv, CallbackInv, LifeInv,
       StopNotLost
<1> QED BY <1>1

\* A thread leaves a condition variable without a signal.
LEMMA SpuriousWakeupPreservesIInv ==
  ASSUME IInv, NEW t \in Threads, SpuriousWakeup(t)
  PROVE  IInv'
<1> USE ThreadsAssumption DEF IInv, TypeOK, Labels, Ops, States, Threads,
        Holds, HolderPc, StartingLabels, JoinLabels, WorkerOnly, RunLabels,
        InCallback
<1>1. CASE SpuriousWakeup(t)
  <2> USE DEF SpuriousWakeup, state, history, flags
  <2> QED
    BY <1>1, SMT DEF LockInv, LabelInv, PhaseInv, CallbackInv, LifeInv,
       StopNotLost
<1> QED BY <1>1

\* No thread takes a step.
LEMMA StutterPreservesIInv ==
  ASSUME IInv, UNCHANGED vars
  PROVE  IInv'
<1> USE DEF IInv, vars, state, flags, history, Holds, HolderPc, InCallback
<1>1. TypeOK' /\ LockInv' /\ LabelInv'
  BY SMT DEF TypeOK, LockInv, LabelInv
<1>2. PhaseInv' /\ CallbackInv' /\ LifeInv' /\ StopNotLost'
  BY SMT DEF PhaseInv, CallbackInv, LifeInv, StopNotLost
<1> QED BY <1>1, <1>2

-------------------------------------------------------------------------------

\* IInv holds in every state: the relation between the state, the lock, the
\* callbacks and where each thread is, which no operation breaks.
THEOREM Inductive == Spec => []IInv
<1>1. IInv /\ [Next]_vars => IInv'
  <2> SUFFICES ASSUME IInv, [Next]_vars PROVE IInv'
    OBVIOUS
  <2>1. ASSUME NEW t \in Threads, CallStep(t) PROVE IInv'
    BY <2>1, StartStepPreservesIInv, StopStepPreservesIInv,
       JoinStepPreservesIInv DEF CallStep
  <2>2. ASSUME NEW t \in Threads, SpuriousWakeup(t) PROVE IInv'
    BY <2>2, SpuriousWakeupPreservesIInv
  <2>3. ASSUME NEW t \in Callers, NEW o \in Ops, Invoke(t, o) PROVE IInv'
    BY <2>3, InvokePreservesIInv
  <2>4. CASE RunStep
    BY <2>4, RunStepPreservesIInv
  <2>5. CASE RunChoice
    BY <2>5, RunChoicePreservesIInv
  <2>6. CASE UNCHANGED vars
    BY <2>6, StutterPreservesIInv
  <2> QED BY <2>1, <2>2, <2>3, <2>4, <2>5, <2>6 DEF Next
<1> QED BY InitEstablishesIInv, <1>1, PTL DEF Spec

\* The fields, locks, wait sets and program counters always have their types;
\* in particular there is at most one open life and one callback in progress.
THEOREM TypeCorrect == Spec => []TypeOK
BY Inductive, PTL DEF IInv

\* A stop request accepted while the thread was starting is never forgotten
\* when start() completes.
THEOREM StopRequestKept == Spec => []StopNotLost
BY Inductive, PTL DEF IInv

\* joinLocked() is only ever reached with a started thread that nobody has
\* joined: no double pthread_join(), no "incomplete start".
THEOREM JoinSound == Spec => []JoinIsSound
<1>1. IInv => JoinIsSound
  BY ThreadsAssumption, SMT
     DEF IInv, LockInv, PhaseInv, JoinIsSound, TypeOK, States, Threads, Holds,
         HolderPc, JoinLabels, StartingLabels, RunLabels, Ops
<1> QED BY Inductive, <1>1, PTL

\* Nothing of an earlier life is left when the object is Idle again.
THEOREM IdleQuiescent == Spec => []IdleIsQuiescent
<1>1. IInv => IdleIsQuiescent
  BY SMT DEF IInv, PhaseInv, CallbackInv, LifeInv, IdleIsQuiescent, InCallback,
             HolderPc
<1> QED BY Inductive, <1>1, PTL

-------------------------------------------------------------------------------
(* No lost wakeup *)

\* Where the worker thread is while the owner of the lock makes or reaps it.
LEMMA WorkerPhase ==
  ASSUME IInv, NEW t \in Threads
  PROVE  /\ pc[t] \in {"prepare", "create", "reset"} => pc[Worker] = "none" /\ t # Worker
         /\ pc[t] = "await_ready" => pc[Worker] \in {"entry", "held"} /\ ~mStartReleased
         /\ pc[Worker] \in {"entry", "held"} /\ ~mStartReleased
              => HolderPc = "await_ready" /\ mState = "Starting" /\ lifecycle # Worker
         /\ pc[Worker] = "entry" => ~mStartReleased
<1> USE ThreadsAssumption DEF IInv, TypeOK, Threads, States, StartingLabels, JoinLabels
<1>1. pc[t] \in StartingLabels \cup {"reset"} => HolderPc = pc[t]
  BY SMT DEF LockInv, Holds, HolderPc
<1>2. pc[t] \in {"prepare", "create", "reset"} => t # Worker
  BY SMT DEF LabelInv, RunLabels, WorkerOnly, Ops
<1>3. pc[t] \in {"prepare", "create", "await_ready"} => mState = "Starting"
  BY <1>1, SMT DEF PhaseInv
<1>4. pc[t] = "reset" => pc[Worker] = "none"
  BY <1>1, SMT DEF PhaseInv
<1>5. pc[Worker] \in {"entry", "held"} /\ ~mStartReleased => mState = "Starting"
  BY SMT DEF PhaseInv, RunLabels, Ops
<1>6. mState = "Starting" => HolderPc \in StartingLabels /\ ~mStartReleased
        /\ (pc[Worker] = "none" <=> HolderPc # "await_ready")
        /\ pc[Worker] \in {"none", "entry", "held"}
  BY Zenon DEF PhaseInv
<1>7. HolderPc = "await_ready" => lifecycle # Worker
  BY SMT DEF HolderPc, LabelInv, RunLabels, WorkerOnly, Ops
<1>8. pc[Worker] = "entry" => mState = "Starting"
  BY SMT DEF PhaseInv, RunLabels, Ops
<1> QED BY <1>1, <1>2, <1>3, <1>4, <1>5, <1>6, <1>7, <1>8

\* start(), from the acquisition of mLifecycleLock to its release.
LEMMA StartStepServes ==
  ASSUME IInv, WaitInv, NEW t \in Threads, StartStep(t)
  PROVE  WaitInv'
<1> USE ThreadsAssumption DEF IInv, TypeOK, Threads, WaitInv, WaitersAreServed, Woken,
        InCallback, HolderPc, state, flags, history, LockInv, LabelInv, PhaseInv,
        CallbackInv, Holds, JoinLabels, StartingLabels, WorkerOnly, RunLabels, Ops
<1>1. CASE StartLock(t)
  BY <1>1, SMT DEF StartLock, Goto
<1>2. CASE AlreadyActive(t)
  BY <1>2, SMT DEF AlreadyActive, ReleaseAndReturn, Return, Home, Goto
<1>3. CASE Claim(t)
  BY <1>3, SMT DEF Claim, Goto
<1>4. CASE PrepareFails(t)
  <2>1. stateCv' = {} /\ sleepCv' = {} /\ pc' = [pc EXCEPT ![t] = Home(t)]
    BY <1>4, SMT DEF PrepareFails, resetToIdle, BroadcastBoth, ReleaseAndReturn, Return, Goto
  <2>2. pc[Worker] = "none" /\ t # Worker
    BY <1>4, WorkerPhase, Zenon DEF PrepareFails
  <2> QED BY <2>1, <2>2, SMT
<1>5. CASE Prepared(t)
  BY <1>5, SMT DEF Prepared, Goto
<1>6. CASE CreateFails(t)
  <2>1. stateCv' = {} /\ sleepCv' = {} /\ pc' = [pc EXCEPT ![t] = "fail_cleanup"]
    BY <1>6, SMT DEF CreateFails, resetToIdle, BroadcastBoth, Goto
  <2>2. pc[Worker] = "none" /\ t # Worker
    BY <1>6, WorkerPhase, Zenon DEF CreateFails
  <2> QED BY <2>1, <2>2, SMT
<1>7. CASE FailCleanup(t)
  BY <1>7, SMT DEF FailCleanup, ReleaseAndReturn, Return, Home, Goto
<1>8. CASE Created(t)
  BY <1>8, SMT DEF Created
<1>9. CASE AwaitReady(t)
  <2>1. pc[Worker] = "entry"
    <3>1. pc[t] = "await_ready" /\ ~mThreadReady
      BY <1>9, Zenon DEF AwaitReady
    <3> QED BY <3>1, WorkerPhase
  <2>2. /\ stateCv' = stateCv \cup {t} /\ pc[t] = "await_ready" /\ ~mThreadReady
        /\ UNCHANGED <<mState, flags, lifecycle, sleepCv, pc>>
    BY <1>9, Zenon DEF AwaitReady, flags
  <2> QED BY <2>1, <2>2, SMT
<1>10. CASE ReleaseRunning(t)
  BY <1>10, SMT DEF ReleaseRunning, ReleaseAndReturn, Return, Home, Goto
<1>11. CASE ReleaseStopping(t)
  BY <1>11, SMT DEF ReleaseStopping, BeginStopping, Goto, BroadcastBoth
<1> QED BY <1>1, <1>2, <1>3, <1>4, <1>5, <1>6, <1>7, <1>8, <1>9, <1>10, <1>11 DEF StartStep

\* requestStop(), and stop() up to joinLocked().
LEMMA StopStepServes ==
  ASSUME IInv, WaitInv, NEW t \in Threads, StopStep(t)
  PROVE  WaitInv'
<1> USE ThreadsAssumption DEF IInv, TypeOK, Threads, WaitInv, WaitersAreServed, Woken,
        InCallback, HolderPc, state, flags, history, LockInv, LabelInv, PhaseInv,
        CallbackInv, Holds, JoinLabels, StartingLabels, WorkerOnly, RunLabels, Ops
<1>1. CASE RequestIgnored(t)
  BY <1>1, SMT DEF RequestIgnored, AfterRequest, Home, Goto
<1>2. CASE RequestRunning(t)
  BY <1>2, SMT DEF RequestRunning, BeginStopping, Goto, BroadcastBoth
<1>3. CASE RequestNoted(t)
  BY <1>3, SMT DEF RequestNoted, BroadcastBoth, AfterRequest, Home, Goto
<1>4. CASE Notified(t)
  BY <1>4, SMT DEF Notified, ReleaseAndReturn, AfterRequest, CallbackDone, Return, Home, Goto
<1>5. CASE StopSelf(t)
  BY <1>5, SMT DEF StopSelf, Goto
<1>6. CASE StopLock(t)
  BY <1>6, SMT DEF StopLock, Goto
<1>7. CASE StopJoin(t)
  BY <1>7, SMT DEF StopJoin, Goto, ReleaseAndReturn, Return, Home
<1> QED BY <1>1, <1>2, <1>3, <1>4, <1>5, <1>6, <1>7 DEF StopStep

\* join() and joinLocked().
LEMMA JoinStepServes ==
  ASSUME IInv, WaitInv, NEW t \in Threads, JoinStep(t)
  PROVE  WaitInv'
<1> USE ThreadsAssumption DEF IInv, TypeOK, Threads, WaitInv, WaitersAreServed, Woken,
        InCallback, HolderPc, state, flags, history, LockInv, LabelInv, PhaseInv,
        CallbackInv, Holds, JoinLabels, StartingLabels, WorkerOnly, RunLabels, Ops
<1>1. CASE JoinSelf(t)
  BY <1>1, SMT DEF JoinSelf, Return, Home, Goto
<1>2. CASE JoinLock(t)
  BY <1>2, SMT DEF JoinLock, Goto, Return, Home
<1>3. CASE JoinId(t)
  BY <1>3, SMT DEF JoinId, Goto, JoinReturn, ReleaseAndReturn, Return, Home
<1>4. CASE JoinThread(t)
  BY <1>4, SMT DEF JoinThread
<1>5. CASE DrainWait(t)
  BY <1>5, SMT DEF DrainWait
<1>6. CASE Drained(t)
  BY <1>6, SMT DEF Drained, Goto
<1>7. CASE Cleanup(t)
  BY <1>7, SMT DEF Cleanup, Goto, onCleanup
<1>8. CASE Reset(t)
  <2>1. /\ stateCv' = {} /\ sleepCv' = {}
        /\ pc' = [pc EXCEPT ![t] = IF op[t] = "start" THEN "claim" ELSE Home(t)]
    BY <1>8, SMT DEF Reset, resetToIdle, BroadcastBoth, JoinReturn, ReleaseAndReturn, Return,
       Goto
  <2>2. pc[Worker] = "none" /\ t # Worker
    BY <1>8, WorkerPhase, Zenon DEF Reset
  <2> QED BY <2>1, <2>2, SMT
<1> QED BY <1>1, <1>2, <1>3, <1>4, <1>5, <1>6, <1>7, <1>8 DEF JoinStep

\* taskEntry() and the loop of run().
LEMMA RunStepServes ==
  ASSUME IInv, WaitInv, RunStep
  PROVE  WaitInv'
<1> USE ThreadsAssumption DEF IInv, TypeOK, Threads, WaitInv, WaitersAreServed, Woken,
        InCallback, HolderPc, state, flags, history, Goto,
        LockInv, LabelInv, PhaseInv, CallbackInv, Holds, JoinLabels, StartingLabels,
        WorkerOnly, RunLabels, Ops
<1>1. CASE TaskEntry
  <2>1. /\ stateCv' = IF mStartReleased THEN {} ELSE {Worker}
        /\ pc' = [pc EXCEPT ![Worker] = "held"] /\ mThreadReady'
        /\ UNCHANGED <<mState, mStartReleased, mWakeupRequested, lifecycle, sleepCv>>
    BY <1>1, Zenon DEF TaskEntry
  <2>2. Worker \notin sleepCv /\ HolderPc = "await_ready" /\ lifecycle # Worker
    <3>1. pc[Worker] = "entry"
      BY <1>1, Zenon DEF TaskEntry
    <3>2. ~mStartReleased
      BY <3>1, WorkerPhase, Zenon
    <3> QED BY <3>1, <3>2, WorkerPhase
  <2> QED BY <2>1, <2>2, SMT
<1>2. CASE HeldAgain
  <2>1. /\ pc[Worker] = "held" /\ ~mStartReleased /\ stateCv' = stateCv \cup {Worker}
        /\ UNCHANGED <<mState, flags, lifecycle, sleepCv, pc>>
    BY <1>2, Zenon DEF HeldAgain
  <2>2. HolderPc = "await_ready"
    BY <2>1, WorkerPhase
  <2> QED BY <2>1, <2>2, SMT
<1>3. CASE Released
  BY <1>3, SMT DEF Released
<1>4. CASE LoopTest
  BY <1>4, SMT DEF LoopTest, shouldRun
<1>5. CASE BodyEnds
  BY <1>5, SMT DEF BodyEnds
<1>6. CASE SleepWoken
  <2>1. /\ Worker \notin sleepCv /\ pc[Worker] = "sleep"
        /\ pc' = [pc EXCEPT ![Worker] = "loop"]
        /\ UNCHANGED <<mThreadReady, mStartReleased, lifecycle, stateCv, sleepCv>>
    BY <1>6, Zenon DEF SleepWoken, SleepEnds
  <2> QED BY <2>1, SMT
<1>7. CASE Exit
  BY <1>7, SMT DEF Exit, BroadcastBoth
<1> QED BY <1>1, <1>2, <1>3, <1>4, <1>5, <1>6, <1>7 DEF RunStep

\* What run() may do besides.
LEMMA RunChoiceServes ==
  ASSUME IInv, WaitInv, RunChoice
  PROVE  WaitInv'
<1> USE ThreadsAssumption DEF IInv, TypeOK, Threads, WaitInv, WaitersAreServed, Woken,
        InCallback, HolderPc, state, flags, history, Goto,
        LockInv, LabelInv, PhaseInv, CallbackInv, Holds, JoinLabels, StartingLabels,
        WorkerOnly, RunLabels, Ops
<1>1. CASE RunReturns
  BY <1>1, SMT DEF RunReturns
<1>2. CASE Sleep
  BY <1>2, SMT DEF Sleep, IsCurrentThread
<1>3. CASE SleepTimesOut
  <2>1. /\ pc[Worker] = "sleep" /\ sleepCv' = sleepCv \ {Worker}
        /\ pc' = [pc EXCEPT ![Worker] = "loop"]
        /\ UNCHANGED <<mThreadReady, mStartReleased, lifecycle, stateCv>>
    BY <1>3, Zenon DEF SleepTimesOut, SleepEnds
  <2> QED BY <2>1, SMT
<1>4. ASSUME NEW o \in Ops, RunInvokes(o) PROVE WaitInv'
  BY <1>4, SMT DEF RunInvokes
<1> QED BY <1>1, <1>2, <1>3, <1>4 DEF RunChoice

\* A condition variable is only ever waited on for something that is still to
\* come and that somebody else is on the way to do: msleep() for the next
\* request, start() for taskEntry(), taskEntry() for start(), and joinLocked()
\* for a callback that another thread is inside.
THEOREM NoWakeupLost == Spec => []WaitersAreServed
<1>1. Init => WaitInv
  BY ThreadsAssumption, SMT DEF Init, WaitInv, WaitersAreServed, Threads
<1>2. IInv /\ WaitInv /\ [Next]_vars => WaitInv'
  <2> SUFFICES ASSUME IInv, WaitInv, [Next]_vars PROVE WaitInv'
    OBVIOUS
  <2>1. ASSUME NEW t \in Threads, CallStep(t) PROVE WaitInv'
    BY <2>1, StartStepServes, StopStepServes, JoinStepServes DEF CallStep
  <2>2. ASSUME NEW t \in Threads, SpuriousWakeup(t) PROVE WaitInv'
    BY <2>2, SMT DEF SpuriousWakeup, WaitInv, WaitersAreServed, Woken, InCallback,
       HolderPc, state, flags
  <2>3. ASSUME NEW t \in Callers, NEW o \in Ops, Invoke(t, o) PROVE WaitInv'
    BY <2>3, ThreadsAssumption, SMT
    DEF Invoke, Goto, IInv, TypeOK, Threads, LockInv, Holds, WaitInv, WaitersAreServed,
        Woken, InCallback, HolderPc, StartingLabels, JoinLabels, Ops, state, flags
  <2>4. CASE RunStep
    BY <2>4, RunStepServes
  <2>5. CASE RunChoice
    BY <2>5, RunChoiceServes
  <2>6. CASE UNCHANGED vars
    BY <2>6, SMT DEF vars, WaitInv, WaitersAreServed, Woken, InCallback, HolderPc,
       state, flags
  <2> QED BY <2>1, <2>2, <2>3, <2>4, <2>5, <2>6 DEF Next
<1>3. WaitInv => WaitersAreServed
  BY DEF WaitInv
<1> QED BY Inductive, <1>1, <1>2, <1>3, PTL DEF Spec

-------------------------------------------------------------------------------

\* A stop() from outside gives the lock back, and so returns, only with the
\* thread joined, onCleanup() done and the object Idle.
THEOREM StopCompletes == Spec => StopLeavesIdle
<1> DEFINE Left == mState' = "Idle" /\ pc'[Worker] = "none" /\ openLives' = 0
<1>1. ASSUME IInv, IInv', [Next]_vars, NEW t \in Callers,
             op[t] = "stop", lifecycle = t, lifecycle' # t
      PROVE  Left
  <2> USE <1>1, ThreadsAssumption DEF IInv, TypeOK, Threads
  <2>1. t \in Threads /\ t # NoThread /\ HolderPc = pc[t]
    BY SMT DEF HolderPc
  <2>2. \A u \in Threads : Holds(u) => u = t
    BY SMT DEF LockInv
  <2>3. pc[t] \notin {"claim", "fail_cleanup"} \cup StartingLabels
    BY <2>1, SMT DEF LabelInv
  <2>4. ASSUME NEW u \in Threads PROVE ~StartStep(u)
    <3> SUFFICES ASSUME StartStep(u) PROVE FALSE
      OBVIOUS
    <3>1. u = t \/ pc[u] \notin {"claim", "fail_cleanup"} \cup StartingLabels
      BY <2>2 DEF Holds
    <3>2. lifecycle' # lifecycle /\ lifecycle # NoThread
      BY <2>1
    <3> QED
      BY <2>3, <3>1, <3>2, SMT
         DEF StartStep, StartLock, AlreadyActive, Claim, PrepareFails, Prepared,
             CreateFails, FailCleanup, Created, AwaitReady, ReleaseRunning,
             ReleaseStopping, StartingLabels
  <2>5. ASSUME NEW u \in Threads, StopStep(u) PROVE Left
    <3>1. lifecycle' # lifecycle /\ lifecycle # NoThread
      BY <2>1
    <3>2. ~Notified(u)
      <4>1. Notified(u) => op[u] = "start" /\ pc[u] = "notify"
        BY <3>1, SMT DEF Notified
      <4> QED
        BY <4>1, <2>2 DEF Holds
    <3>3. StopJoin(u)
      BY <2>5, <3>1, <3>2, SMT
         DEF StopStep, RequestIgnored, RequestRunning, RequestNoted, StopSelf,
             StopLock
    <3>4. u = t /\ mState = "Idle" /\ pc[t] = "stop_join"
      BY <3>1, <3>3, <2>2, SMT DEF StopJoin, Holds
    <3>5. pc[Worker] = "none" /\ openLives = 0
      BY <3>4, <2>1, SMT DEF PhaseInv, LifeInv
    <3> QED
      BY <3>3, <3>4, <3>5, SMT
         DEF StopJoin, ReleaseAndReturn, Return, Home, Goto, state, history
  <2>6. ASSUME NEW u \in Threads, JoinStep(u) PROVE Left
    <3>1. lifecycle' # lifecycle /\ lifecycle # NoThread
      BY <2>1
    <3>2. JoinId(u) \/ Reset(u)
      BY <2>6, <3>1, SMT
         DEF JoinStep, JoinSelf, JoinLock, JoinThread, DrainWait, Drained,
             Cleanup
    <3>3. u = t
      BY <3>2, <2>2, SMT DEF JoinId, Reset, Holds, JoinLabels
    <3>4. ~JoinId(t)
      <4> SUFFICES ASSUME JoinId(t) PROVE FALSE
        OBVIOUS
      <4>1. mState \in {"Idle", "Starting"} /\ pc[t] = "join_id"
        BY <3>1, SMT DEF JoinId
      <4> QED
        BY <4>1, <2>1, SMT DEF PhaseInv, JoinLabels, StartingLabels
    <3>5. Reset(t) /\ pc'[t] = "idle"
      BY <3>2, <3>3, <3>4, <2>1, SMT
         DEF Reset, JoinReturn, ReleaseAndReturn, Return, Goto, Home
    <3>6. pc[t] = "reset" /\ mState # "Idle"
      BY <3>5, <2>1, SMT DEF Reset, PhaseInv, JoinLabels
    <3>7. pc[Worker] = "none" /\ openLives = 0
      BY <3>6, <2>1, SMT DEF PhaseInv, LifeInv, States, StartingLabels
    <3> QED
      BY <3>5, <3>7, SMT DEF Reset, resetToIdle, resetStateLocked, history,
         JoinReturn, ReleaseAndReturn, Return, Goto, Home
  <2>7. \E u \in Threads : CallStep(u)
    BY <2>1, SMT
       DEF Next, SpuriousWakeup, Invoke, RunStep, RunChoice, TaskEntry,
           HeldAgain, Released, LoopTest, BodyEnds, SleepWoken, Exit,
           RunReturns, Sleep, SleepTimesOut, SleepEnds, RunInvokes, vars
  <2> QED
    BY <2>4, <2>5, <2>6, <2>7 DEF CallStep
<1>2. IInv /\ IInv' /\ [Next]_vars
        => [\A t \in Callers :
              op[t] = "stop" /\ lifecycle = t /\ lifecycle' # t => Left]_vars
  BY <1>1
<1> QED
  BY <1>2, Inductive, PTL DEF Spec, StopLeavesIdle

-------------------------------------------------------------------------------
(* WorkerThread implements WorkerContract: from a state of IInv, every step  *)
(* enters or leaves at most one callback, and one that the contract allows   *)
(* there.                                                                    *)

\* At the start no life is open and no callback is in progress.
LEMMA InitRefines == Init => Contract!Init
<1> SUFFICES ASSUME Init PROVE Contract!Init
  OBVIOUS
<1>1. \A t \in Threads : pc[t] = "none" \/ pc[t] = "idle"
  BY SMT DEF Init
<1>2. pc[Worker] = "none"
  BY SMT DEF Init, Threads
<1>3. \A t \in Threads : ~InCallback(t) /\ pc[t] \notin {"drain", "cleanup"}
  BY <1>1, SMT DEF InCallback
<1> QED
  BY <1>2, <1>3, SMT DEF Init, Contract!Init, Body

\* start() opens a life, or calls onCleanup() or onStopRequested() itself.
LEMMA StartStepRefines ==
  ASSUME IInv, IInv', NEW t \in Threads, StartStep(t)
  PROVE  [Contract!Next]_(Contract!vars)
<1> USE ThreadsAssumption DEF IInv, TypeOK, Labels, Ops, States, Threads,
        Holds, HolderPc, StartingLabels, JoinLabels, WorkerOnly, RunLabels,
        InCallback, Body, Contract!vars
<1>1. StartLock(t) => UNCHANGED Contract!vars
  BY SMT DEF StartLock, Goto, state, history, flags, LockInv
<1>2. AlreadyActive(t) => UNCHANGED Contract!vars
  BY SMT DEF AlreadyActive, ReleaseAndReturn, Return, Home, Goto, state,
     history, flags, LockInv
<1>3. Claim(t) => UNCHANGED Contract!vars
  BY SMT DEF Claim, Goto, history, LockInv
<1>4. PrepareFails(t) => UNCHANGED Contract!vars
  BY SMT DEF PrepareFails, ReleaseAndReturn, resetToIdle, Return,
     BroadcastBoth, resetStateLocked, Home, Goto, history, LockInv
<1>5. Prepared(t) => Contract!Prepare
  BY SMT DEF Prepared, Goto, state, flags, Contract!Prepare, LockInv
<1>6. CreateFails(t) => UNCHANGED Contract!vars
  BY SMT DEF CreateFails, Goto, resetToIdle, BroadcastBoth, resetStateLocked,
     history, LockInv
<1>7. FailCleanup(t) => Contract!Cleanup
  BY SMT DEF FailCleanup, ReleaseAndReturn, onCleanup, Return, Home, Goto,
     state, flags, Contract!Cleanup, LockInv, PhaseInv, CallbackInv
<1>8. Created(t) => UNCHANGED Contract!vars
  BY SMT DEF Created, state, history, flags, LockInv, PhaseInv
<1>9. AwaitReady(t) => UNCHANGED Contract!vars
  BY SMT DEF AwaitReady, flags, history, LockInv
<1>10. ReleaseRunning(t) => UNCHANGED Contract!vars
  BY SMT DEF ReleaseRunning, ReleaseAndReturn, Return, Home, Goto, history,
     LockInv
<1>11. ReleaseStopping(t) => Contract!StopRequestedBegins
  BY SMT DEF ReleaseStopping, BeginStopping, Goto, BroadcastBoth,
     Contract!StopRequestedBegins, LockInv, PhaseInv, CallbackInv, LifeInv
<1> QED BY <1>1, <1>2, <1>3, <1>4, <1>5, <1>6, <1>7, <1>8, <1>9, <1>10, <1>11
        DEF StartStep, Contract!Next

\* requestStop() enters and leaves onStopRequested().
LEMMA StopStepRefines ==
  ASSUME IInv, IInv', NEW t \in Threads, StopStep(t)
  PROVE  [Contract!Next]_(Contract!vars)
<1> USE ThreadsAssumption DEF IInv, TypeOK, Labels, Ops, States, Threads,
        Holds, HolderPc, StartingLabels, JoinLabels, WorkerOnly, RunLabels,
        InCallback, Body, Contract!vars
<1>1. RequestIgnored(t) => UNCHANGED Contract!vars
  BY SMT DEF RequestIgnored, AfterRequest, Home, Goto, state, history, flags,
     LockInv
<1>2. RequestRunning(t) => Contract!StopRequestedBegins
  BY SMT DEF RequestRunning, BeginStopping, Goto, BroadcastBoth,
     Contract!StopRequestedBegins, LockInv, PhaseInv, CallbackInv, LifeInv
<1>3. RequestNoted(t) => UNCHANGED Contract!vars
  BY SMT DEF RequestNoted, BroadcastBoth, AfterRequest, Home, Goto, history,
     LockInv, LabelInv
<1>4. Notified(t) => Contract!StopRequestedReturns
  BY SMT DEF Notified, ReleaseAndReturn, AfterRequest, CallbackDone, Return,
     Home, Goto, flags, history, Contract!StopRequestedReturns, LockInv,
     PhaseInv, CallbackInv
<1>5. StopSelf(t) => UNCHANGED Contract!vars
  BY SMT DEF StopSelf, IsCurrentThread, Goto, state, history, flags, LockInv,
     LabelInv
<1>6. StopLock(t) => UNCHANGED Contract!vars
  BY SMT DEF StopLock, IsCurrentThread, Goto, state, history, flags, LockInv
<1>7. StopJoin(t) => UNCHANGED Contract!vars
  BY SMT DEF StopJoin, Goto, ReleaseAndReturn, Return, Home, state, history,
     flags, LockInv
<1> QED BY <1>1, <1>2, <1>3, <1>4, <1>5, <1>6, <1>7 DEF StopStep,
        Contract!Next

\* joinLocked() ends the life.
LEMMA JoinStepRefines ==
  ASSUME IInv, IInv', NEW t \in Threads, JoinStep(t)
  PROVE  [Contract!Next]_(Contract!vars)
<1> USE ThreadsAssumption DEF IInv, TypeOK, Labels, Ops, States, Threads,
        Holds, HolderPc, StartingLabels, JoinLabels, WorkerOnly, RunLabels,
        InCallback, Body, Contract!vars
<1>1. JoinSelf(t) => UNCHANGED Contract!vars
  BY SMT DEF JoinSelf, IsCurrentThread, Return, Home, Goto, state, history,
     flags, LockInv
<1>2. JoinLock(t) => UNCHANGED Contract!vars
  BY SMT DEF JoinLock, IsCurrentThread, Goto, Return, Home, state, history,
     flags, LockInv
<1>3. JoinId(t) => UNCHANGED Contract!vars
  BY SMT DEF JoinId, Goto, JoinReturn, ReleaseAndReturn, Return, Home, state,
     history, flags, LockInv
<1>4. JoinThread(t) => UNCHANGED Contract!vars
  BY SMT DEF JoinThread, state, history, flags, LockInv
<1>5. DrainWait(t) => UNCHANGED Contract!vars
  BY SMT DEF DrainWait, state, history, flags, LockInv
<1>6. Drained(t) => UNCHANGED Contract!vars
  BY SMT DEF Drained, Goto, flags, history, LockInv, PhaseInv
<1>7. Cleanup(t) => Contract!Cleanup
  BY SMT DEF Cleanup, Goto, onCleanup, state, flags, Contract!Cleanup,
     LockInv, PhaseInv, CallbackInv
<1>8. Reset(t) => UNCHANGED Contract!vars
  BY SMT DEF Reset, resetToIdle, JoinReturn, BroadcastBoth, resetStateLocked,
     Goto, ReleaseAndReturn, Return, Home, history, LockInv
<1> QED BY <1>1, <1>2, <1>3, <1>4, <1>5, <1>6, <1>7, <1>8 DEF JoinStep,
        Contract!Next

\* taskEntry() enters run(), which returns when it sees shouldRun() false.
LEMMA RunStepRefines ==
  ASSUME IInv, IInv', RunStep
  PROVE  [Contract!Next]_(Contract!vars)
<1> USE ThreadsAssumption DEF IInv, TypeOK, Labels, Ops, States, Threads,
        Holds, HolderPc, StartingLabels, JoinLabels, WorkerOnly, RunLabels,
        InCallback, Body, Contract!vars
<1>1. TaskEntry => UNCHANGED Contract!vars
  BY SMT DEF TaskEntry, Goto, history, LockInv
<1>2. HeldAgain => UNCHANGED Contract!vars
  BY SMT DEF HeldAgain, state, history, flags, LockInv
<1>3. Released => Contract!RunBegins
  BY SMT DEF Released, Goto, state, history, flags, Contract!RunBegins,
     LockInv, PhaseInv, CallbackInv, LifeInv
<1>4. LoopTest => Contract!RunReturns \/ UNCHANGED Contract!vars
  BY SMT DEF LoopTest, shouldRun, Goto, state, history, flags,
     Contract!RunReturns, LockInv
<1>5. BodyEnds => UNCHANGED Contract!vars
  BY SMT DEF BodyEnds, Goto, state, history, flags, LockInv, LabelInv
<1>6. SleepWoken => UNCHANGED Contract!vars
  BY SMT DEF SleepWoken, SleepEnds, Woken, Goto, history, LockInv, LabelInv
<1>7. Exit => UNCHANGED Contract!vars
  BY SMT DEF Exit, Goto, BroadcastBoth, flags, history, LockInv, LabelInv
<1> QED BY <1>1, <1>2, <1>3, <1>4, <1>5, <1>6, <1>7 DEF RunStep, Contract!Next

\* run() returns on its own, or calls back into the object.
LEMMA RunChoiceRefines ==
  ASSUME IInv, IInv', RunChoice
  PROVE  [Contract!Next]_(Contract!vars)
<1> USE ThreadsAssumption DEF IInv, TypeOK, Labels, Ops, States, Threads,
        Holds, HolderPc, StartingLabels, JoinLabels, WorkerOnly, RunLabels,
        InCallback, Body, Contract!vars
<1>1. RunReturns => Contract!RunReturns
  BY SMT DEF RunReturns, Goto, state, history, flags, Contract!RunReturns,
     LockInv, PhaseInv
<1>2. Sleep => UNCHANGED Contract!vars
  BY SMT DEF Sleep, IsCurrentThread, Goto, Woken, state, history, flags,
     LockInv
<1>3. SleepTimesOut => UNCHANGED Contract!vars
  BY SMT DEF SleepTimesOut, SleepEnds, Goto, history, LockInv
<1>4. ASSUME NEW o \in Ops, RunInvokes(o)
      PROVE  UNCHANGED Contract!vars
  BY <1>4, SMT DEF RunInvokes, Goto, state, history, flags, LockInv
<1> QED BY <1>1, <1>2, <1>3, <1>4 DEF RunChoice, Contract!Next

\* Invoking an operation enters no callback.
LEMMA InvokeRefines ==
  ASSUME IInv, IInv', NEW t \in Callers, NEW o \in Ops, Invoke(t, o)
  PROVE  UNCHANGED Contract!vars
BY ThreadsAssumption, SMT DEF IInv, TypeOK, Labels, Ops, States, Threads,
   Holds, HolderPc, StartingLabels, JoinLabels, WorkerOnly, RunLabels,
   InCallback, Body, Contract!vars, Invoke, Goto, state, history, flags,
   LockInv

\* A spurious wakeup enters no callback.
LEMMA SpuriousWakeupRefines ==
  ASSUME IInv, IInv', NEW t \in Threads, SpuriousWakeup(t)
  PROVE  UNCHANGED Contract!vars
BY ThreadsAssumption, SMT DEF IInv, TypeOK, Labels, Ops, States, Threads,
   Holds, HolderPc, StartingLabels, JoinLabels, WorkerOnly, RunLabels,
   InCallback, Body, Contract!vars, SpuriousWakeup, state, history, flags,
   LockInv

\* The callbacks of every life come in the order WorkerThread.h promises:
\* run() at most once, onStopRequested() at most once, and onCleanup() exactly
\* once and after everything else, even when a stop request races start(),
\* run() returning, join() or a restart.
THEOREM CallbackContract == Spec => ContractSpec
<1>1. IInv /\ IInv' /\ [Next]_vars => [Contract!Next]_(Contract!vars)
  <2> SUFFICES ASSUME IInv, IInv', [Next]_vars
               PROVE  [Contract!Next]_(Contract!vars)
    OBVIOUS
  <2>1. ASSUME NEW t \in Threads, CallStep(t)
        PROVE  [Contract!Next]_(Contract!vars)
    BY <2>1, StartStepRefines, StopStepRefines, JoinStepRefines DEF CallStep
  <2>2. ASSUME NEW t \in Threads, SpuriousWakeup(t)
        PROVE  [Contract!Next]_(Contract!vars)
    BY <2>2, SpuriousWakeupRefines
  <2>3. ASSUME NEW t \in Callers, NEW o \in Ops, Invoke(t, o)
        PROVE  [Contract!Next]_(Contract!vars)
    BY <2>3, InvokeRefines
  <2>4. CASE RunStep
    BY <2>4, RunStepRefines
  <2>5. CASE RunChoice
    BY <2>5, RunChoiceRefines
  <2>6. CASE UNCHANGED vars
    BY <2>6 DEF vars, state, flags, history, Body, InCallback, Contract!vars
  <2> QED
    BY <2>1, <2>2, <2>3, <2>4, <2>5, <2>6 DEF Next
<1> QED
  BY InitRefines, <1>1, Inductive, PTL DEF Spec, ContractSpec, Contract!Spec

-------------------------------------------------------------------------------
(* WorkerThread implements WorkerLife, on which the models of the classes    *)
(* that own a WorkerThread are built.                                        *)

\* The object is constructed Idle.
LEMMA InitIsLife == Init => Life!Init
<1> SUFFICES ASSUME Init PROVE Life!Init
  OBVIOUS
<1>1. pc[Worker] = "none"
  BY SMT DEF Init, Threads
<1> QED
  BY <1>1, SMT DEF Init, Life!Init, LifeBody

\* start() takes the lock, claims the object, and succeeds or fails.
LEMMA StartStepIsLife ==
  ASSUME IInv, IInv', NEW t \in Threads, StartStep(t)
  PROVE  [Life!Next]_(Life!lifeVars)
<1> USE ThreadsAssumption DEF IInv, TypeOK, Labels, Ops, States, Threads,
        Holds, HolderPc, StartingLabels, JoinLabels, WorkerOnly, RunLabels,
        InCallback, LifeBody, Life!lifeVars
<1>1. StartLock(t) => Life!Acquire(t)
  BY SMT DEF StartLock, Goto, state, history, flags, LockInv, Life!Acquire
<1>2. AlreadyActive(t) => Life!Free(t)
  BY SMT DEF AlreadyActive, ReleaseAndReturn, Return, Home, Goto, state,
     history, flags, LockInv, Life!Free
<1>3. Claim(t) => Life!Claim(t)
  BY SMT DEF Claim, Goto, history, LockInv, Life!Claim
<1>4. PrepareFails(t) => Life!Fail(t)
  BY SMT DEF PrepareFails, ReleaseAndReturn, resetToIdle, Return,
     BroadcastBoth, resetStateLocked, Home, Goto, history, LockInv, PhaseInv,
     Life!Fail
<1>5. Prepared(t) => UNCHANGED Life!lifeVars
  BY SMT DEF Prepared, Goto, state, flags, LockInv
<1>6. CreateFails(t) => Life!Fail(t)
  BY SMT DEF CreateFails, Goto, resetToIdle, BroadcastBoth, resetStateLocked,
     history, LockInv, PhaseInv, Life!Fail
<1>7. FailCleanup(t) => Life!Free(t)
  BY SMT DEF FailCleanup, ReleaseAndReturn, onCleanup, Return, Home, Goto,
     state, flags, LockInv, PhaseInv, CallbackInv, Life!Free
<1>8. Created(t) => UNCHANGED Life!lifeVars
  BY SMT DEF Created, state, history, flags, LockInv, PhaseInv
<1>9. AwaitReady(t) => UNCHANGED Life!lifeVars
  BY SMT DEF AwaitReady, flags, history, LockInv
<1>10. ReleaseRunning(t) => Life!Begin(t)
  BY SMT DEF ReleaseRunning, ReleaseAndReturn, Return, Home, Goto, history,
     LockInv, PhaseInv, Life!Begin
<1>11. ReleaseStopping(t) => Life!BeginStopping(t)
  BY SMT DEF ReleaseStopping, BeginStopping, Goto, BroadcastBoth, LockInv,
     PhaseInv, CallbackInv, LifeInv, Life!BeginStopping
<1> QED BY <1>1, <1>2, <1>3, <1>4, <1>5, <1>6, <1>7, <1>8, <1>9, <1>10, <1>11
        DEF StartStep, Life!Next

\* requestStop() and stop() end Running.
LEMMA StopStepIsLife ==
  ASSUME IInv, IInv', NEW t \in Threads, StopStep(t)
  PROVE  [Life!Next]_(Life!lifeVars)
<1> USE ThreadsAssumption DEF IInv, TypeOK, Labels, Ops, States, Threads,
        Holds, HolderPc, StartingLabels, JoinLabels, WorkerOnly, RunLabels,
        InCallback, LifeBody, Life!lifeVars
<1>1. RequestIgnored(t) => UNCHANGED Life!lifeVars
  BY SMT DEF RequestIgnored, AfterRequest, Home, Goto, state, history, flags,
     LockInv
<1>2. RequestRunning(t) => Life!RequestStop
  BY SMT DEF RequestRunning, BeginStopping, Goto, BroadcastBoth, LockInv,
     PhaseInv, CallbackInv, LifeInv, Life!RequestStop
<1>3. RequestNoted(t) => UNCHANGED Life!lifeVars
  BY SMT DEF RequestNoted, BroadcastBoth, AfterRequest, Home, Goto, history,
     LockInv, LabelInv
<1>4. Notified(t) => Life!Free(t) \/ UNCHANGED Life!lifeVars
  BY SMT DEF Notified, ReleaseAndReturn, AfterRequest, CallbackDone, Return,
     Home, Goto, flags, history, LockInv,
     PhaseInv, CallbackInv, Life!Free
<1>5. StopSelf(t) => UNCHANGED Life!lifeVars
  BY SMT DEF StopSelf, IsCurrentThread, Goto, state, history, flags, LockInv,
     LabelInv
<1>6. StopLock(t) => Life!Acquire(t)
  BY SMT DEF StopLock, IsCurrentThread, Goto, state, history, flags, LockInv,
     Life!Acquire
<1>7. StopJoin(t) => Life!Free(t) \/ UNCHANGED Life!lifeVars
  BY SMT DEF StopJoin, Goto, ReleaseAndReturn, Return, Home, state, history,
     flags, LockInv, Life!Free
<1> QED BY <1>1, <1>2, <1>3, <1>4, <1>5, <1>6, <1>7 DEF StopStep,
        Life!Next

\* joinLocked() reaps the thread.
LEMMA JoinStepIsLife ==
  ASSUME IInv, IInv', NEW t \in Threads, JoinStep(t)
  PROVE  [Life!Next]_(Life!lifeVars)
<1> USE ThreadsAssumption DEF IInv, TypeOK, Labels, Ops, States, Threads,
        Holds, HolderPc, StartingLabels, JoinLabels, WorkerOnly, RunLabels,
        InCallback, LifeBody, Life!lifeVars
<1>1. JoinSelf(t) => UNCHANGED Life!lifeVars
  BY SMT DEF JoinSelf, IsCurrentThread, Return, Home, Goto, state, history,
     flags, LockInv
<1>2. JoinLock(t) => Life!Acquire(t) \/ UNCHANGED Life!lifeVars
  BY SMT DEF JoinLock, IsCurrentThread, Goto, Return, Home, state, history,
     flags, LockInv, Life!Acquire
<1>3. JoinId(t) => Life!Free(t) \/ UNCHANGED Life!lifeVars
  BY SMT DEF JoinId, Goto, JoinReturn, ReleaseAndReturn, Return, Home, state,
     history, flags, LockInv, Life!Free
<1>4. JoinThread(t) => UNCHANGED Life!lifeVars
  BY SMT DEF JoinThread, state, history, flags, LockInv, PhaseInv
<1>5. DrainWait(t) => UNCHANGED Life!lifeVars
  BY SMT DEF DrainWait, state, history, flags, LockInv
<1>6. Drained(t) => UNCHANGED Life!lifeVars
  BY SMT DEF Drained, Goto, flags, history, LockInv, PhaseInv
<1>7. Cleanup(t) => UNCHANGED Life!lifeVars
  BY SMT DEF Cleanup, Goto, onCleanup, state, flags,
     LockInv, PhaseInv, CallbackInv
<1>8. Reset(t) => Life!Reap(t)
  BY SMT DEF Reset, resetToIdle, JoinReturn, BroadcastBoth, resetStateLocked,
     Goto, ReleaseAndReturn, Return, Home, history, LockInv, PhaseInv, Life!Reap
<1> QED BY <1>1, <1>2, <1>3, <1>4, <1>5, <1>6, <1>7, <1>8 DEF JoinStep,
        Life!Next

\* taskEntry() enters run(), which returns when it sees shouldRun() false.
LEMMA RunStepIsLife ==
  ASSUME IInv, IInv', RunStep
  PROVE  [Life!Next]_(Life!lifeVars)
<1> USE ThreadsAssumption DEF IInv, TypeOK, Labels, Ops, States, Threads,
        Holds, HolderPc, StartingLabels, JoinLabels, WorkerOnly, RunLabels,
        InCallback, LifeBody, Life!lifeVars
<1>1. TaskEntry => UNCHANGED Life!lifeVars
  BY SMT DEF TaskEntry, Goto, history, LockInv
<1>2. HeldAgain => UNCHANGED Life!lifeVars
  BY SMT DEF HeldAgain, state, history, flags, LockInv
<1>3. Released => Life!RunBegins
  BY SMT DEF Released, Goto, state, history, flags,
     LockInv, PhaseInv, CallbackInv, LifeInv, Life!RunBegins
<1>4. LoopTest => Life!RunReturns \/ UNCHANGED Life!lifeVars
  BY SMT DEF LoopTest, shouldRun, Goto, state, history, flags, LockInv,
     Life!RunReturns
<1>5. BodyEnds => UNCHANGED Life!lifeVars
  BY SMT DEF BodyEnds, Goto, state, history, flags, LockInv, LabelInv
<1>6. SleepWoken => UNCHANGED Life!lifeVars
  BY SMT DEF SleepWoken, SleepEnds, Woken, Goto, history, LockInv, LabelInv
<1>7. Exit => Life!Exit
  BY SMT DEF Exit, Goto, BroadcastBoth, flags, history, LockInv, LabelInv,
     PhaseInv, Life!Exit
<1> QED BY <1>1, <1>2, <1>3, <1>4, <1>5, <1>6, <1>7 DEF RunStep, Life!Next

\* run() returns on its own, or calls back into the object.
LEMMA RunChoiceIsLife ==
  ASSUME IInv, IInv', RunChoice
  PROVE  [Life!Next]_(Life!lifeVars)
<1> USE ThreadsAssumption DEF IInv, TypeOK, Labels, Ops, States, Threads,
        Holds, HolderPc, StartingLabels, JoinLabels, WorkerOnly, RunLabels,
        InCallback, LifeBody, Life!lifeVars
<1>1. RunReturns => Life!RunReturns
  BY SMT DEF RunReturns, Goto, state, history, flags,
     LockInv, PhaseInv, Life!RunReturns
<1>2. Sleep => UNCHANGED Life!lifeVars
  BY SMT DEF Sleep, IsCurrentThread, Goto, Woken, state, history, flags,
     LockInv
<1>3. SleepTimesOut => UNCHANGED Life!lifeVars
  BY SMT DEF SleepTimesOut, SleepEnds, Goto, history, LockInv
<1>4. ASSUME NEW o \in Ops, RunInvokes(o)
      PROVE  UNCHANGED Life!lifeVars
  BY <1>4, SMT DEF RunInvokes, Goto, state, history, flags, LockInv
<1> QED BY <1>1, <1>2, <1>3, <1>4 DEF RunChoice, Life!Next

\* Invoking an operation leaves the life cycle alone.
LEMMA InvokeIsLife ==
  ASSUME IInv, IInv', NEW t \in Callers, NEW o \in Ops, Invoke(t, o)
  PROVE  UNCHANGED Life!lifeVars
BY ThreadsAssumption, SMT DEF IInv, TypeOK, Labels, Ops, States, Threads,
   Holds, HolderPc, StartingLabels, JoinLabels, WorkerOnly, RunLabels,
   InCallback, LifeBody, Life!lifeVars, Invoke, Goto, state, history, flags,
   LockInv

\* So does a spurious wakeup.
LEMMA SpuriousWakeupIsLife ==
  ASSUME IInv, IInv', NEW t \in Threads, SpuriousWakeup(t)
  PROVE  UNCHANGED Life!lifeVars
BY ThreadsAssumption, SMT DEF IInv, TypeOK, Labels, Ops, States, Threads,
   Holds, HolderPc, StartingLabels, JoinLabels, WorkerOnly, RunLabels,
   InCallback, LifeBody, Life!lifeVars, SpuriousWakeup, state, history, flags,
   LockInv

\* To its owners a WorkerThread is WorkerLife: run() executes once in a life
\* and only in Running and Stopping, and whoever is inside start(), stop() or
\* join() is alone in starting and reaping the thread.
THEOREM OwnersMayRely == Spec => LifeSpec
<1>1. IInv /\ IInv' /\ [Next]_vars => [Life!Next]_(Life!lifeVars)
  <2> SUFFICES ASSUME IInv, IInv', [Next]_vars
               PROVE  [Life!Next]_(Life!lifeVars)
    OBVIOUS
  <2>1. ASSUME NEW t \in Threads, CallStep(t)
        PROVE  [Life!Next]_(Life!lifeVars)
    BY <2>1, StartStepIsLife, StopStepIsLife, JoinStepIsLife DEF CallStep
  <2>2. ASSUME NEW t \in Threads, SpuriousWakeup(t)
        PROVE  [Life!Next]_(Life!lifeVars)
    BY <2>2, SpuriousWakeupIsLife
  <2>3. ASSUME NEW t \in Callers, NEW o \in Ops, Invoke(t, o)
        PROVE  [Life!Next]_(Life!lifeVars)
    BY <2>3, InvokeIsLife
  <2>4. CASE RunStep
    BY <2>4, RunStepIsLife
  <2>5. CASE RunChoice
    BY <2>5, RunChoiceIsLife
  <2>6. CASE UNCHANGED vars
    BY <2>6 DEF vars, state, flags, LifeBody, Life!lifeVars
  <2> QED
    BY <2>1, <2>2, <2>3, <2>4, <2>5, <2>6 DEF Next
<1> QED
  BY InitIsLife, <1>1, Inductive, PTL DEF Spec, LifeSpec, Life!Spec
===============================================================================
