----------------------------- MODULE MainLoopProofs -----------------------------
(***************************************************************************)
(* MainLoop for any threads, watchers and capacities: IInv is inductive.   *)
(***************************************************************************)
EXTENDS MainLoop, FiniteSetTheorems, TLAPS

\* SomeWatcher is a watcher.
LEMMA SomeWatcherTyped == SomeWatcher \in Watchers
  BY MainLoopAssumption DEF SomeWatcher

\* A full pipe keeps its bytes, another one has room for the command.
LEMMA SendTyped ==
  ASSUME TypeOK, NEW c \in LoopCommands, sendCommand(c)
  PROVE  pipe' \in Seq(LoopCommands) /\ Len(pipe') <= PipeSize /\ pipe' # <<>>
  <1>1. PipeSize \in Nat \ {0}
    BY MainLoopAssumption
  <1>2. CASE Len(pipe) < PipeSize
    BY <1>1, <1>2 DEF sendCommand, TypeOK
  <1>3. CASE ~(Len(pipe) < PipeSize)
    BY <1>1, <1>3 DEF sendCommand, TypeOK
  <1> QED BY <1>2, <1>3

\* TypeOK is preserved.
LEMMA Typed ==
  ASSUME TypeOK, Next
  PROVE  TypeOK'
  <1>a. /\ SomeWatcher \in Watchers
        /\ kMaxFunctionSize \in Nat /\ PipeSize \in Nat /\ kMaxFdWatcherSize \in Nat
        /\ Loop \notin Callers /\ Nobody \notin Threads
    BY SomeWatcherTyped, MainLoopAssumption
  <1>1. ASSUME NEW t \in Threads, CallStep(t) PROVE TypeOK'
    <2>1. CASE Post(t)
      BY <1>a, <2>1
      DEF Post, Goto, queue, commands, descriptors, loopLocals, TypeOK,
         Labels, Starts, UserCode, Threads
    <2>2. CASE PostWakesUp(t)
      <3>1. pipe' \in Seq(LoopCommands) /\ Len(pipe') <= PipeSize
        BY <2>2, SendTyped DEF PostWakesUp, LoopCommands
      <3> QED BY <1>a, <2>2, <3>1
      DEF PostWakesUp, Return, Goto, queue, commands, descriptors,
         loopLocals, TypeOK, Labels, Starts, UserCode, Threads
    <2>3. CASE PostDropped(t)
      BY <1>a, <2>3
      DEF PostDropped, Return, Goto, queue, commands, descriptors,
         loopLocals, TypeOK, Labels, Starts, UserCode, Threads
    <2>4. CASE wakeup(t)
      <3>1. pipe' \in Seq(LoopCommands) /\ Len(pipe') <= PipeSize
        BY <2>4, SendTyped DEF wakeup, LoopCommands
      <3> QED BY <1>a, <2>4, <3>1
      DEF wakeup, Return, Goto, queue, commands, descriptors,
         loopLocals, TypeOK, Labels, Starts, UserCode, Threads
    <2>5. CASE StoreTerminated(t)
      BY <1>a, <2>5
      DEF StoreTerminated, Goto, queue, commands, descriptors,
         loopLocals, TypeOK, Labels, Starts, UserCode, Threads
    <2>6. CASE SendTerminate(t)
      <3>1. pipe' \in Seq(LoopCommands) /\ Len(pipe') <= PipeSize
        BY <2>6, SendTyped DEF SendTerminate, LoopCommands
      <3> QED BY <1>a, <2>6, <3>1
      DEF SendTerminate, Return, Goto, queue, commands, descriptors,
         loopLocals, TypeOK, Labels, Starts, UserCode, Threads
    <2>7. CASE Watch(t)
      BY <1>a, <2>7
      DEF Watch, Return, Goto, queue, commands, descriptors, loopLocals,
         TypeOK, Labels, Starts, UserCode, Threads
    <2>8. CASE List(t)
      <3>1. /\ mFdWatchers' \subseteq Watchers
            /\ Cardinality(mFdWatchers') <= kMaxFdWatcherSize
        <4>1. IsFiniteSet(mFdWatchers) /\ Cardinality(mFdWatchers) \in Nat
          BY MainLoopAssumption, FS_Subset, FS_CardinalityType DEF TypeOK
        <4>2. Cardinality(mFdWatchers \cup {watcher[t]}) <= Cardinality(mFdWatchers) + 1
          BY <4>1, FS_AddElement
        <4>3. watcher[t] \in Watchers /\ Cardinality(mFdWatchers \cup {watcher[t]}) \in Nat
          BY <4>1, FS_AddElement, FS_CardinalityType DEF TypeOK
        <4>4. CASE Cardinality(mFdWatchers) < kMaxFdWatcherSize
          BY <1>a, <2>8, <4>1, <4>2, <4>3, <4>4 DEF List, TypeOK
        <4>5. CASE ~(Cardinality(mFdWatchers) < kMaxFdWatcherSize)
          BY <2>8, <4>5 DEF List, TypeOK
        <4> QED BY <4>4, <4>5
      <3> QED BY <1>a, <2>8, <3>1
      DEF List, Return, Goto, queue, commands, descriptors, loopLocals,
         TypeOK, Labels, Starts, UserCode, Threads
    <2>9. CASE Unwatch(t)
      BY <1>a, <2>9
      DEF Unwatch, Goto, queue, commands, descriptors, loopLocals,
         TypeOK, Labels, Starts, UserCode, Threads
    <2>10. CASE Unlist(t)
      <3>1. /\ mFdWatchers' \subseteq Watchers
            /\ Cardinality(mFdWatchers') <= kMaxFdWatcherSize
        <4>1. IsFiniteSet(mFdWatchers) /\ Cardinality(mFdWatchers) \in Nat
          BY MainLoopAssumption, FS_Subset, FS_CardinalityType DEF TypeOK
        <4>2. /\ Cardinality(mFdWatchers \ {watcher[t]}) <= Cardinality(mFdWatchers)
              /\ Cardinality(mFdWatchers \ {watcher[t]}) \in Nat
          BY <4>1, FS_Subset, FS_CardinalityType
        <4> QED BY <1>a, <2>10, <4>1, <4>2 DEF Unlist, TypeOK
      <3> QED BY <1>a, <2>10, <3>1
      DEF Unlist, Return, Goto, queue, commands, descriptors,
         loopLocals, TypeOK, Labels, Starts, UserCode, Threads
    <2> QED BY <1>1, <2>1, <2>2, <2>3, <2>4, <2>5, <2>6, <2>7, <2>8, <2>9, <2>10 DEF CallStep
  <1>2. ASSUME NEW t \in Threads, NEW l \in Starts, NEW w \in Watchers, Invoke(t, l, w)
        PROVE  TypeOK'
    BY <1>a, <1>2
    DEF Invoke, Goto, queue, commands, descriptors, Starts, TypeOK,
       Labels, Starts, UserCode, Threads
  <1>3. ASSUME NEW w \in Watchers, Readable(w) PROVE TypeOK'
    BY <1>a, <1>3
    DEF Readable, queue, commands, loopLocals, TypeOK, Labels, Starts,
       UserCode, Threads
  <1>4. CASE RunFunction
    BY <1>a, <1>4
    DEF RunFunction, At, Goto, queue, commands, descriptors, loopLocals,
       TypeOK, Labels, Starts, UserCode, Threads
  <1>5. CASE NoMoreFunctions
    BY <1>a, <1>5
    DEF NoMoreFunctions, At, Goto, queue, commands, descriptors,
       loopLocals, TypeOK, Labels, Starts, UserCode, Threads
  <1>6. CASE FunctionReturns
    BY <1>a, <1>6
    DEF FunctionReturns, At, Goto, queue, commands, descriptors,
       loopLocals, TypeOK, Labels, Starts, UserCode, Threads
  <1>7. CASE RunTimer
    BY <1>a, <1>7
    DEF RunTimer, At, Goto, queue, commands, descriptors, loopLocals,
       TypeOK, Labels, Starts, UserCode, Threads
  <1>8. CASE TimerReturns
    BY <1>a, <1>8
    DEF TimerReturns, At, Goto, queue, commands, descriptors,
       loopLocals, TypeOK, Labels, Starts, UserCode, Threads
  <1>9. CASE TimersDone
    BY <1>a, <1>9
    DEF TimersDone, At, Goto, queue, commands, descriptors, loopLocals,
       TypeOK, Labels, Starts, UserCode, Threads
  <1>10. CASE EventsArrive
    BY <1>a, <1>10
    DEF EventsArrive, At, Goto, queue, commands, descriptors,
       loopLocals, Ready, TypeOK, Labels, Starts, UserCode, Threads
  <1>11. CASE NoEvents
    BY <1>a, <1>11
    DEF NoEvents, At, Goto, queue, commands, descriptors, loopLocals,
       Ready, TypeOK, Labels, Starts, UserCode, Threads
  <1>12. CASE HandleWatcher
    BY <1>a, <1>12
    DEF HandleWatcher, At, Goto, queue, commands, descriptors,
       loopLocals, TypeOK, Labels, Starts, UserCode, Threads
  <1>13. CASE HandlerReturns
    BY <1>a, <1>13
    DEF HandlerReturns, At, Goto, queue, commands, descriptors,
       loopLocals, TypeOK, Labels, Starts, UserCode, Threads
  <1>14. CASE HandleCommands
    BY <1>a, <1>14
    DEF HandleCommands, At, Goto, queue, commands, descriptors,
       loopLocals, TypeOK, Labels, Starts, UserCode, Threads
  <1>15. CASE Drain
    BY <1>a, <1>15
    DEF Drain, At, Goto, queue, commands, descriptors, loopLocals,
       TypeOK, Labels, Starts, UserCode, Threads
  <1>16. CASE Drained
    BY <1>a, <1>16
    DEF Drained, At, Goto, queue, commands, descriptors, loopLocals,
       TypeOK, Labels, Starts, UserCode, Threads
  <1>17. CASE CheckTerminated
    BY <1>a, <1>17
    DEF CheckTerminated, At, Goto, queue, commands, descriptors,
       loopLocals, TypeOK, Labels, Starts, UserCode, Threads
  <1>18. CASE EventsDone
    BY <1>a, <1>18
    DEF EventsDone, At, Goto, queue, commands, descriptors, loopLocals,
       TypeOK, Labels, Starts, UserCode, Threads
  <1> QED
    BY <1>1, <1>2, <1>3, <1>4, <1>5, <1>6, <1>7, <1>8, <1>9, <1>10,
       <1>11, <1>12, <1>13, <1>14, <1>15, <1>16, <1>17, <1>18
    DEF Next, LoopStep

\* FunctionsAnnounced is preserved: only the drain empties the pipe, and the
\* loop looks at the queue between that and the next epoll_wait().
LEMMA Functions ==
  ASSUME TypeOK, FunctionsAnnounced, Next
  PROVE  FunctionsAnnounced'
  <1>a. /\ SomeWatcher \in Watchers
        /\ kMaxFunctionSize \in Nat /\ PipeSize \in Nat /\ kMaxFdWatcherSize \in Nat
        /\ Loop \notin Callers /\ Nobody \notin Threads
    BY SomeWatcherTyped, MainLoopAssumption
  <1>1. ASSUME NEW t \in Threads, CallStep(t) PROVE FunctionsAnnounced'
    <2>1. CASE Post(t)
      BY <1>a, <2>1
      DEF Post, Goto, queue, commands, descriptors, loopLocals,
         FunctionsAnnounced, PastFunctions, CallLabels, TypeOK, UserCode,
         Threads, Starts
    <2>2. CASE PostWakesUp(t)
      <3>1. pipe' # <<>>
        BY <2>2, SendTyped DEF PostWakesUp, LoopCommands
      <3> QED BY <3>1 DEF FunctionsAnnounced
    <2>3. CASE PostDropped(t)
      BY <1>a, <2>3
      DEF PostDropped, Return, Goto, queue, commands, descriptors,
         loopLocals, FunctionsAnnounced, PastFunctions, CallLabels, TypeOK,
         UserCode, Threads, Starts
    <2>4. CASE wakeup(t)
      <3>1. pipe' # <<>>
        BY <2>4, SendTyped DEF wakeup, LoopCommands
      <3> QED BY <3>1 DEF FunctionsAnnounced
    <2>5. CASE StoreTerminated(t)
      BY <1>a, <2>5
      DEF StoreTerminated, Goto, queue, commands, descriptors,
         loopLocals, FunctionsAnnounced, PastFunctions, CallLabels, TypeOK,
         UserCode, Threads, Starts
    <2>6. CASE SendTerminate(t)
      <3>1. pipe' # <<>>
        BY <2>6, SendTyped DEF SendTerminate, LoopCommands
      <3> QED BY <3>1 DEF FunctionsAnnounced
    <2>7. CASE Watch(t)
      BY <1>a, <2>7
      DEF Watch, Return, Goto, queue, commands, descriptors, loopLocals,
         FunctionsAnnounced, PastFunctions, CallLabels, TypeOK, UserCode,
         Threads, Starts
    <2>8. CASE List(t)
      BY <1>a, <2>8
      DEF List, Return, Goto, queue, commands, descriptors, loopLocals,
         FunctionsAnnounced, PastFunctions, CallLabels, TypeOK, UserCode,
         Threads, Starts
    <2>9. CASE Unwatch(t)
      BY <1>a, <2>9
      DEF Unwatch, Goto, queue, commands, descriptors, loopLocals,
         FunctionsAnnounced, PastFunctions, CallLabels, TypeOK, UserCode,
         Threads, Starts
    <2>10. CASE Unlist(t)
      BY <1>a, <2>10
      DEF Unlist, Return, Goto, queue, commands, descriptors,
         loopLocals, FunctionsAnnounced, PastFunctions, CallLabels, TypeOK,
         UserCode, Threads, Starts
    <2> QED BY <1>1, <2>1, <2>2, <2>3, <2>4, <2>5, <2>6, <2>7, <2>8, <2>9, <2>10 DEF CallStep
  <1>2. ASSUME NEW t \in Threads, NEW l \in Starts, NEW w \in Watchers, Invoke(t, l, w)
        PROVE  FunctionsAnnounced'
    BY <1>a, <1>2
    DEF Invoke, Goto, queue, commands, descriptors, Starts,
       FunctionsAnnounced, PastFunctions, CallLabels, TypeOK, UserCode,
       Threads, Starts
  <1>3. ASSUME NEW w \in Watchers, Readable(w) PROVE FunctionsAnnounced'
    BY <1>a, <1>3
    DEF Readable, queue, commands, loopLocals, FunctionsAnnounced,
       PastFunctions, CallLabels, TypeOK, UserCode, Threads, Starts
  <1>4. CASE RunFunction
    BY <1>a, <1>4
    DEF RunFunction, At, Goto, queue, commands, descriptors, loopLocals,
       FunctionsAnnounced, PastFunctions, CallLabels, TypeOK, UserCode,
       Threads, Starts
  <1>5. CASE NoMoreFunctions
    BY <1>a, <1>5
    DEF NoMoreFunctions, At, Goto, queue, commands, descriptors,
       loopLocals, FunctionsAnnounced, PastFunctions, CallLabels, TypeOK,
       UserCode, Threads, Starts
  <1>6. CASE FunctionReturns
    BY <1>a, <1>6
    DEF FunctionReturns, At, Goto, queue, commands, descriptors,
       loopLocals, FunctionsAnnounced, PastFunctions, CallLabels, TypeOK,
       UserCode, Threads, Starts
  <1>7. CASE RunTimer
    BY <1>a, <1>7
    DEF RunTimer, At, Goto, queue, commands, descriptors, loopLocals,
       FunctionsAnnounced, PastFunctions, CallLabels, TypeOK, UserCode,
       Threads, Starts
  <1>8. CASE TimerReturns
    BY <1>a, <1>8
    DEF TimerReturns, At, Goto, queue, commands, descriptors,
       loopLocals, FunctionsAnnounced, PastFunctions, CallLabels, TypeOK,
       UserCode, Threads, Starts
  <1>9. CASE TimersDone
    BY <1>a, <1>9
    DEF TimersDone, At, Goto, queue, commands, descriptors, loopLocals,
       FunctionsAnnounced, PastFunctions, CallLabels, TypeOK, UserCode,
       Threads, Starts
  <1>10. CASE EventsArrive
    BY <1>a, <1>10
    DEF EventsArrive, At, Goto, queue, commands, descriptors,
       loopLocals, Ready, FunctionsAnnounced, PastFunctions, CallLabels,
       TypeOK, UserCode, Threads, Starts
  <1>11. CASE NoEvents
    BY <1>a, <1>11
    DEF NoEvents, At, Goto, queue, commands, descriptors, loopLocals,
       Ready, FunctionsAnnounced, PastFunctions, CallLabels, TypeOK,
       UserCode, Threads, Starts
  <1>12. CASE HandleWatcher
    BY <1>a, <1>12
    DEF HandleWatcher, At, Goto, queue, commands, descriptors,
       loopLocals, FunctionsAnnounced, PastFunctions, CallLabels, TypeOK,
       UserCode, Threads, Starts
  <1>13. CASE HandlerReturns
    BY <1>a, <1>13
    DEF HandlerReturns, At, Goto, queue, commands, descriptors,
       loopLocals, FunctionsAnnounced, PastFunctions, CallLabels, TypeOK,
       UserCode, Threads, Starts
  <1>14. CASE HandleCommands
    BY <1>a, <1>14
    DEF HandleCommands, At, Goto, queue, commands, descriptors,
       loopLocals, FunctionsAnnounced, PastFunctions, CallLabels, TypeOK,
       UserCode, Threads, Starts
  <1>15. CASE Drain
    BY <1>a, <1>15
    DEF Drain, At, Goto, queue, commands, descriptors, loopLocals,
       FunctionsAnnounced, PastFunctions, CallLabels, TypeOK, UserCode,
       Threads, Starts
  <1>16. CASE Drained
    BY <1>a, <1>16
    DEF Drained, At, Goto, queue, commands, descriptors, loopLocals,
       FunctionsAnnounced, PastFunctions, CallLabels, TypeOK, UserCode,
       Threads, Starts
  <1>17. CASE CheckTerminated
    BY <1>a, <1>17
    DEF CheckTerminated, At, Goto, queue, commands, descriptors,
       loopLocals, FunctionsAnnounced, PastFunctions, CallLabels, TypeOK,
       UserCode, Threads, Starts
  <1>18. CASE EventsDone
    BY <1>a, <1>18
    DEF EventsDone, At, Goto, queue, commands, descriptors, loopLocals,
       FunctionsAnnounced, PastFunctions, CallLabels, TypeOK, UserCode,
       Threads, Starts
  <1> QED
    BY <1>1, <1>2, <1>3, <1>4, <1>5, <1>6, <1>7, <1>8, <1>9, <1>10,
       <1>11, <1>12, <1>13, <1>14, <1>15, <1>16, <1>17, <1>18
    DEF Next, LoopStep

\* TerminationAnnounced is preserved: the flag is set before the command is
\* written and read after the drain.
LEMMA Termination ==
  ASSUME TypeOK, TerminationAnnounced, Next
  PROVE  TerminationAnnounced'
  <1>a. /\ SomeWatcher \in Watchers
        /\ kMaxFunctionSize \in Nat /\ PipeSize \in Nat /\ kMaxFdWatcherSize \in Nat
        /\ Loop \notin Callers /\ Nobody \notin Threads
    BY SomeWatcherTyped, MainLoopAssumption
  <1>1. ASSUME NEW t \in Threads, CallStep(t) PROVE TerminationAnnounced'
    <2>1. CASE Post(t)
      BY <1>a, <2>1
      DEF Post, Goto, queue, commands, descriptors, loopLocals,
         TerminationAnnounced, TypeOK, UserCode, Threads, Starts
    <2>2. CASE PostWakesUp(t)
      <3>1. pipe' # <<>>
        BY <2>2, SendTyped DEF PostWakesUp, LoopCommands
      <3> QED BY <3>1 DEF TerminationAnnounced
    <2>3. CASE PostDropped(t)
      BY <1>a, <2>3
      DEF PostDropped, Return, Goto, queue, commands, descriptors,
         loopLocals, TerminationAnnounced, TypeOK, UserCode, Threads,
         Starts
    <2>4. CASE wakeup(t)
      <3>1. pipe' # <<>>
        BY <2>4, SendTyped DEF wakeup, LoopCommands
      <3> QED BY <3>1 DEF TerminationAnnounced
    <2>5. CASE StoreTerminated(t)
      BY <1>a, <2>5
      DEF StoreTerminated, Goto, queue, commands, descriptors,
         loopLocals, TerminationAnnounced, TypeOK, UserCode, Threads,
         Starts
    <2>6. CASE SendTerminate(t)
      <3>1. pipe' # <<>>
        BY <2>6, SendTyped DEF SendTerminate, LoopCommands
      <3> QED BY <3>1 DEF TerminationAnnounced
    <2>7. CASE Watch(t)
      BY <1>a, <2>7
      DEF Watch, Return, Goto, queue, commands, descriptors, loopLocals,
         TerminationAnnounced, TypeOK, UserCode, Threads, Starts
    <2>8. CASE List(t)
      BY <1>a, <2>8
      DEF List, Return, Goto, queue, commands, descriptors, loopLocals,
         TerminationAnnounced, TypeOK, UserCode, Threads, Starts
    <2>9. CASE Unwatch(t)
      BY <1>a, <2>9
      DEF Unwatch, Goto, queue, commands, descriptors, loopLocals,
         TerminationAnnounced, TypeOK, UserCode, Threads, Starts
    <2>10. CASE Unlist(t)
      BY <1>a, <2>10
      DEF Unlist, Return, Goto, queue, commands, descriptors,
         loopLocals, TerminationAnnounced, TypeOK, UserCode, Threads,
         Starts
    <2> QED BY <1>1, <2>1, <2>2, <2>3, <2>4, <2>5, <2>6, <2>7, <2>8, <2>9, <2>10 DEF CallStep
  <1>2. ASSUME NEW t \in Threads, NEW l \in Starts, NEW w \in Watchers, Invoke(t, l, w)
        PROVE  TerminationAnnounced'
    BY <1>a, <1>2
    DEF Invoke, Goto, queue, commands, descriptors, Starts,
       TerminationAnnounced, TypeOK, UserCode, Threads, Starts
  <1>3. ASSUME NEW w \in Watchers, Readable(w) PROVE TerminationAnnounced'
    BY <1>a, <1>3
    DEF Readable, queue, commands, loopLocals, TerminationAnnounced,
       TypeOK, UserCode, Threads, Starts
  <1>4. CASE RunFunction
    BY <1>a, <1>4
    DEF RunFunction, At, Goto, queue, commands, descriptors, loopLocals,
       TerminationAnnounced, TypeOK, UserCode, Threads, Starts
  <1>5. CASE NoMoreFunctions
    BY <1>a, <1>5
    DEF NoMoreFunctions, At, Goto, queue, commands, descriptors,
       loopLocals, TerminationAnnounced, TypeOK, UserCode, Threads, Starts
  <1>6. CASE FunctionReturns
    BY <1>a, <1>6
    DEF FunctionReturns, At, Goto, queue, commands, descriptors,
       loopLocals, TerminationAnnounced, TypeOK, UserCode, Threads, Starts
  <1>7. CASE RunTimer
    BY <1>a, <1>7
    DEF RunTimer, At, Goto, queue, commands, descriptors, loopLocals,
       TerminationAnnounced, TypeOK, UserCode, Threads, Starts
  <1>8. CASE TimerReturns
    BY <1>a, <1>8
    DEF TimerReturns, At, Goto, queue, commands, descriptors,
       loopLocals, TerminationAnnounced, TypeOK, UserCode, Threads, Starts
  <1>9. CASE TimersDone
    BY <1>a, <1>9
    DEF TimersDone, At, Goto, queue, commands, descriptors, loopLocals,
       TerminationAnnounced, TypeOK, UserCode, Threads, Starts
  <1>10. CASE EventsArrive
    BY <1>a, <1>10
    DEF EventsArrive, At, Goto, queue, commands, descriptors,
       loopLocals, Ready, TerminationAnnounced, TypeOK, UserCode, Threads,
       Starts
  <1>11. CASE NoEvents
    BY <1>a, <1>11
    DEF NoEvents, At, Goto, queue, commands, descriptors, loopLocals,
       Ready, TerminationAnnounced, TypeOK, UserCode, Threads, Starts
  <1>12. CASE HandleWatcher
    BY <1>a, <1>12
    DEF HandleWatcher, At, Goto, queue, commands, descriptors,
       loopLocals, TerminationAnnounced, TypeOK, UserCode, Threads, Starts
  <1>13. CASE HandlerReturns
    BY <1>a, <1>13
    DEF HandlerReturns, At, Goto, queue, commands, descriptors,
       loopLocals, TerminationAnnounced, TypeOK, UserCode, Threads, Starts
  <1>14. CASE HandleCommands
    BY <1>a, <1>14
    DEF HandleCommands, At, Goto, queue, commands, descriptors,
       loopLocals, TerminationAnnounced, TypeOK, UserCode, Threads, Starts
  <1>15. CASE Drain
    BY <1>a, <1>15
    DEF Drain, At, Goto, queue, commands, descriptors, loopLocals,
       TerminationAnnounced, TypeOK, UserCode, Threads, Starts
  <1>16. CASE Drained
    BY <1>a, <1>16
    DEF Drained, At, Goto, queue, commands, descriptors, loopLocals,
       TerminationAnnounced, TypeOK, UserCode, Threads, Starts
  <1>17. CASE CheckTerminated
    BY <1>a, <1>17
    DEF CheckTerminated, At, Goto, queue, commands, descriptors,
       loopLocals, TerminationAnnounced, TypeOK, UserCode, Threads, Starts
  <1>18. CASE EventsDone
    BY <1>a, <1>18
    DEF EventsDone, At, Goto, queue, commands, descriptors, loopLocals,
       TerminationAnnounced, TypeOK, UserCode, Threads, Starts
  <1> QED
    BY <1>1, <1>2, <1>3, <1>4, <1>5, <1>6, <1>7, <1>8, <1>9, <1>10,
       <1>11, <1>12, <1>13, <1>14, <1>15, <1>16, <1>17, <1>18
    DEF Next, LoopStep

\* The constructor establishes IInv.
LEMMA InitIInv == Init => IInv
  <1> SUFFICES ASSUME Init PROVE IInv
    OBVIOUS
  <1>1. /\ SomeWatcher \in Watchers
        /\ kMaxFunctionSize \in Nat /\ PipeSize \in Nat /\ kMaxFdWatcherSize \in Nat
        /\ Nobody \notin Threads
    BY SomeWatcherTyped, MainLoopAssumption
  <1>2. Cardinality({}) = 0
    BY FS_EmptySet
  <1>3. TypeOK
    <2>1. mFunctions \in 0 .. kMaxFunctionSize /\ pipe \in Seq(LoopCommands)
      BY <1>1 DEF Init
    <2>2. Len(pipe) <= PipeSize /\ Cardinality(mFdWatchers) <= kMaxFdWatcherSize
      BY <1>1, <1>2 DEF Init
    <2>3. pc \in [Threads -> Labels] /\ \A t \in Threads : functionLock = t <=> pc[t] = "posted"
      BY <1>1 DEF Init, Labels, Starts, UserCode
    <2> QED BY <1>1, <2>1, <2>2, <2>3 DEF Init, TypeOK, UserCode
  <1> QED BY <1>3 DEF Init, IInv, FunctionsAnnounced, TerminationAnnounced

\* Every step preserves IInv.
LEMMA NextIInv == IInv /\ [Next]_vars => IInv'
  <1> SUFFICES ASSUME IInv, [Next]_vars PROVE IInv'
    OBVIOUS
  <1>1. CASE Next
    BY <1>1, Typed, Functions, Termination DEF IInv
  <1>2. CASE UNCHANGED vars
    BY <1>2 DEF vars, queue, commands, descriptors, loopLocals, IInv, TypeOK,
       FunctionsAnnounced, PastFunctions, TerminationAnnounced
  <1> QED BY <1>1, <1>2

\* The inductive invariant holds in every state of MainLoop.
THEOREM Inductive == Spec => []IInv
  BY InitIInv, NextIInv, PTL DEF Spec

\* The queue and the pipe keep to their capacities whoever writes them, and
\* mFunctionLock is held exactly from a post()'s put to its wakeup.
THEOREM TypeCorrect == Spec => []TypeOK
  <1>1. IInv => TypeOK
    BY DEF IInv
  <1> QED BY <1>1, Inductive, PTL

\* The wakeup of post() is enough: the loop does not block next to a function.
THEOREM FunctionsNoticed == Spec => []NoForgottenFunction
  <1>1. IInv => NoForgottenFunction
    BY DEF IInv, FunctionsAnnounced, PastFunctions, NoForgottenFunction, At
  <1> QED BY <1>1, Inductive, PTL

\* The flag and the command of terminate() together are enough: the loop does
\* not block after its termination, even if the pipe was full.
THEOREM TerminationSeen == Spec => []TerminationIsNoticed
  <1>1. IInv => TerminationIsNoticed
    BY DEF IInv, TerminationAnnounced, TerminationIsNoticed, At
  <1> QED BY <1>1, Inductive, PTL
===============================================================================
