----------------------------- MODULE TimerThread -----------------------------
(***************************************************************************)
(* common/TimerThread.{h,cpp}: a timer with a thread of its own.  Its      *)
(* handler is called with mLock held and, as Timer.h demands, does not     *)
(* start or stop its own timer; it may set its interval and repeat mode.   *)
(***************************************************************************)
EXTENDS Integers, WorkerCalls

CONSTANTS
  Controllers, \* the callers of start(), restart() and stop()
  Intervals,  \* the milliseconds that callers ask for
  IntMax,     \* INT_MAX
  MaxTime,    \* bound on the clock
  MaxCalls    \* bound on the calls that change its times

ASSUME TimeAssumption ==
  /\ Controllers \subseteq Callers
  /\ IntMax \in Nat \ {0}
  /\ Intervals \subseteq 0 .. 2 * IntMax + 1
  /\ MaxTime \in Nat \ {0}
  /\ MaxCalls \in Nat

VARIABLES
  mRepeat, mStartTime, mIntervalMs,
  mHandler,    \* it is not nullptr
  mLock,       \* its owner
  now,         \* SysTime::getTickCountMs()
  timeoutMs,   \* the local variable of run(): how long to sleep
  wakeAt,      \* when the msleep() in progress times out
  keepGoing,   \* the local variable of run()
  due,         \* history: the earliest time for the next call
  lastCall,    \* history: the time of the last call
  calls        \* the calls that change its times so far

config == <<mRepeat, mStartTime, mIntervalMs, mHandler>>
runVars == <<timeoutMs, wakeAt, keepGoing, lastCall>>
timerVars == <<config, mLock, now, runVars, due, calls>>

TimerInit ==
  /\ CallInit
  /\ mRepeat = FALSE
  /\ mStartTime = 0
  /\ mIntervalMs = 0
  /\ mHandler = FALSE
  /\ mLock = NoThread
  /\ now = 1
  /\ timeoutMs = 0
  /\ wakeAt = 0
  /\ keepGoing = FALSE
  /\ due = 0
  /\ lastCall = 0
  /\ calls = 0

\* The conversion from uint32_t to int.
ToInt(msec) == IF msec <= IntMax THEN msec ELSE msec - 2 * (IntMax + 1)

LesserOf(a, b) == IF a <= b THEN a ELSE b

\* A wait that begins now, or later, does not end before.
Earliest(start, interval) == LesserOf(start + interval, now + IntMax)

Tick ==
  /\ now < MaxTime
  /\ now' = now + 1
  /\ UNCHANGED <<callVars, config, mLock, runVars, due, calls>>

-------------------------------------------------------------------------------
(* Callers *)

CountCall == calls < MaxCalls /\ calls' = calls + 1

InvokeTimer(t) ==
  /\ CountCall
  /\ \/ \E msec \in Intervals, repeat \in BOOLEAN :
          Invoke(t, [name |-> "start", msec |-> msec, repeat |-> repeat], "stop")
     \/ Invoke(t, [name |-> "restart"], "stop")
     \/ Invoke(t, [name |-> "stop"], "stop")
  /\ UNCHANGED <<lifeVars, config, mLock, now, runVars, due>>

\* mThread.stop(), the first thing in all three of them.
StopTimer(t) ==
  /\ StopStep(t, IF op[t].name = "stop" THEN "return" ELSE "configure")
  /\ UNCHANGED timerVars

Configure(t) ==
  /\ pc[t] = "configure"
  /\ mLock = NoThread
  /\ mStartTime' = now
  /\ IF op[t].name = "start"
       THEN mRepeat' = op[t].repeat /\ mIntervalMs' = ToInt(op[t].msec)
       ELSE UNCHANGED <<mRepeat, mIntervalMs>>
  /\ LET next == Earliest(now, mIntervalMs') IN
     due' = IF body = "running" THEN LesserOf(due, next) ELSE next
  /\ Goto(t, "start")
  /\ UNCHANGED <<lifeVars, op, mHandler, mLock, now, runVars, calls>>

StartTimer(t) == StartStep(t, "return") /\ UNCHANGED timerVars

ReturnTimer(t) ==
  /\ pc[t] = "return"
  /\ Return(t)
  /\ UNCHANGED <<lifeVars, timerVars>>

\* setInterval(), setRepeat() and setHandler() wait for mLock.
MayLock(t) ==
  \/ t \in Callers /\ pc[t] = "idle" /\ mLock = NoThread
  \/ t = Worker /\ mLock = Worker

setInterval(t, msec) ==
  /\ MayLock(t) /\ CountCall
  /\ mIntervalMs' = ToInt(msec)
  /\ due' = LesserOf(due, Earliest(mStartTime, mIntervalMs'))
  /\ UNCHANGED <<callVars, mRepeat, mStartTime, mHandler, mLock, now, runVars>>

setRepeat(t, repeat) ==
  /\ MayLock(t)
  /\ mRepeat' = repeat
  /\ UNCHANGED <<callVars, mStartTime, mIntervalMs, mHandler, mLock, now,
                 runVars, due, calls>>

setHandler(t, handler) ==
  /\ MayLock(t)
  /\ mHandler' = handler
  /\ UNCHANGED <<callVars, mRepeat, mStartTime, mIntervalMs, mLock, now,
                 runVars, due, calls>>

-------------------------------------------------------------------------------
(* run() *)

RunTimer ==
  /\ RunBegins
  /\ Goto(Worker, "loop")
  /\ UNCHANGED <<op, timerVars>>

TestLoop ==
  /\ pc[Worker] = "loop"
  /\ Goto(Worker, IF shouldRun THEN "compute" ELSE "end")
  /\ UNCHANGED <<lifeVars, op, timerVars>>

\* Mutant of ComputeWait: an expiry that has passed is not waited for at all.
ComputeNoMinimum ==
  /\ pc[Worker] = "compute"
  /\ mLock = NoThread
  /\ LET remainMs == mStartTime + mIntervalMs - now IN
     timeoutMs' = IF remainMs <= 0 THEN 0 ELSE LesserOf(remainMs, IntMax)
  /\ Goto(Worker, "msleep")
  /\ UNCHANGED <<lifeVars, op, config, mLock, now, wakeAt, keepGoing, due, lastCall, calls>>

ComputeWait ==
  /\ pc[Worker] = "compute"
  /\ mLock = NoThread
  /\ LET remainMs == mStartTime + mIntervalMs - now IN
     timeoutMs' = IF remainMs <= 0 THEN 1 ELSE LesserOf(remainMs, IntMax)
  /\ Goto(Worker, "msleep")
  /\ UNCHANGED <<lifeVars, op, config, mLock, now, wakeAt, keepGoing, due, lastCall, calls>>

Msleep ==
  /\ pc[Worker] = "msleep"
  /\ wakeAt' = now + timeoutMs
  /\ timeoutMs' = 0
  /\ Goto(Worker, "sleep")
  /\ UNCHANGED <<lifeVars, op, config, mLock, now, keepGoing, due, lastCall, calls>>

\* msleep() returns: it timed out, or a stop was requested.
Wake ==
  /\ pc[Worker] = "sleep"
  /\ now >= wakeAt \/ ~shouldRun
  /\ wakeAt' = 0
  /\ Goto(Worker, "expired")
  /\ UNCHANGED <<lifeVars, op, config, mLock, now, timeoutMs, keepGoing, due, lastCall, calls>>

Stopped ==
  /\ pc[Worker] = "expired"
  /\ mLock = NoThread
  /\ ~shouldRun
  /\ Goto(Worker, "end")
  /\ UNCHANGED <<lifeVars, op, timerVars>>

\* The end of an iteration that may be followed by another.
Rearm(again) ==
  IF again
    THEN /\ mStartTime' = mStartTime + mIntervalMs
         /\ due' = Earliest(mStartTime', mIntervalMs)
         /\ Goto(Worker, "loop")
    ELSE Goto(Worker, "end") /\ UNCHANGED <<mStartTime, due>>

ExpireUnhandled ==
  /\ pc[Worker] = "expired"
  /\ mLock = NoThread
  /\ shouldRun
  /\ ~mHandler
  /\ Rearm(mRepeat)
  /\ UNCHANGED <<lifeVars, op, mRepeat, mIntervalMs, mHandler, mLock, now, runVars, calls>>

\* onTimerExpired() is entered.
CallHandler ==
  /\ pc[Worker] = "expired"
  /\ mLock = NoThread
  /\ shouldRun
  /\ mHandler
  /\ mLock' = Worker
  /\ keepGoing' = mRepeat
  /\ lastCall' = now
  /\ Goto(Worker, "handler")
  /\ UNCHANGED <<lifeVars, op, config, now, timeoutMs, wakeAt, due, calls>>

HandlerReturns(result) ==
  /\ pc[Worker] = "handler"
  /\ mLock' = NoThread
  /\ keepGoing' = FALSE
  /\ Rearm(keepGoing /\ result)
  /\ UNCHANGED <<lifeVars, op, mRepeat, mIntervalMs, mHandler, now, timeoutMs,
                 wakeAt, lastCall, calls>>

EndRun ==
  /\ pc[Worker] = "end"
  /\ RunReturns
  /\ Goto(Worker, "none")
  /\ UNCHANGED <<op, timerVars>>

TimerThreadExits == Exit /\ UNCHANGED <<pc, op, timerVars>>

RunStep ==
  \/ RunTimer \/ TestLoop \/ ComputeWait \/ Msleep \/ Wake
  \/ Stopped \/ ExpireUnhandled \/ CallHandler
  \/ \E result \in BOOLEAN : HandlerReturns(result)
  \/ EndRun \/ TimerThreadExits

TimerNext ==
  \/ Tick
  \/ \E t \in Controllers :
       \/ InvokeTimer(t) \/ StopTimer(t) \/ Configure(t)
       \/ StartTimer(t) \/ ReturnTimer(t)
  \/ \E t \in Callers, handler \in BOOLEAN : setHandler(t, handler)
  \/ \E t \in Threads :
       \/ \E msec \in Intervals : setInterval(t, msec)
       \/ \E repeat \in BOOLEAN : setRepeat(t, repeat)
  \/ RunStep

TimerSpec == TimerInit /\ [][TimerNext]_<<callVars, timerVars>>

-------------------------------------------------------------------------------
(* Properties *)

TimerTypeOK ==
  /\ CallTypeOK
  /\ {mRepeat, mHandler, keepGoing} \subseteq BOOLEAN
  /\ mIntervalMs \in {ToInt(msec) : msec \in Intervals \cup {0}}
  /\ mStartTime \in Int /\ due \in Int
  /\ mLock \in {NoThread, Worker}
  /\ timeoutMs \in 0 .. IntMax
  /\ wakeAt \in 0 .. MaxTime + IntMax
  /\ now \in 1 .. MaxTime /\ lastCall \in 0 .. now
  /\ calls \in 0 .. MaxCalls

\* A call comes no earlier than some interval in force since the timer was
\* armed has passed since its start time (or INT_MAX milliseconds have), at
\* least a tick after the call before, and the handler is not taken back or
\* the thread joined before it returns.  A start() or restart() that comes
\* between the stop and the start of another one arms nothing: the sleep in
\* progress is not recomputed.
CallsOnTime ==
  [][/\ pc[Worker] # "handler" /\ pc'[Worker] = "handler"
          => now >= due /\ now > lastCall
     /\ pc[Worker] = "handler"
          => mHandler' /\ mState' \in {"Running", "Stopping"}
    ]_<<callVars, timerVars>>
===============================================================================
