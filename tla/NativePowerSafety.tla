-------------------------- MODULE NativePowerSafety --------------------------
(***************************************************************************)
(* What NativePowerProofs' types leave to show: the display lock is always *)
(* owed; standby is always somebody's request; one sleeping thread misses   *)
(* no signal and sleeps in whole cycles; a client's lock keeps the device on. *)
(***************************************************************************)
EXTENDS NativePowerProofs

-----------------------------------------------------------------------------
(* The display lock *)

LEMMA OwedStep ==
  ASSUME TypeOK, BusInv, DisplayLockOwed, "lock" \notin Faults, [Next]_vars
  PROVE  DisplayLockOwed'
<1>1. ASSUME NEW t \in Sleepers, GoToSleep(t) PROVE DisplayLockOwed'
  <2>1. CASE CheckWakeLocks(t)
    BY <2>1 DEF TypeOK, DisplayLockOwed, CheckWakeLocks, At, Goto, Threads, Sleepers, suspend, kernel
  <2>2. CASE MarkAsleep(t)
    BY <2>2 DEF TypeOK, DisplayLockOwed, MarkAsleep, At, Goto, Threads, Sleepers, suspend, kernel
  <2>3. CASE ReleaseDisplay(t)
    <3>1. pc'[t] = "request"  BY <2>3 DEF TypeOK, ReleaseDisplay, Goto, Threads
    <3> QED  BY <3>1 DEF DisplayLockOwed
  <2>4. CASE SetState(t)  BY <2>4 DEF DisplayLockOwed, SetState
  <2>5. CASE WaitResume(t)
    BY <2>5 DEF TypeOK, DisplayLockOwed, WaitResume, At, Goto, Threads, Sleepers, kernel
  <2> QED  BY <1>1, <2>1, <2>2, <2>3, <2>4, <2>5 DEF GoToSleep
<1>2. CASE SuspendThread
  <2>1. CASE AwaitRequest
    BY <2>1 DEF TypeOK, DisplayLockOwed, AwaitRequest, At, Goto, Threads, Sleepers, kernel
  <2>2. CASE WriteMem
    BY <2>2 DEF TypeOK, DisplayLockOwed, WriteMem, At, Goto, Threads, Sleepers, suspend
  <2>3. CASE EndStandby
    BY <2>3 DEF TypeOK, DisplayLockOwed, EndStandby, Goto, Threads
  <2>4. CASE WriteOn
    BY <2>4 DEF TypeOK, DisplayLockOwed, WriteOn, Goto, Threads
  <2>5. CASE CallbackAwake
    BY <2>5 DEF TypeOK, DisplayLockOwed, CallbackAwake, Goto, Threads
  <2>6. CASE CallbackLock
    BY <2>6 DEF DisplayLockOwed, CallbackLock
  <2>7. CASE CallbackInvalidate
    BY <2>7 DEF TypeOK, DisplayLockOwed, CallbackInvalidate, At, Goto, Threads, Sleepers, suspend, kernel
  <2> QED  BY <1>2, <2>1, <2>2, <2>3, <2>4, <2>5, <2>6, <2>7 DEF SuspendThread
<1>3. CASE MainThread
  <2>1. CASE ResetActivityTime \/ TestActivityTime \/ ExpireActivityTime
    BY <2>1 DEF TypeOK, DisplayLockOwed, ResetActivityTime, TestActivityTime, ExpireActivityTime,
      At, Goto, Threads, Sleepers, suspend, kernel
  <2> QED  BY <1>1, <1>3, <2>1 DEF MainThread, Sleepers
<1>4. CASE KeyThread
  <2>1. CASE ReadPress \/ ClearSleep \/ ReadRelease \/ KeySlept
    BY <2>1 DEF TypeOK, DisplayLockOwed, ReadPress, ClearSleep, ReadRelease, KeySlept,
      At, Goto, Threads, Sleepers, suspend, kernel
  <2> QED  BY <1>1, <1>4, <2>1 DEF KeyThread, Sleepers
<1>5. CASE DbusThread
  <2>1. CASE ServeAcquire \/ ServeUserActivity \/ ServeSetAwakeTimeout \/ ServeShutdown
    BY <2>1 DEF DisplayLockOwed, ServeAcquire, ServeUserActivity, ServeSetAwakeTimeout,
      ServeShutdown, suspend, kernel
  <2>2. CASE ServeRelease
    <3>1. LockOf(Head(queue).from) # Display
      BY <2>2, ReplyType, ClientAssumption DEF ServeRelease, Serving, Message
    <3> QED  BY <2>2, <3>1 DEF DisplayLockOwed, ServeRelease, suspend
  <2>3. CASE ServeGoToSleep \/ ReplyGoToSleep
    BY <2>3 DEF TypeOK, DisplayLockOwed, ServeGoToSleep, ReplyGoToSleep, Serving, At, Goto,
      Threads, Sleepers, suspend, kernel
  <2> QED  BY <1>1, <1>5, <2>1, <2>2, <2>3 DEF DbusThread, Sleepers
<1>6. CASE Environment \/ UNCHANGED vars \/ \E c \in Clients : GiveUp(c) \/ \E call \in Calls : Call(c, call)
  BY <1>6 DEF DisplayLockOwed, Environment, EnterStandby, LeaveStandby, SpuriousWakeup, PowerKey,
    TimePasses, GiveUp, Call, vars, suspend, kernel
<1> QED  BY <1>2, <1>3, <1>4, <1>5, <1>6 DEF Next

(* If taking a wake lock does not fail, the display lock that goToSleep drops *)
(* is always going to be taken back by wakeup_callback, however many threads  *)
(* sleep, wake and time out at once: it is never just forgotten.              *)
THEOREM DisplayLockIsOwed == ASSUME "lock" \notin Faults PROVE Spec => []DisplayLockOwed
<1>1. Init => DisplayLockOwed  BY DEF Init, DisplayLockOwed
<1>2. TypeOK /\ BusInv /\ DisplayLockOwed /\ [Next]_vars => DisplayLockOwed'  BY OwedStep
<1> QED  BY <1>1, <1>2, TypeCorrect, PTL DEF Spec

-----------------------------------------------------------------------------
(* Standby, with any number of sleeping threads *)

(* The suspend thread serves a request that is still pending, and the kernel *)
(* is asked for "mem" only between its two writes.                           *)
StandbyInv ==
  /\ RequestInv
  /\ request = "mem" => pc["suspend"] \in {"standby", "on"}
  /\ power = "standby" => request = "mem"

LEMMA StandbyStep ==
  ASSUME TypeOK, StandbyInv, [Next]_vars
  PROVE  StandbyInv'
<1> USE DEF StandbyInv, RequestInv
<1>1. ASSUME NEW t \in Sleepers, GoToSleep(t) PROVE StandbyInv'
  <2>1. CASE CheckWakeLocks(t) \/ MarkAsleep(t) \/ ReleaseDisplay(t)
    BY <2>1 DEF TypeOK, CheckWakeLocks, MarkAsleep, ReleaseDisplay, At, Goto, Threads, Sleepers,
      suspend, kernel
  <2>2. CASE SetState(t)
    <3>1. pc'[t] = "resume" /\ pc'["suspend"] = pc["suspend"]
      BY <2>2 DEF TypeOK, SetState, Goto, Threads, Sleepers
    <3> QED  BY <2>2, <3>1 DEF SetState, kernel
  <2>3. CASE WaitResume(t)
    BY <2>3 DEF TypeOK, WaitResume, At, Goto, Threads, Sleepers, kernel
  <2> QED  BY <1>1, <2>1, <2>2, <2>3 DEF GoToSleep
<1>2. CASE SuspendThread
  <2>1. \A t \in Sleepers : pc'[t] = pc[t]
    BY <1>2 DEF TypeOK, SuspendThread, AwaitRequest, WriteMem, EndStandby, WriteOn, CallbackAwake,
      CallbackLock, CallbackInvalidate, Goto, Threads, Sleepers
  <2>2. power = "on" /\ power' = "on"
    BY <1>2 DEF SuspendThread, AwaitRequest, WriteMem, EndStandby, WriteOn, CallbackAwake,
      CallbackLock, CallbackInvalidate, At, kernel
  <2>3. CASE AwaitRequest
    BY <2>1, <2>2, <2>3 DEF TypeOK, AwaitRequest, At, Goto, Threads, kernel
  <2>4. CASE WriteMem
    BY <2>1, <2>2, <2>4 DEF TypeOK, WriteMem, At, Goto, Threads, suspend
  <2>5. CASE EndStandby
    BY <2>1, <2>2, <2>5 DEF TypeOK, EndStandby, Goto, Threads, kernel
  <2>6. CASE WriteOn
    BY <2>1, <2>2, <2>6 DEF TypeOK, WriteOn, Goto, Threads, suspend
  <2>7. CASE CallbackAwake \/ CallbackLock \/ CallbackInvalidate
    BY <2>1, <2>2, <2>7 DEF TypeOK, CallbackAwake, CallbackLock, CallbackInvalidate, At, Goto,
      Threads, suspend, kernel
  <2> QED  BY <1>2, <2>3, <2>4, <2>5, <2>6, <2>7 DEF SuspendThread
<1>3. CASE MainThread
  <2>1. CASE ResetActivityTime \/ TestActivityTime \/ ExpireActivityTime
    BY <2>1 DEF TypeOK, ResetActivityTime, TestActivityTime, ExpireActivityTime,
      At, Goto, Threads, Sleepers, suspend, kernel
  <2> QED  BY <1>1, <1>3, <2>1 DEF MainThread, Sleepers
<1>4. CASE KeyThread
  <2>1. CASE ReadPress \/ ClearSleep \/ ReadRelease \/ KeySlept
    BY <2>1 DEF TypeOK, ReadPress, ClearSleep, ReadRelease, KeySlept,
      At, Goto, Threads, Sleepers, suspend, kernel
  <2> QED  BY <1>1, <1>4, <2>1 DEF KeyThread, Sleepers
<1>5. CASE DbusThread
  <2>1. CASE ServeAcquire \/ ServeRelease \/ ServeUserActivity \/ ServeSetAwakeTimeout \/ ServeShutdown
    BY <2>1 DEF ServeAcquire, ServeRelease, ServeUserActivity, ServeSetAwakeTimeout,
      ServeShutdown, suspend, kernel
  <2>2. CASE ServeGoToSleep \/ ReplyGoToSleep
    BY <2>2 DEF TypeOK, ServeGoToSleep, ReplyGoToSleep, Serving, At, Goto,
      Threads, Sleepers, suspend, kernel
  <2> QED  BY <1>1, <1>5, <2>1, <2>2 DEF DbusThread, Sleepers
<1>6. CASE Environment \/ UNCHANGED vars \/ \E c \in Clients : GiveUp(c) \/ \E call \in Calls : Call(c, call)
  BY <1>6 DEF Environment, EnterStandby, LeaveStandby, SpuriousWakeup, PowerKey,
    TimePasses, GiveUp, Call, vars, suspend, kernel
<1> QED  BY <1>2, <1>3, <1>4, <1>5, <1>6 DEF Next

(* The daemon never sends the device to standby on its own: for any number of  *)
(* sleeping threads, spurious wake-ups and failing accesses to /sys/power, the *)
(* standby belongs to a thread in goToSleep, or is about to be withdrawn.      *)
THEOREM StandbyRequested == Spec => []StandbyIsRequested
<1>1. Init => StandbyInv  BY DEF Init, StandbyInv, RequestInv, Threads, Sleepers
<1>2. TypeOK /\ StandbyInv /\ [Next]_vars => StandbyInv'  BY StandbyStep
<1>3. StandbyInv => StandbyIsRequested  BY DEF StandbyInv, RequestInv, StandbyIsRequested
<1> QED  BY <1>1, <1>2, <1>3, TypeCorrect, PTL DEF Spec

-----------------------------------------------------------------------------
(* One sleeping thread *)

SoleSleeper == \E s \in Sleepers : SleepingThreads = {s}

(* Only the sleeping thread takes steps of goToSleep; the rest are idle. *)
LEMMA AwakeStep ==
  ASSUME TypeOK, BusInv, AwakeInv, [Next]_vars
  PROVE  AwakeInv'
<1>1. ASSUME NEW t \in Sleepers, GoToSleep(t) PROVE AwakeInv'
  <2>1. t \in SleepingThreads
    BY <1>1 DEF AwakeInv, GoToSleep, CheckWakeLocks, MarkAsleep, ReleaseDisplay, SetState, WaitResume,
      At, SleepSteps
  <2>2. \A u \in Threads : u # t => pc'[u] = pc[u]
    BY <1>1 DEF TypeOK, GoToSleep, CheckWakeLocks, MarkAsleep, ReleaseDisplay, SetState, WaitResume, Goto
  <2>3. keep' = keep
    BY <1>1 DEF GoToSleep, CheckWakeLocks, MarkAsleep, ReleaseDisplay, SetState, WaitResume, timer
  <2> QED  BY <2>1, <2>2, <2>3 DEF AwakeInv, Threads, Sleepers
<1>2. CASE SuspendThread
  <2>1. keep' = keep /\ \A u \in Sleepers : pc'[u] = pc[u]
    BY <1>2 DEF TypeOK, SuspendThread, AwaitRequest, WriteMem, EndStandby, WriteOn, CallbackAwake,
      CallbackLock, CallbackInvalidate, Goto, timer, Threads, Sleepers
  <2> QED  BY <2>1 DEF AwakeInv, Sleepers
<1>3. CASE MainThread
  <2>1. CASE ResetActivityTime \/ TestActivityTime \/ ExpireActivityTime
    <3>1. "main" \in SleepingThreads
      BY <2>1 DEF AwakeInv, ResetActivityTime, TestActivityTime, ExpireActivityTime, At
    <3>2. keep' = keep /\ \A u \in Sleepers : u # "main" => pc'[u] = pc[u]
      BY <2>1 DEF TypeOK, ResetActivityTime, TestActivityTime, ExpireActivityTime, Goto, timer, Threads
    <3> QED  BY <3>1, <3>2 DEF AwakeInv
  <2> QED  BY <1>1, <1>3, <2>1 DEF MainThread, Sleepers
<1>4. CASE KeyThread
  <2>1. CASE ReadPress \/ ReadRelease
    <3>1. keys # <<>> /\ keys \in Seq({"press", "release"})  BY <2>1 DEF ReadPress, ReadRelease, TypeOK
    <3>2. MaxKeys > 0  BY <3>1, BoundAssumption DEF TypeOK
    <3>3. "key" \in SleepingThreads  BY <3>2 DEF SleepingThreads
    <3>4. keep' = keep /\ \A u \in Sleepers : u # "key" => pc'[u] = pc[u]
      BY <2>1 DEF TypeOK, ReadPress, ReadRelease, Goto, timer, Threads
    <3> QED  BY <3>3, <3>4 DEF AwakeInv, Sleepers
  <2>2. CASE ClearSleep \/ KeySlept
    BY <2>2 DEF TypeOK, AwakeInv, ClearSleep, KeySlept, Goto, timer, Threads, Sleepers, SleepSteps
  <2> QED  BY <1>1, <1>4, <2>1, <2>2 DEF KeyThread, Sleepers
<1>5. CASE DbusThread
  <2>1. CASE ServeAcquire \/ ServeRelease \/ ServeUserActivity \/ ServeShutdown
    BY <2>1 DEF AwakeInv, ServeAcquire, ServeRelease, ServeUserActivity, ServeShutdown, timer
  <2>2. CASE ServeSetAwakeTimeout
    <3>1. PICK call \in DOMAIN TimeoutOf : Serving(call) /\ keep' = TimeoutOf[call]
      BY <2>2 DEF ServeSetAwakeTimeout
    <3>2. Head(queue) \in Message  BY <3>1, TailType DEF Serving, TypeOK
    <3>3. call \in Calls  BY <3>1, <3>2 DEF Serving, Message
    <3>4. keep' = -1 \/ "main" \in SleepingThreads
      BY <3>1, <3>3 DEF TimeoutOf, SleepingThreads
    <3> QED  BY <2>2, <3>4 DEF AwakeInv, ServeSetAwakeTimeout
  <2>3. CASE ServeGoToSleep
    <3>1. Head(queue) \in Message  BY <2>3, TailType DEF ServeGoToSleep, Serving, TypeOK
    <3>2. "dbus" \in SleepingThreads  BY <2>3, <3>1 DEF ServeGoToSleep, Serving, Message, SleepingThreads
    <3> QED  BY <2>3, <3>2 DEF TypeOK, AwakeInv, ServeGoToSleep, Goto, timer, Threads, Sleepers
  <2>4. CASE ReplyGoToSleep
    BY <2>4 DEF TypeOK, AwakeInv, ReplyGoToSleep, Goto, timer, Threads, Sleepers, SleepSteps
  <2> QED  BY <1>1, <1>5, <2>1, <2>2, <2>3, <2>4 DEF DbusThread, Sleepers
<1>6. CASE Environment \/ UNCHANGED vars \/ \E c \in Clients : GiveUp(c) \/ \E call \in Calls : Call(c, call)
  BY <1>6 DEF AwakeInv, Environment, EnterStandby, LeaveStandby, SpuriousWakeup, PowerKey,
    TimePasses, GiveUp, Call, vars, timer
<1> QED  BY <1>2, <1>3, <1>4, <1>5, <1>6 DEF Next

SignalInv == ThreadInv /\ RequestInv /\ NoMissedSignal

(* A step that is not about the condition disturbs none of this. *)
LEMMA QuietStep ==
  ASSUME TypeOK, SignalInv, state' = state, waiters' \subseteq waiters,
         pc'["suspend"] = pc["suspend"],
         \A t \in Sleepers : pc'[t] \notin SuspendSteps /\ (pc'[t] = "resume" <=> pc[t] = "resume")
  PROVE  SignalInv'
BY DEF TypeOK, SignalInv, ThreadInv, RequestInv, NoMissedSignal, Threads

(* A step of another thread of the daemon: it moves only its own pc, not into *)
(* or out of the wait for the resume.                                         *)
LEMMA QuietThread ==
  ASSUME TypeOK, SignalInv, NEW t \in Sleepers, NEW l, UNCHANGED suspend,
         pc' = pc \/ pc' = [pc EXCEPT ![t] = l],
         l \notin SuspendSteps, l # "resume", pc' # pc => pc[t] # "resume"
  PROVE  SignalInv'
<1>1. pc'["suspend"] = pc["suspend"]  BY DEF TypeOK, Threads, Sleepers
<1>2. \A u \in Sleepers : pc'[u] \notin SuspendSteps /\ (pc'[u] = "resume" <=> pc[u] = "resume")
  BY DEF TypeOK, SignalInv, ThreadInv, Threads
<1> QED  BY <1>1, <1>2, QuietStep DEF suspend

LEMMA SleepStep ==
  ASSUME SoleSleeper, TypeOK, BusInv, AwakeInv, SignalInv, NEW t \in Sleepers, GoToSleep(t)
  PROVE  SignalInv'
<1>1. \A u \in Sleepers : u # t => pc[u] # "resume"
  BY DEF SoleSleeper, AwakeInv, SleepSteps, GoToSleep, CheckWakeLocks, MarkAsleep, ReleaseDisplay,
    SetState, WaitResume, At
<1>2. CASE CheckWakeLocks(t)
  BY <1>2, QuietThread DEF CheckWakeLocks, At, Goto, SuspendSteps
<1>3. CASE MarkAsleep(t)
  BY <1>3, QuietThread DEF MarkAsleep, At, Goto, SuspendSteps
<1>4. CASE ReleaseDisplay(t)
  BY <1>4, QuietThread DEF ReleaseDisplay, At, Goto, SuspendSteps
<1>5. CASE SetState(t)
  <2>1. pc[t] = "request" /\ state = "ON"
    BY <1>1, <1>5 DEF SetState, At, SignalInv, RequestInv, TypeOK
  <2>2. waiters \subseteq {"suspend"}
    BY <1>1, <2>1 DEF SignalInv, ThreadInv, TypeOK, Threads
  <2>3. waiters' = {}  BY <1>5, <2>2 DEF SetState, Signal
  <2>4. pc'[t] = "resume" /\ \A u \in Threads : u # t => pc'[u] = pc[u]
    BY <1>5 DEF SetState, Goto, TypeOK, Threads
  <2> QED  BY <1>5, <2>3, <2>4 DEF SetState, SignalInv, ThreadInv, RequestInv, NoMissedSignal,
             SuspendSteps, Threads, Sleepers
<1>6. CASE WaitResume(t)
  <2>1. CASE state = "MEM"
    BY <1>6, <2>1 DEF WaitResume, At, SignalInv, ThreadInv, RequestInv, NoMissedSignal, Threads, Sleepers
  <2>2. CASE state = "ON"
    <3>1. pc[t] = "resume" /\ t \notin waiters /\ state' = "ON" /\ waiters' = waiters
      BY <1>6, <2>2 DEF WaitResume, At
    <3>2. pc'[t] \in {"idle", "slept"} /\ \A u \in Threads : u # t => pc'[u] = pc[u]
      BY <1>6, <2>2 DEF WaitResume, Goto, TypeOK, Threads
    <3> QED  BY <2>2, <3>1, <3>2 DEF TypeOK, SignalInv, ThreadInv, RequestInv, NoMissedSignal,
               SuspendSteps, Threads, Sleepers
  <2> QED  BY <2>1, <2>2 DEF TypeOK
<1> QED  BY <1>2, <1>3, <1>4, <1>5, <1>6 DEF GoToSleep

LEMMA SuspendStep ==
  ASSUME SoleSleeper, TypeOK, AwakeInv, SignalInv, SuspendThread
  PROVE  SignalInv'
<1>1. \A u \in Sleepers : pc'[u] = pc[u]
  BY DEF TypeOK, SuspendThread, AwaitRequest, WriteMem, EndStandby, WriteOn, CallbackAwake,
    CallbackLock, CallbackInvalidate, Goto, Threads, Sleepers
<1>2. CASE AwaitRequest
  <2>1. CASE state = "ON"
    BY <1>2, <2>1 DEF AwaitRequest, At, SignalInv, ThreadInv, RequestInv, NoMissedSignal
  <2>2. CASE state = "MEM"
    <3>1. pc'["suspend"] = "mem" /\ waiters' = waiters /\ state' = "MEM" /\ "suspend" \notin waiters
      BY <1>2, <2>2 DEF AwaitRequest, Goto, TypeOK, Threads
    <3> QED  BY <1>1, <2>2, <3>1 DEF TypeOK, SignalInv, ThreadInv, RequestInv, NoMissedSignal,
               SuspendSteps, Threads
  <2> QED  BY <2>1, <2>2 DEF TypeOK
<1>3. CASE EndStandby
  <2>1. "suspend" \notin waiters
    BY <1>3 DEF EndStandby, At, SignalInv, ThreadInv
  <2>2. \A u, v \in waiters : u = v
    BY <2>1 DEF SignalInv, ThreadInv, AwakeInv, SoleSleeper, SleepSteps, TypeOK, Threads
  <2>3. waiters' = {}  BY <1>3, <2>2 DEF EndStandby, Signal
  <2>4. pc'["suspend"] = "on" /\ state' = "ON"  BY <1>3 DEF EndStandby, Goto, TypeOK, Threads
  <2> QED  BY <1>1, <2>3, <2>4 DEF SignalInv, ThreadInv, RequestInv, NoMissedSignal, SuspendSteps
<1>4. CASE WriteMem
  <2>1. pc["suspend"] = "mem" /\ pc'["suspend"] = "standby" /\ UNCHANGED suspend
    BY <1>4 DEF WriteMem, At, Goto, TypeOK, Threads
  <2> QED  BY <1>1, <2>1 DEF TypeOK, SignalInv, ThreadInv, RequestInv, NoMissedSignal, SuspendSteps,
             Threads, suspend
<1>5. CASE WriteOn \/ CallbackAwake \/ CallbackLock \/ CallbackInvalidate
  <2>1. /\ pc["suspend"] \in {"on", "awake", "lock", "invalidate"}
        /\ pc'["suspend"] \in {"awake", "lock", "invalidate", "top"} /\ UNCHANGED suspend
    BY <1>5 DEF WriteOn, CallbackAwake, CallbackLock, CallbackInvalidate, At, Goto, TypeOK, Threads
  <2> QED  BY <1>1, <2>1 DEF TypeOK, SignalInv, ThreadInv, RequestInv, NoMissedSignal, SuspendSteps,
             Threads, suspend
<1> QED  BY <1>2, <1>3, <1>4, <1>5 DEF SuspendThread

LEMMA SignalStep ==
  ASSUME SoleSleeper, TypeOK, BusInv, AwakeInv, SignalInv, [Next]_vars
  PROVE  SignalInv'
<1>1. CASE MainThread
  <2>1. CASE ResetActivityTime  BY <2>1, QuietThread DEF ResetActivityTime, At, Goto, Sleepers, SuspendSteps
  <2>2. CASE TestActivityTime  BY <2>2, QuietThread DEF TestActivityTime, At, Goto, Sleepers, SuspendSteps
  <2>3. CASE ExpireActivityTime  BY <2>3, QuietThread DEF ExpireActivityTime, At, Goto, Sleepers, SuspendSteps
  <2> QED  BY <1>1, <2>1, <2>2, <2>3, SleepStep DEF MainThread, Sleepers
<1>2. CASE KeyThread
  <2>1. CASE ReadPress  BY <2>1, QuietThread DEF ReadPress, At, Goto, Sleepers, SuspendSteps
  <2>2. CASE ClearSleep  BY <2>2, QuietThread DEF ClearSleep, At, Goto, Sleepers, SuspendSteps
  <2>3. CASE ReadRelease  BY <2>3, QuietThread DEF ReadRelease, At, Goto, Sleepers, SuspendSteps
  <2>4. CASE KeySlept  BY <2>4, QuietThread DEF KeySlept, At, Goto, Sleepers, SuspendSteps
  <2> QED  BY <1>2, <2>1, <2>2, <2>3, <2>4, SleepStep DEF KeyThread, Sleepers
<1>3. CASE DbusThread
  <2>1. CASE ServeGoToSleep
    BY <2>1, QuietThread DEF ServeGoToSleep, Serving, At, Goto, Sleepers, SuspendSteps
  <2>2. CASE ReplyGoToSleep
    BY <2>2, QuietThread DEF ReplyGoToSleep, At, Goto, Sleepers, SuspendSteps
  <2>3. CASE ServeAcquire \/ ServeRelease \/ ServeUserActivity \/ ServeSetAwakeTimeout \/ ServeShutdown
    <3>1. pc' = pc /\ UNCHANGED suspend
      BY <2>3 DEF ServeAcquire, ServeRelease, ServeUserActivity, ServeSetAwakeTimeout, ServeShutdown
    <3> QED  BY <3>1 DEF SignalInv, ThreadInv, RequestInv, NoMissedSignal, suspend
  <2> QED  BY <1>3, <2>1, <2>2, <2>3, SleepStep DEF DbusThread, Sleepers
<1>4. CASE Environment \/ UNCHANGED vars \/ \E c \in Clients : GiveUp(c) \/ \E call \in Calls : Call(c, call)
  <2>1. pc' = pc /\ state' = state /\ waiters' \subseteq waiters
    BY <1>4 DEF Environment, EnterStandby, LeaveStandby, SpuriousWakeup, PowerKey,
      TimePasses, GiveUp, Call, vars, suspend
  <2> QED  BY <2>1 DEF SignalInv, ThreadInv, RequestInv, NoMissedSignal
<1> QED  BY <1>1, <1>2, <1>3, <1>4, SuspendStep DEF Next

LEMMA SleepInitially == Init => SleepInv
<1> SUFFICES ASSUME Init PROVE SleepInv  OBVIOUS
<1>1. TypeOK  BY InitType
<1>2. "main" \notin SleepingThreads => keep = -1
  BY BoundAssumption DEF Init, SleepingThreads, TimeoutOf
<1>3. BusInv /\ AwakeInv
  BY <1>2 DEF Init, BusInv, AwakeInv, Threads, Sleepers, SleepSteps
<1>4. ThreadInv /\ RequestInv /\ NoMissedSignal
  BY DEF Init, ThreadInv, RequestInv, NoMissedSignal, Threads, Sleepers, SuspendSteps
<1> QED  BY <1>1, <1>3, <1>4 DEF SleepInv

(* The inductive invariant: with one thread that calls goToSleep, a request   *)
(* is pending exactly while that thread waits, and only the thread that the   *)
(* next change of state is for waits on the condition.                        *)
THEOREM SleepInvariant == ASSUME SoleSleeper PROVE Spec => []SleepInv
<1>1. SleepInv /\ [Next]_vars => SleepInv'
  BY TypeStep, BusStep, AwakeStep, SignalStep DEF SleepInv, SignalInv
<1> QED  BY <1>1, SleepInitially, PTL DEF Spec

(* With one thread that calls goToSleep, pthread_cond_signal always wakes the *)
(* thread it is meant for: nobody waits for what is already the case.         *)
THEOREM NoSignalMissed == ASSUME SoleSleeper PROVE Spec => []NoMissedSignal
<1>1. SleepInv => NoMissedSignal  BY DEF SleepInv
<1> QED  BY <1>1, SleepInvariant, PTL

LEMMA TheSleeper == ASSUME SoleSleeper PROVE Sleeper \in Sleepers /\ SleepingThreads = {Sleeper}
BY DEF SoleSleeper, Sleeper

LEMMA CycleStep ==
  ASSUME SoleSleeper, SleepInv, [Next]_vars
  PROVE  [Cycle!Next]_(Phase(Sleeper))
<1> DEFINE s == Sleeper
<1>1. s \in Sleepers /\ SleepingThreads = {s}  BY TheSleeper
<1>2. \A u \in Sleepers : u # s => pc[u] \notin SleepSteps
  BY <1>1 DEF SleepInv, AwakeInv
<1>3. state \in {"ON", "MEM"} /\ (state = "MEM" => pc[s] = "resume")
  BY <1>1, <1>2 DEF SleepInv, TypeOK, RequestInv, SleepSteps
<1>4. CASE SetState(s)
  <2>1. state' = "MEM" /\ pc'[s] = "resume" /\ pc'["suspend"] = pc["suspend"]
    BY <1>1, <1>4 DEF SetState, Goto, SleepInv, TypeOK, Threads, Sleepers
  <2>2. pc[s] = "request"  BY <1>4 DEF SetState, At
  <2>3. pc["suspend"] # "standby"  BY <1>3, <2>2 DEF SleepInv, RequestInv
  <2> QED  BY <2>1, <2>2, <2>3 DEF Phase, Cycle!Next, Cycle!Request
<1>5. CASE WriteMem
  <2>1. pc["suspend"] = "mem" /\ pc'["suspend"] = "standby" /\ state' = state /\ pc'[s] = pc[s]
    BY <1>1, <1>5 DEF WriteMem, At, Goto, SleepInv, TypeOK, Threads, Sleepers, suspend
  <2>2. state = "MEM" /\ pc[s] = "resume"  BY <1>3, <2>1 DEF SleepInv, RequestInv
  <2> QED  BY <2>1, <2>2 DEF Phase, Cycle!Next, Cycle!Enter
<1>6. CASE EndStandby
  <2>1. pc["suspend"] = "standby" /\ state' = "ON" /\ pc'[s] = pc[s]
    BY <1>1, <1>6 DEF EndStandby, At, Goto, SleepInv, TypeOK, Threads, Sleepers
  <2>2. state = "MEM" /\ pc[s] = "resume"  BY <1>3, <2>1 DEF SleepInv, RequestInv
  <2> QED  BY <2>1, <2>2 DEF Phase, Cycle!Next, Cycle!Leave
<1>7. CASE WaitResume(s)
  <2>1. CASE state = "ON"
    <3>1. pc[s] = "resume" /\ pc'[s] # "resume"
      BY <1>1, <1>7, <2>1 DEF WaitResume, At, Goto, SleepInv, TypeOK, Threads
    <3> QED  BY <2>1, <3>1 DEF Phase, Cycle!Next, Cycle!Return
  <2>2. CASE state = "MEM"
    BY <1>7, <2>2 DEF WaitResume, Phase
  <2> QED  BY <1>3, <2>1, <2>2
<1>8. CASE ~(SetState(s) \/ WriteMem \/ EndStandby \/ WaitResume(s))
  <2>1. ASSUME NEW t \in Sleepers, GoToSleep(t) PROVE UNCHANGED Phase(s)
    <3>1. t = s
      BY <1>2, <2>1 DEF GoToSleep, CheckWakeLocks, MarkAsleep, ReleaseDisplay, SetState, WaitResume,
        At, SleepSteps
    <3>2. CheckWakeLocks(s) \/ MarkAsleep(s) \/ ReleaseDisplay(s)  BY <1>8, <2>1, <3>1 DEF GoToSleep
    <3>3. pc[s] # "resume" /\ pc'[s] # "resume"
      BY <1>1, <3>2 DEF CheckWakeLocks, MarkAsleep, ReleaseDisplay, At, Goto, SleepInv, TypeOK, Threads
    <3> QED  BY <3>3 DEF Phase
  <2>2. CASE SuspendThread
    <3>1. AwaitRequest \/ WriteOn \/ CallbackAwake \/ CallbackLock \/ CallbackInvalidate
      BY <1>8, <2>2 DEF SuspendThread
    <3>2. /\ pc'[s] = pc[s] /\ state' = state
          /\ pc["suspend"] # "standby" /\ pc'["suspend"] # "standby"
      BY <1>1, <3>1 DEF AwaitRequest, WriteOn, CallbackAwake, CallbackLock, CallbackInvalidate,
        At, Goto, SleepInv, TypeOK, Threads, Sleepers, suspend
    <3> QED  BY <3>2 DEF Phase
  <2>3. ASSUME ResetActivityTime \/ TestActivityTime \/ ExpireActivityTime \/ ReadPress \/ ClearSleep
               \/ ReadRelease \/ KeySlept \/ ServeGoToSleep \/ ReplyGoToSleep
        PROVE  UNCHANGED Phase(s)
    <3>1. /\ state' = state /\ pc'["suspend"] = pc["suspend"]
          /\ pc'[s] = "resume" <=> pc[s] = "resume"
      BY <1>1, <2>3 DEF ResetActivityTime, TestActivityTime, ExpireActivityTime, ReadPress, ClearSleep,
        ReadRelease, KeySlept, ServeGoToSleep, ReplyGoToSleep, Serving, At, Goto, SleepInv, TypeOK,
        Threads, Sleepers, suspend
    <3> QED  BY <1>3, <3>1 DEF Phase
  <2>4. ASSUME \/ ServeAcquire \/ ServeRelease \/ ServeUserActivity \/ ServeSetAwakeTimeout
               \/ ServeShutdown \/ Environment \/ UNCHANGED vars
               \/ \E c \in Clients : GiveUp(c) \/ \E call \in Calls : Call(c, call)
        PROVE  UNCHANGED Phase(s)
    <3>1. pc' = pc /\ state' = state
      BY <2>4 DEF ServeAcquire, ServeRelease, ServeUserActivity, ServeSetAwakeTimeout, ServeShutdown,
        Environment, EnterStandby, LeaveStandby, SpuriousWakeup, PowerKey, TimePasses, GiveUp, Call,
        vars, suspend
    <3> QED  BY <3>1 DEF Phase
  <2> QED  BY <2>1, <2>2, <2>3, <2>4 DEF Next, MainThread, KeyThread, DbusThread, Sleepers
<1> QED  BY <1>4, <1>5, <1>6, <1>7, <1>8

(* With one thread that calls goToSleep, the daemon implements SuspendCycle:  *)
(* between the request of a goToSleep and its return the device is sent to    *)
(* standby and comes back exactly once, spurious wake-ups included.           *)
THEOREM SleepsInCycles == ASSUME SoleSleeper PROVE Spec => SleepIsOneCycle
<1>1. Init => Cycle!Init
  <2> SUFFICES ASSUME Init PROVE Phase(Sleeper) = "awake"  BY DEF Cycle!Init
  <2>1. pc[Sleeper] # "resume"  BY TheSleeper DEF Init, Threads, Sleepers
  <2> QED  BY <2>1 DEF Phase
<1>2. SleepInv /\ [Next]_vars => [Cycle!Next]_(Phase(Sleeper))  BY CycleStep
<1> QED  BY <1>1, <1>2, SleepInvariant, PTL DEF Spec, SleepIsOneCycle, Cycle!Spec

-----------------------------------------------------------------------------
(* The locks of the clients *)

LEMMA HeldFrame ==
  ASSUME HeldInv, UNCHANGED <<queue, held>>, locks' = locks, power' \in {power, "on", "off"}
  PROVE  HeldInv'
BY DEF HeldInv, LiveIsLast

(* Removing the answered call, after which c has its lock if it waited for it *)
LEMMA HeldReply ==
  ASSUME TypeOK, HeldInv, queue # <<>>, NEW ret, Reply(ret),
         power = "on", power' \in {"on", "off"},
         \A c \in held : LockOf(c) \in locks',
         Head(queue).call = "acquire" /\ ret = 0 => LockOf(Head(queue).from) \in locks'
  PROVE  HeldInv'
<1>1. queue \in Seq(Message) /\ Len(queue) \in Nat /\ Len(queue) > 0  BY DEF TypeOK
<1>2. /\ queue' \in Seq(Message) /\ DOMAIN queue' = 1..(Len(queue) - 1)
      /\ \A i \in DOMAIN queue' : i + 1 \in DOMAIN queue /\ queue'[i] = queue[i + 1]
      /\ Head(queue) = queue[1]
  BY <1>1 DEF Reply
<1>3. LiveIsLast'
  <2> SUFFICES ASSUME NEW i \in DOMAIN queue', NEW j \in DOMAIN queue', i < j,
                      queue'[i].from = queue'[j].from
               PROVE  ~queue'[i].live
    BY DEF LiveIsLast
  <2> QED  BY <1>2 DEF HeldInv, LiveIsLast
<1>4. ASSUME NEW c \in held'
      PROVE  LockOf(c) \in locks' /\ \A i \in DOMAIN queue' : queue'[i].from = c => queue'[i].call # "release"
  <2>1. CASE c \in held  BY <1>2, <2>1 DEF HeldInv
  <2>2. CASE c \notin held
    <3>1. c = queue[1].from /\ queue[1].live /\ LockOf(c) \in locks'
      BY <1>2, <1>4, <2>2 DEF Reply
    <3>2. \A i \in DOMAIN queue' : queue'[i].from # c
      BY <1>1, <1>2, <3>1 DEF HeldInv, LiveIsLast
    <3> QED  BY <3>1, <3>2
  <2> QED  BY <2>1, <2>2
<1> QED  BY <1>3, <1>4 DEF HeldInv

LEMMA HeldStep ==
  ASSUME ~SharedId, TypeOK, BusInv, HeldInv, [Next]_vars
  PROVE  HeldInv'
<1>1. CASE UNCHANGED vars  BY <1>1, HeldFrame DEF vars, bus, kernel
<1>2. ASSUME NEW t \in Sleepers, GoToSleep(t) PROVE HeldInv'
  <2>1. CASE ReleaseDisplay(t)
    BY <2>1, ClientAssumption DEF TypeOK, ReleaseDisplay, At, HeldInv, LiveIsLast, bus
  <2>2. CASE ~ReleaseDisplay(t)
    BY <1>2, <2>2, HeldFrame DEF GoToSleep, CheckWakeLocks, MarkAsleep, SetState, WaitResume, bus, kernel
  <2> QED  BY <2>1, <2>2
<1>3. CASE SuspendThread
  <2>1. CASE CallbackLock
    BY <2>1 DEF CallbackLock, At, HeldInv, LiveIsLast, bus
  <2>2. CASE ~CallbackLock
    BY <1>3, <2>2, HeldFrame DEF SuspendThread, AwaitRequest, WriteMem, EndStandby, WriteOn,
      CallbackAwake, CallbackInvalidate, bus, kernel
  <2> QED  BY <2>1, <2>2
<1>4. CASE MainThread
  BY <1>2, <1>4, HeldFrame DEF MainThread, ResetActivityTime, TestActivityTime, ExpireActivityTime,
    Sleepers, bus, kernel
<1>5. CASE KeyThread
  BY <1>2, <1>5, HeldFrame DEF KeyThread, ReadPress, ClearSleep, ReadRelease, KeySlept, Sleepers,
    bus, kernel
<1>6. CASE DbusThread
  <2>1. CASE ServeGoToSleep  BY <2>1, HeldFrame DEF ServeGoToSleep, bus, kernel
  <2>2. CASE ReplyGoToSleep
    <3>1. queue # <<>> /\ Head(queue).call # "acquire"  BY <2>2 DEF ReplyGoToSleep, BusInv, At
    <3> QED  BY <2>2, <3>1, HeldReply DEF ReplyGoToSleep, At, HeldInv, kernel
  <2>3. CASE ServeAcquire
    BY <2>3, HeldReply DEF ServeAcquire, Serving, At, HeldInv
  <2>4. CASE ServeRelease
    <3> DEFINE d == Head(queue).from
    <3>1. queue # <<>> /\ Head(queue) = queue[1] /\ 1 \in DOMAIN queue /\ Head(queue) \in Message
      BY <2>4, TailType DEF ServeRelease, Serving, TypeOK
    <3>2. d \notin held  BY <2>4, <3>1 DEF ServeRelease, Serving, HeldInv
    <3>3. \A c \in held : LockOf(c) \in locks'
      BY <2>4, <3>2 DEF ServeRelease, HeldInv, LockOf
    <3> QED  BY <2>4, <3>3, HeldReply DEF ServeRelease, Serving, At
  <2>5. CASE ServeUserActivity
    BY <2>5, HeldReply DEF ServeUserActivity, Serving, At, HeldInv, kernel
  <2>6. CASE ServeSetAwakeTimeout
    <3>1. queue # <<>> /\ Head(queue).call # "acquire" /\ power = "on" /\ UNCHANGED kernel /\ Reply(0)
      BY <2>6 DEF ServeSetAwakeTimeout, Serving, At, TimeoutOf
    <3> QED  BY <3>1, HeldReply DEF HeldInv, kernel
  <2>7. CASE ServeShutdown
    BY <2>7, HeldReply DEF ServeShutdown, Serving, At, HeldInv
  <2> QED  BY <1>2, <1>6, <2>1, <2>2, <2>3, <2>4, <2>5, <2>6, <2>7 DEF DbusThread, Sleepers
<1>7. ASSUME NEW c \in Clients, GiveUp(c) PROVE HeldInv'
  <2>1. PICK i \in DOMAIN queue : queue' = [queue EXCEPT ![i].live = FALSE]
    BY <1>7 DEF GiveUp
  <2>2. queue \in Seq(Message) /\ queue' \in Seq(Message) /\ DOMAIN queue' = DOMAIN queue
    BY <2>1, GiveUpType DEF TypeOK
  <2>3. \A j \in DOMAIN queue : /\ queue'[j].from = queue[j].from /\ queue'[j].call = queue[j].call
                                /\ queue'[j].live => queue[j].live
    BY <2>1, <2>2 DEF Message
  <2>4. LiveIsLast'  BY <2>2, <2>3 DEF HeldInv, LiveIsLast
  <2> QED  BY <1>7, <2>2, <2>3, <2>4 DEF GiveUp, HeldInv, kernel
<1>8. ASSUME NEW c \in Clients, NEW call \in Calls, Call(c, call) PROVE HeldInv'
  <2> DEFINE m == [from |-> c, call |-> call, live |-> TRUE]
  <2>1. /\ queue \in Seq(Message) /\ Len(queue) \in Nat /\ queue' = Append(queue, m)
        /\ DOMAIN queue = 1..Len(queue) /\ DOMAIN queue' = 1..(Len(queue) + 1)
        /\ \A i \in DOMAIN queue : queue'[i] = queue[i]
        /\ queue'[Len(queue) + 1] = m
    BY <1>8 DEF TypeOK, Call
  <2>2. \A i \in DOMAIN queue : queue[i].from = c => ~queue[i].live  BY <1>8 DEF Call, Waits
  <2>3. LiveIsLast'
    <3> SUFFICES ASSUME NEW i \in DOMAIN queue', NEW j \in DOMAIN queue', i < j,
                        queue'[i].from = queue'[j].from
                 PROVE  ~queue'[i].live
      BY DEF LiveIsLast
    <3>1. i \in DOMAIN queue /\ queue'[i] = queue[i]  BY <2>1
    <3>2. CASE j \in DOMAIN queue  BY <2>1, <3>1, <3>2 DEF HeldInv, LiveIsLast
    <3>3. CASE j = Len(queue) + 1  BY <2>1, <2>2, <3>1, <3>3
    <3> QED  BY <2>1, <3>2, <3>3
  <2>4. held' \subseteq held /\ (call = "release" => c \notin held')  BY <1>8 DEF Call
  <2>5. ASSUME NEW d \in held', NEW i \in DOMAIN queue', queue'[i].from = d
        PROVE  queue'[i].call # "release"
    <3>1. CASE i \in DOMAIN queue  BY <2>1, <2>4, <2>5, <3>1 DEF HeldInv
    <3>2. CASE i = Len(queue) + 1  BY <2>1, <2>4, <2>5, <3>2
    <3> QED  BY <2>1, <3>1, <3>2
  <2> QED  BY <1>8, <2>3, <2>4, <2>5 DEF Call, HeldInv, kernel
<1>9. CASE Environment
  <2>1. CASE EnterStandby  BY <2>1 DEF EnterStandby, HeldInv, LiveIsLast, bus
  <2>2. CASE ~EnterStandby
    BY <1>9, <2>2, HeldFrame DEF Environment, LeaveStandby, SpuriousWakeup, PowerKey, TimePasses,
      bus, kernel
  <2> QED  BY <2>1, <2>2
<1> QED  BY <1>1, <1>3, <1>4, <1>5, <1>6, <1>7, <1>8, <1>9 DEF Next

(* If no two clients use the same wake lock id, a client whose acquire was    *)
(* answered with 0 keeps the device out of standby until it calls release,    *)
(* whatever calls, its own included, timed out and were served late.          *)
THEOREM LockKeepsAwake == ASSUME ~SharedId PROVE Spec => []ClientLockKeepsAwake
<1>1. Init => HeldInv  BY DEF Init, HeldInv, LiveIsLast
<1>2. TypeOK /\ BusInv /\ HeldInv /\ [Next]_vars => HeldInv'  BY HeldStep
<1>3. HeldInv => ClientLockKeepsAwake  BY DEF HeldInv, ClientLockKeepsAwake
<1> QED  BY <1>1, <1>2, <1>3, TypeCorrect, PTL DEF Spec
=============================================================================
