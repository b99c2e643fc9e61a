-------------------------- MODULE NativePowerProofs --------------------------
(***************************************************************************)
(* Proofs about NativePower, for any clients, calls and bounds:             *)
(* the types; the display lock is always owed by somebody; with one thread  *)
(* that calls goToSleep no signal is missed and every sleep is one cycle of *)
(* SuspendCycle.                                                            *)
(***************************************************************************)
EXTENDS NativePower, TLAPS

-----------------------------------------------------------------------------
(* Types *)

(* What the queues keep of their type when an element is added, removed or  *)
(* marked as abandoned. *)
LEMMA AppendType ==
  ASSUME NEW S, NEW q \in Seq(S), NEW e \in S
  PROVE  Append(q, e) \in Seq(S) /\ Len(Append(q, e)) = Len(q) + 1
OBVIOUS

LEMMA TailType ==
  ASSUME NEW S, NEW q \in Seq(S), q # <<>>
  PROVE  Tail(q) \in Seq(S) /\ Len(Tail(q)) = Len(q) - 1 /\ Head(q) \in S
OBVIOUS

LEMMA GiveUpType ==
  ASSUME NEW q \in Seq(Message), NEW i \in DOMAIN q
  PROVE  LET p == [q EXCEPT ![i].live = FALSE]
         IN  p \in Seq(Message) /\ Len(p) = Len(q)
<1> DEFINE p == [q EXCEPT ![i].live = FALSE]
<1>1. \A j \in 1..Len(q) : q[j] \in Message  OBVIOUS
<1>2. q[i] \in [from : Clients, call : Calls, live : BOOLEAN]  BY <1>1 DEF Message
<1>4. [q[i] EXCEPT !.live = FALSE] \in [from : Clients, call : Calls, live : BOOLEAN]  BY <1>2, Zenon
<1>3. p \in [1..Len(q) -> Message]  BY <1>1, <1>4 DEF Message
<1> QED  BY <1>3

LEMMA InitType == Init => TypeOK
<1> SUFFICES ASSUME Init PROVE TypeOK  OBVIOUS
<1>1. pc \in [Threads -> SleepSteps \cup SuspendSteps \cup
                        {"idle", "test", "expire", "clear", "slept", "refused"}]
  BY DEF Init, SuspendSteps
<1>2. success \in BOOLEAN  BY Zenon DEF Init
<1>3. keep \in {-1, 0, 1}  BY BoundAssumption DEF Init, TimeoutOf
<1>4. keys \in Seq({"press", "release"}) /\ Len(keys) <= MaxKeys  BY BoundAssumption DEF Init
<1>5. queue \in Seq(Message) /\ Len(queue) <= MaxQueue  BY BoundAssumption DEF Init
<1>6. locks \in SUBSET Locks  BY DEF Init, Locks
<1> QED  BY <1>1, <1>2, <1>3, <1>4, <1>5, <1>6 DEF Init, TypeOK

LEMMA GoToSleepType ==
  ASSUME TypeOK, NEW t \in Sleepers, GoToSleep(t)
  PROVE  TypeOK'
<1>1. CASE CheckWakeLocks(t)
  BY <1>1 DEF TypeOK, CheckWakeLocks, Goto, SleepSteps, suspend, kernel, timer, input, bus
<1>2. CASE MarkAsleep(t)
  BY <1>2 DEF TypeOK, MarkAsleep, Goto, SleepSteps, suspend, kernel, timer, input, bus
<1>3. CASE ReleaseDisplay(t)
  <2>1. locks' \in SUBSET Locks  BY <1>3 DEF TypeOK, ReleaseDisplay
  <2> QED  BY <1>3, <2>1 DEF TypeOK, ReleaseDisplay, Goto, SleepSteps, suspend, timer, input, bus
<1>4. CASE SetState(t)
  BY <1>4 DEF TypeOK, SetState, Goto, Signal, SleepSteps, kernel, timer, input, bus
<1>5. CASE WaitResume(t)
  BY <1>5 DEF TypeOK, WaitResume, Goto, Threads, kernel, timer, input, bus
<1> QED  BY <1>1, <1>2, <1>3, <1>4, <1>5 DEF GoToSleep

LEMMA SuspendType ==
  ASSUME TypeOK, SuspendThread
  PROVE  TypeOK'
<1>1. CASE AwaitRequest
  BY <1>1 DEF TypeOK, AwaitRequest, Goto, SuspendSteps, Threads, kernel, timer, input, bus
<1>2. CASE WriteMem
  <2>1. success' \in BOOLEAN  BY <1>2, Zenon DEF TypeOK, WriteMem
  <2> QED  BY <1>2, <2>1 DEF TypeOK, WriteMem, Goto, SuspendSteps, suspend, timer, input, bus
<1>3. CASE EndStandby
  BY <1>3 DEF TypeOK, EndStandby, Goto, Signal, SuspendSteps, kernel, timer, input, bus
<1>4. CASE WriteOn
  BY <1>4 DEF TypeOK, WriteOn, Goto, SuspendSteps, suspend, timer, input, bus
<1>5. CASE CallbackAwake
  BY <1>5 DEF TypeOK, CallbackAwake, Goto, SuspendSteps, suspend, kernel, timer, input, bus
<1>6. CASE CallbackLock
  <2>1. locks' \in SUBSET Locks  BY <1>6 DEF TypeOK, CallbackLock, Locks
  <2> QED  BY <1>6, <2>1 DEF TypeOK, CallbackLock, Goto, SuspendSteps, suspend, timer, input, bus
<1>7. CASE CallbackInvalidate
  BY <1>7 DEF TypeOK, CallbackInvalidate, Goto, SuspendSteps, suspend, kernel, input, bus
<1> QED  BY <1>1, <1>2, <1>3, <1>4, <1>5, <1>6, <1>7 DEF SuspendThread

LEMMA MainType ==
  ASSUME TypeOK, MainThread
  PROVE  TypeOK'
<1>1. CASE ResetActivityTime
  BY <1>1 DEF TypeOK, ResetActivityTime, Goto, suspend, kernel, input, bus
<1>2. CASE TestActivityTime
  BY <1>2 DEF TypeOK, TestActivityTime, Goto, suspend, kernel, timer, input, bus
<1>3. CASE ExpireActivityTime
  BY <1>3 DEF TypeOK, ExpireActivityTime, Goto, SleepSteps, suspend, kernel, input, bus
<1>4. CASE GoToSleep("main")  BY <1>4, GoToSleepType DEF Sleepers
<1> QED  BY <1>1, <1>2, <1>3, <1>4 DEF MainThread

LEMMA KeyType ==
  ASSUME TypeOK, KeyThread
  PROVE  TypeOK'
<1>1. CASE ReadPress
  <2>1. keys' \in Seq({"press", "release"}) /\ Len(keys') <= MaxKeys
    BY <1>1, TailType, BoundAssumption DEF TypeOK, ReadPress
  <2> QED  BY <1>1, <2>1 DEF TypeOK, ReadPress, Goto, suspend, kernel, timer, bus
<1>2. CASE ClearSleep
  BY <1>2 DEF TypeOK, ClearSleep, Goto, suspend, kernel, timer, bus
<1>3. CASE ReadRelease
  <2>1. keys' \in Seq({"press", "release"}) /\ Len(keys') <= MaxKeys
    BY <1>3, TailType, BoundAssumption DEF TypeOK, ReadRelease
  <2> QED  BY <1>3, <2>1 DEF TypeOK, ReadRelease, Goto, SleepSteps, suspend, timer, bus
<1>4. CASE KeySlept
  BY <1>4 DEF TypeOK, KeySlept, Goto, suspend, kernel, timer, input, bus
<1>5. CASE GoToSleep("key")  BY <1>5, GoToSleepType DEF Sleepers
<1> QED  BY <1>1, <1>2, <1>3, <1>4, <1>5 DEF KeyThread

LEMMA ReplyType ==
  ASSUME TypeOK, NEW ret, Reply(ret), queue # <<>>
  PROVE  /\ queue' \in Seq(Message) /\ Len(queue') <= MaxQueue
         /\ held' \in SUBSET Clients
         /\ Head(queue) \in Message
<1>1. /\ Tail(queue) \in Seq(Message) /\ Len(Tail(queue)) = Len(queue) - 1
      /\ Head(queue) \in Message
  BY TailType DEF TypeOK
<1>2. Len(queue') <= MaxQueue  BY <1>1, BoundAssumption DEF Reply, TypeOK
<1>3. Head(queue).from \in Clients  BY <1>1 DEF Message
<1> QED  BY <1>1, <1>2, <1>3 DEF Reply, TypeOK

LEMMA DbusType ==
  ASSUME TypeOK, BusInv, DbusThread
  PROVE  TypeOK'
<1>1. CASE ServeGoToSleep
  BY <1>1 DEF TypeOK, ServeGoToSleep, Goto, SleepSteps, suspend, kernel, timer, input, bus
<1>2. CASE ReplyGoToSleep
  <2>1. queue # <<>>  BY <1>2 DEF ReplyGoToSleep, BusInv, At
  <2>2. /\ queue' \in Seq(Message) /\ Len(queue') <= MaxQueue
        /\ held' \in SUBSET Clients
    BY <1>2, <2>1, ReplyType DEF ReplyGoToSleep
  <2> QED  BY <1>2, <2>2 DEF TypeOK, ReplyGoToSleep, Goto, suspend, kernel, timer, input
<1>3. CASE ServeAcquire
  <2>1. /\ queue' \in Seq(Message) /\ Len(queue') <= MaxQueue
        /\ held' \in SUBSET Clients /\ Head(queue) \in Message
    BY <1>3, ReplyType DEF ServeAcquire, Serving
  <2>2. LockOf(Head(queue).from) \in Locks  BY <2>1 DEF Message, Locks
  <2> QED  BY <1>3, <2>1, <2>2 DEF TypeOK, ServeAcquire, suspend, timer, input
<1>4. CASE ServeRelease
  <2>1. /\ queue' \in Seq(Message) /\ Len(queue') <= MaxQueue
        /\ held' \in SUBSET Clients
    BY <1>4, ReplyType DEF ServeRelease, Serving
  <2>2. locks' \in SUBSET Locks  BY <1>4 DEF TypeOK, ServeRelease
  <2> QED  BY <1>4, <2>1, <2>2 DEF TypeOK, ServeRelease, suspend, timer, input
<1>5. CASE ServeUserActivity
  <2>1. /\ queue' \in Seq(Message) /\ Len(queue') <= MaxQueue
        /\ held' \in SUBSET Clients
    BY <1>5, ReplyType DEF ServeUserActivity, Serving
  <2> QED  BY <1>5, <2>1 DEF TypeOK, ServeUserActivity, suspend, kernel, input
<1>6. CASE ServeSetAwakeTimeout
  <2>1. /\ queue' \in Seq(Message) /\ Len(queue') <= MaxQueue
        /\ held' \in SUBSET Clients
    BY <1>6, ReplyType DEF ServeSetAwakeTimeout, Serving
  <2>2. keep' \in {-1, 0, 1}  BY <1>6 DEF ServeSetAwakeTimeout, TimeoutOf
  <2> QED  BY <1>6, <2>1, <2>2 DEF TypeOK, ServeSetAwakeTimeout, suspend, kernel, input
<1>7. CASE ServeShutdown
  <2>1. /\ queue' \in Seq(Message) /\ Len(queue') <= MaxQueue
        /\ held' \in SUBSET Clients
    BY <1>7, ReplyType DEF ServeShutdown, Serving
  <2> QED  BY <1>7, <2>1 DEF TypeOK, ServeShutdown, suspend, timer, input
<1>8. CASE GoToSleep("dbus")  BY <1>8, GoToSleepType DEF Sleepers
<1> QED  BY <1>1, <1>2, <1>3, <1>4, <1>5, <1>6, <1>7, <1>8 DEF DbusThread

LEMMA ClientType ==
  ASSUME TypeOK, NEW c \in Clients, GiveUp(c) \/ \E call \in Calls : Call(c, call)
  PROVE  TypeOK'
<1>1. CASE GiveUp(c)
  <2>1. PICK i \in DOMAIN queue : queue' = [queue EXCEPT ![i].live = FALSE]
    BY <1>1 DEF GiveUp
  <2>2. queue' \in Seq(Message) /\ Len(queue') = Len(queue)
    BY <2>1, GiveUpType DEF TypeOK
  <2> QED  BY <1>1, <2>2 DEF TypeOK, GiveUp, suspend, kernel, timer, input
<1>2. ASSUME NEW call \in Calls, Call(c, call) PROVE TypeOK'
  <2> DEFINE m == [from |-> c, call |-> call, live |-> TRUE]
  <2>1. m \in Message  BY Zenon DEF Message
  <2>2. Append(queue, m) \in Seq(Message) /\ Len(Append(queue, m)) = Len(queue) + 1
    BY <2>1, AppendType DEF TypeOK
  <2>3. queue' \in Seq(Message) /\ Len(queue') <= MaxQueue
    BY <1>2, <2>2, BoundAssumption DEF TypeOK, Call
  <2> QED  BY <1>2, <2>3 DEF TypeOK, Call, suspend, kernel, timer, input
<1> QED  BY <1>1, <1>2

LEMMA EnvironmentType ==
  ASSUME TypeOK, Environment
  PROVE  TypeOK'
<1>1. CASE EnterStandby
  BY <1>1 DEF TypeOK, EnterStandby, suspend, timer, input, bus
<1>2. CASE LeaveStandby
  BY <1>2 DEF TypeOK, LeaveStandby, suspend, timer, input, bus
<1>3. CASE SpuriousWakeup
  BY <1>3 DEF TypeOK, SpuriousWakeup, kernel, timer, input, bus
<1>4. CASE PowerKey
  <2>1. keys' \in Seq({"press", "release"}) /\ Len(keys') <= MaxKeys
    BY <1>4, BoundAssumption DEF TypeOK, PowerKey
  <2> QED  BY <1>4, <2>1 DEF TypeOK, PowerKey, suspend, kernel, timer, bus
<1>5. CASE TimePasses
  BY <1>5 DEF TypeOK, TimePasses, suspend, kernel, input, bus
<1> QED  BY <1>1, <1>2, <1>3, <1>4, <1>5 DEF Environment

(* The head of the queue is only removed by the thread that serves it. *)
LEMMA BusStep ==
  ASSUME TypeOK, BusInv, [Next]_vars
  PROVE  BusInv'
<1>1. CASE SuspendThread \/ MainThread \/ KeyThread \/ Environment \/ UNCHANGED vars
  <2>1. pc'["dbus"] = pc["dbus"] /\ queue' = queue
    BY <1>1 DEF TypeOK, SuspendThread, AwaitRequest, WriteMem, EndStandby, WriteOn, CallbackAwake,
      CallbackLock, CallbackInvalidate, MainThread, ResetActivityTime, TestActivityTime,
      ExpireActivityTime, KeyThread, ReadPress, ClearSleep, ReadRelease, KeySlept, GoToSleep,
      CheckWakeLocks, MarkAsleep, ReleaseDisplay, SetState, WaitResume, Environment, EnterStandby,
      LeaveStandby, SpuriousWakeup, PowerKey, TimePasses, Goto, bus, vars, Threads, Sleepers
  <2> QED  BY <2>1 DEF BusInv
<1>2. CASE DbusThread
  <2>1. CASE GoToSleep("dbus")
    BY <2>1 DEF BusInv, TypeOK, GoToSleep, CheckWakeLocks, MarkAsleep, ReleaseDisplay, SetState,
      WaitResume, At, bus
  <2>2. CASE ServeGoToSleep
    BY <2>2 DEF BusInv, ServeGoToSleep, Serving, bus
  <2>3. CASE ReplyGoToSleep
    BY <2>3 DEF BusInv, TypeOK, ReplyGoToSleep, Goto, Threads, Sleepers
  <2>4. CASE ServeAcquire \/ ServeRelease \/ ServeUserActivity \/ ServeSetAwakeTimeout \/ ServeShutdown
    BY <2>4 DEF BusInv, ServeAcquire, ServeRelease, ServeUserActivity, ServeSetAwakeTimeout,
      ServeShutdown, Serving, At
  <2> QED  BY <1>2, <2>1, <2>2, <2>3, <2>4 DEF DbusThread
<1>3. ASSUME NEW c \in Clients, GiveUp(c) PROVE BusInv'
  <2>1. PICK i \in DOMAIN queue : queue' = [queue EXCEPT ![i].live = FALSE]
    BY <1>3 DEF GiveUp
  <2>2. queue \in Seq(Message) /\ Len(queue') = Len(queue) /\ queue' \in Seq(Message)
    BY <2>1, GiveUpType DEF TypeOK
  <2>3. queue # <<>> => Head(queue').call = Head(queue).call  BY <2>1, <2>2 DEF Message
  <2> QED  BY <1>3, <2>2, <2>3 DEF BusInv, GiveUp
<1>4. ASSUME NEW c \in Clients, NEW call \in Calls, Call(c, call) PROVE BusInv'
  <2>1. queue # <<>> => Head(queue') = Head(queue) /\ queue' # <<>>  BY <1>4 DEF Call, TypeOK
  <2> QED  BY <1>4, <2>1 DEF BusInv, Call
<1> QED  BY <1>1, <1>2, <1>3, <1>4 DEF Next

LEMMA TypeStep ==
  ASSUME TypeOK, BusInv, [Next]_vars
  PROVE  TypeOK'
<1>1. CASE UNCHANGED vars
  BY <1>1 DEF TypeOK, vars, suspend, kernel, timer, input, bus
<1> QED  BY <1>1, SuspendType, MainType, KeyType, DbusType, ClientType, EnvironmentType DEF Next

(* Type correctness: what the daemon, its clients and the kernel share keeps *)
(* its type in every step, and a call is answered before the next one.       *)
THEOREM TypeCorrect == Spec => [](TypeOK /\ BusInv)
<1>1. Init => TypeOK /\ BusInv  BY InitType DEF Init, BusInv, Threads, Sleepers
<1>2. TypeOK /\ BusInv /\ [Next]_vars => (TypeOK /\ BusInv)'  BY TypeStep, BusStep
<1> QED  BY <1>1, <1>2, PTL DEF Spec
=============================================================================
