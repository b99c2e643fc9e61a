----------------------------- MODULE NativePower -----------------------------
(***************************************************************************)
(* The power management daemon of allwinner/nativepower, as built for the  *)
(* 3.4 kernels (USE_TINA_SUSPEND): its main loop with the awake timeout,    *)
(* the power key thread, the D-Bus server thread, the suspend thread of     *)
(* libsuspend, the wake locks of libpower, and the clients of               *)
(* libnativepower.                                                          *)
(*                                                                         *)
(* One step is what a thread does between two points where another thread  *)
(* can observe it: one critical section of tinasuspend_mutex or sleep_lock, *)
(* one access to an unlocked variable, one write to a file of /sys/power.   *)
(* The kernel is external: a device asked for "mem" may enter standby while *)
(* no wake lock is held, and no thread runs until it leaves it again.       *)
(***************************************************************************)
EXTENDS Integers, Sequences, FiniteSets

CONSTANTS
  Clients,       \* processes that use libnativepower
  SharedId,      \* do all clients use the same wake lock id?
  Calls,         \* the calls they make: subset of CallKinds
  AwakeTimeout,  \* the configured awake timeout: in DOMAIN TimeoutOf
  Faults,        \* accesses to /sys/power that may fail: writing "mem", reading the
                 \* locks, or writing to wake_lock and wake_unlock
  MaxQueue,      \* bound on the calls that wait for the D-Bus server
  MaxKeys        \* bound on the key events that wait to be read; 0: no power key

Display   == "NativePower.Display.lock"
TimeoutOf == [timeout_never |-> -1, timeout_zero |-> 0, timeout_some |-> 1]
CallKinds == {"gotosleep", "acquire", "release", "useractivity", "shutdown"} \cup DOMAIN TimeoutOf
FaultKinds == {"mem", "count", "lock"}

LockOf(c) == IF SharedId THEN "app" ELSE c
Locks     == {Display} \cup {LockOf(c) : c \in Clients}

ASSUME ClientAssumption ==
  /\ SharedId \in BOOLEAN
  /\ Calls \subseteq CallKinds
  /\ \A c \in Clients : LockOf(c) # Display

ASSUME BoundAssumption ==
  /\ AwakeTimeout \in DOMAIN TimeoutOf
  /\ Faults \subseteq FaultKinds
  /\ MaxQueue \in Nat /\ MaxKeys \in Nat

VARIABLES
  pc,          \* thread -> what it does next
  \* libsuspend
  state,       \* tinasuspend_state
  waiters,     \* the threads that wait on tinasuspend_cond
  success,     \* the local variable of tinasuspend_thread_func, not initialised
  \* the kernel
  locks,       \* wake locks held
  request,     \* the last state written to /sys/power/state
  power,       \* "on", "standby" or "off"
  \* the daemon
  has_sleep,   \* of np_input.c: 0-awake, 1-sleep
  last,        \* mLastUserActivityTime: "none" (<= 0), "fresh" or "old"
  keep,        \* mKeepAwakeTime
  keys,        \* events of the power key not yet read
  pressed,     \* is the power key down?
  down,        \* is powerkey_down_ms # 0?
  \* clients
  queue,       \* calls the server has not answered; live: the client still waits
  held         \* the clients whose acquire succeeded and who did not release since

suspend == <<state, waiters>>
kernel  == <<locks, request, power>>
timer   == <<last, keep>>
input   == <<keys, pressed, down>>
bus     == <<queue, held>>
vars    == <<pc, suspend, success, kernel, has_sleep, timer, input, bus>>

Sleepers == {"main", "key", "dbus"}
Threads  == Sleepers \cup {"suspend"}

SleepSteps   == {"count", "mark", "unlock", "request", "resume"}
SuspendSteps == {"top", "mem", "standby", "on", "awake", "lock", "invalidate"}
Message      == [from : Clients, call : Calls, live : BOOLEAN]

TypeOK ==
  /\ pc \in [Threads -> SleepSteps \cup SuspendSteps \cup
                        {"idle", "test", "expire", "clear", "slept", "refused"}]
  /\ state \in {"ON", "MEM"}
  /\ waiters \in SUBSET Threads
  /\ success \in BOOLEAN
  /\ locks \in SUBSET Locks
  /\ request \in {"on", "mem"}
  /\ power \in {"on", "standby", "off"}
  /\ has_sleep \in {0, 1}
  /\ last \in {"none", "fresh", "old"}
  /\ keep \in {-1, 0, 1}
  /\ keys \in Seq({"press", "release"}) /\ Len(keys) <= MaxKeys
  /\ pressed \in {0, 1} /\ down \in {0, 1}
  /\ queue \in Seq(Message) /\ Len(queue) <= MaxQueue
  /\ held \in SUBSET Clients

(* Thread t is about to do s, and runs. *)
At(t, s)   == power = "on" /\ pc[t] = s
Goto(t, s) == pc' = [pc EXCEPT ![t] = s]

(* pthread_cond_signal wakes one waiter, whichever that is. *)
Signal == IF waiters = {} THEN UNCHANGED waiters ELSE \E w \in waiters : waiters' = waiters \ {w}

-----------------------------------------------------------------------------
(* goToSleep, on any of the threads that call it.                          *)

(* Mutant: not even the display lock may be held. *)
CheckNoWakeLocks(t) ==
  /\ At(t, "count")
  /\ \/ Cardinality(locks) < 1 /\ Goto(t, "mark")
     \/ Cardinality(locks) >= 1 /\ Goto(t, IF t = "dbus" THEN "refused" ELSE "idle")
  /\ UNCHANGED <<suspend, success, kernel, has_sleep, timer, input, bus>>

(* get_wake_lock_count() <= 1.  If the count cannot be read it is -1. *)
CheckWakeLocks(t) ==
  /\ At(t, "count")
  /\ \/ Cardinality(locks) <= 1 /\ Goto(t, "mark")
     \/ "count" \in Faults /\ Goto(t, "mark")
     \/ Cardinality(locks) > 1 /\ Goto(t, IF t = "dbus" THEN "refused" ELSE "idle")
  /\ UNCHANGED <<suspend, success, kernel, has_sleep, timer, input, bus>>

MarkAsleep(t) ==
  /\ At(t, "mark")
  /\ has_sleep' = 1
  /\ Goto(t, "unlock")
  /\ UNCHANGED <<suspend, success, kernel, timer, input, bus>>

(* Mutant: every lock is released. *)
ReleaseAll(t) ==
  /\ At(t, "unlock")
  /\ locks' = {}
  /\ Goto(t, "request")
  /\ UNCHANGED <<suspend, success, request, power, has_sleep, timer, input, bus>>

ReleaseDisplay(t) ==
  /\ At(t, "unlock")
  /\ \/ locks' = locks \ {Display}
     \/ "lock" \in Faults /\ UNCHANGED locks
  /\ Goto(t, "request")
  /\ UNCHANGED <<suspend, success, request, power, has_sleep, timer, input, bus>>

(* Mutant: the condition is not signalled. *)
SetStateSilently(t) ==
  /\ At(t, "request")
  /\ state' = "MEM"
  /\ Goto(t, "resume")
  /\ UNCHANGED <<waiters, success, kernel, has_sleep, timer, input, bus>>

(* tinasuspend_set_state(1) *)
SetState(t) ==
  /\ At(t, "request")
  /\ state' = "MEM"
  /\ Signal
  /\ Goto(t, "resume")
  /\ UNCHANGED <<success, kernel, has_sleep, timer, input, bus>>

(* Mutant: any wake-up is taken for the one waited for. *)
WaitResumeOnce(t) ==
  /\ At(t, "resume") /\ t \notin waiters
  /\ \/ waiters' = waiters \cup {t} /\ UNCHANGED pc
     \/ Goto(t, IF t = "main" THEN "idle" ELSE "slept") /\ UNCHANGED waiters
  /\ UNCHANGED <<state, success, kernel, has_sleep, timer, input, bus>>

(* tinasuspend_wait_resume: test the state under the mutex, wait or return 0 *)
WaitResume(t) ==
  /\ At(t, "resume") /\ t \notin waiters
  /\ \/ state = "MEM" /\ waiters' = waiters \cup {t} /\ UNCHANGED pc
     \/ state = "ON" /\ Goto(t, IF t = "main" THEN "idle" ELSE "slept") /\ UNCHANGED waiters
  /\ UNCHANGED <<state, success, kernel, has_sleep, timer, input, bus>>

GoToSleep(t) ==
  CheckWakeLocks(t) \/ MarkAsleep(t) \/ ReleaseDisplay(t) \/ SetState(t) \/ WaitResume(t)

-----------------------------------------------------------------------------
(* tinasuspend_thread_func.                                                *)

(* Mutant: any wake-up is taken for a request. *)
AwaitAnySignal ==
  /\ At("suspend", "top") /\ "suspend" \notin waiters
  /\ \/ waiters' = waiters \cup {"suspend"} /\ UNCHANGED pc
     \/ Goto("suspend", "mem") /\ UNCHANGED waiters
  /\ UNCHANGED <<state, success, kernel, has_sleep, timer, input, bus>>

AwaitRequest ==
  /\ At("suspend", "top") /\ "suspend" \notin waiters
  /\ \/ state = "ON" /\ waiters' = waiters \cup {"suspend"} /\ UNCHANGED pc
     \/ state = "MEM" /\ Goto("suspend", "mem") /\ UNCHANGED waiters
  /\ UNCHANGED <<state, success, kernel, has_sleep, timer, input, bus>>

WriteMem ==
  /\ At("suspend", "mem")
  /\ \/ request' = "mem" /\ UNCHANGED success
     \/ "mem" \in Faults /\ success' = FALSE /\ UNCHANGED request
  /\ Goto("suspend", "standby")
  /\ UNCHANGED <<suspend, locks, power, has_sleep, timer, input, bus>>

(* Mutant: nobody is told that the device is on again. *)
EndStandbySilently ==
  /\ At("suspend", "standby")
  /\ state' = "ON"
  /\ Goto("suspend", "on")
  /\ UNCHANGED <<waiters, success, kernel, has_sleep, timer, input, bus>>

(* after two seconds awake *)
EndStandby ==
  /\ At("suspend", "standby")
  /\ state' = "ON"
  /\ Signal
  /\ Goto("suspend", "on")
  /\ UNCHANGED <<success, kernel, has_sleep, timer, input, bus>>

WriteOn ==
  /\ At("suspend", "on")
  /\ request' = "on"
  /\ Goto("suspend", "awake")
  /\ UNCHANGED <<suspend, success, locks, power, has_sleep, timer, input, bus>>

(* wakeup_callback: set_sleep_state(0) ... *)
CallbackAwake ==
  /\ At("suspend", "awake")
  /\ has_sleep' = 0
  /\ Goto("suspend", "lock")
  /\ UNCHANGED <<suspend, success, kernel, timer, input, bus>>

(* Mutant: only after a successful suspend. *)
CallbackLockIfSuccess ==
  /\ At("suspend", "lock")
  /\ locks' = IF success THEN locks \cup {Display} ELSE locks
  /\ Goto("suspend", "invalidate")
  /\ UNCHANGED <<suspend, success, request, power, has_sleep, timer, input, bus>>

(* ... take the display lock again; the result is ignored ... *)
CallbackLock ==
  /\ At("suspend", "lock")
  /\ \/ locks' = locks \cup {Display}
     \/ "lock" \in Faults /\ UNCHANGED locks
  /\ Goto("suspend", "invalidate")
  /\ UNCHANGED <<suspend, success, request, power, has_sleep, timer, input, bus>>

(* ... and restart the awake timeout. *)
CallbackInvalidate ==
  /\ At("suspend", "invalidate")
  /\ last' = "none"
  /\ Goto("suspend", "top")
  /\ UNCHANGED <<suspend, success, kernel, has_sleep, keep, input, bus>>

SuspendThread ==
  \/ AwaitRequest \/ WriteMem \/ EndStandby \/ WriteOn
  \/ CallbackAwake \/ CallbackLock \/ CallbackInvalidate

-----------------------------------------------------------------------------
(* The main loop: isActivityTimeValid, whose accesses take no lock.        *)

ResetActivityTime ==
  /\ At("main", "idle") /\ keep >= 0
  /\ last' = IF last = "none" THEN "fresh" ELSE last
  /\ Goto("main", "test")
  /\ UNCHANGED <<suspend, success, kernel, has_sleep, keep, input, bus>>

(* The time since "none" is longer than any timeout. *)
TestActivityTime ==
  /\ At("main", "test")
  /\ Goto("main", IF last = "fresh" /\ keep = 1 THEN "idle" ELSE "expire")
  /\ UNCHANGED <<suspend, success, kernel, has_sleep, timer, input, bus>>

ExpireActivityTime ==
  /\ At("main", "expire")
  /\ last' = "none"
  /\ Goto("main", "count")
  /\ UNCHANGED <<suspend, success, kernel, has_sleep, keep, input, bus>>

MainThread ==
  ResetActivityTime \/ TestActivityTime \/ ExpireActivityTime \/ GoToSleep("main")

-----------------------------------------------------------------------------
(* scanPowerKey.  How long the key was down is decided when its release is  *)
(* read: not at all (the clock did not advance), up to two seconds, longer.  *)

ReadPress ==
  /\ At("key", "idle") /\ keys # <<>> /\ Head(keys) = "press"
  /\ keys' = Tail(keys)
  /\ \/ has_sleep = 1 /\ Goto("key", "clear") /\ UNCHANGED down
     \/ has_sleep = 0 /\ down' = 1 /\ UNCHANGED pc
  /\ UNCHANGED <<suspend, success, kernel, has_sleep, timer, pressed, bus>>

ClearSleep ==
  /\ At("key", "clear")
  /\ has_sleep' = 0 /\ down' = 0
  /\ Goto("key", "idle")
  /\ UNCHANGED <<suspend, success, kernel, timer, keys, pressed, bus>>

ReadRelease ==
  /\ At("key", "idle") /\ keys # <<>> /\ Head(keys) = "release"
  /\ keys' = Tail(keys)
  /\ \/ down = 0 /\ UNCHANGED <<pc, power, down>>
     \/ down = 1 /\ down' = 0 /\ UNCHANGED <<pc, power>>
     \/ down = 1 /\ power' = "off" /\ UNCHANGED <<pc, down>>
     \/ down = 1 /\ Goto("key", "count") /\ UNCHANGED <<power, down>>
  /\ UNCHANGED <<suspend, success, locks, request, has_sleep, timer, pressed, bus>>

(* goToSleep returned 0. *)
KeySlept ==
  /\ At("key", "slept")
  /\ has_sleep' = 1
  /\ Goto("key", "idle")
  /\ UNCHANGED <<suspend, success, kernel, timer, input, bus>>

KeyThread == ReadPress \/ ClearSleep \/ ReadRelease \/ KeySlept \/ GoToSleep("key")

-----------------------------------------------------------------------------
(* filter_func: one call at a time, in the order they were sent.            *)

Serving(call) == At("dbus", "idle") /\ queue # <<>> /\ Head(queue).call = call

(* The reply.  A client that gave up does not see it. *)
Reply(ret) ==
  /\ queue' = Tail(queue)
  /\ held' = IF Head(queue).live /\ Head(queue).call = "acquire" /\ ret = 0
               THEN held \cup {Head(queue).from} ELSE held

ServeGoToSleep ==
  /\ Serving("gotosleep")
  /\ Goto("dbus", "count")
  /\ UNCHANGED <<suspend, success, kernel, has_sleep, timer, input, bus>>

ReplyGoToSleep ==
  /\ At("dbus", "slept") \/ At("dbus", "refused")
  /\ Reply(IF pc["dbus"] = "slept" THEN 0 ELSE -1)
  /\ Goto("dbus", "idle")
  /\ UNCHANGED <<suspend, success, kernel, has_sleep, timer, input>>

ServeAcquire ==
  /\ Serving("acquire")
  /\ \/ locks' = locks \cup {LockOf(Head(queue).from)} /\ Reply(0)
     \/ "lock" \in Faults /\ Reply(-1) /\ UNCHANGED locks
  /\ UNCHANGED <<pc, suspend, success, request, power, has_sleep, timer, input>>

ServeRelease ==
  /\ Serving("release")
  /\ \/ locks' = locks \ {LockOf(Head(queue).from)} /\ Reply(0)
     \/ "lock" \in Faults /\ Reply(-1) /\ UNCHANGED locks
  /\ UNCHANGED <<pc, suspend, success, request, power, has_sleep, timer, input>>

(* userActivity *)
ServeUserActivity ==
  /\ Serving("useractivity")
  /\ last' = "fresh"
  /\ Reply(0)
  /\ UNCHANGED <<pc, suspend, success, kernel, has_sleep, keep, input>>

(* set_awake_timeout *)
ServeSetAwakeTimeout ==
  /\ \E call \in DOMAIN TimeoutOf : Serving(call) /\ keep' = TimeoutOf[call]
  /\ Reply(0)
  /\ UNCHANGED <<pc, suspend, success, kernel, has_sleep, last, input>>

(* shutdown and reboot *)
ServeShutdown ==
  /\ Serving("shutdown")
  /\ power' = "off"
  /\ Reply(0)
  /\ UNCHANGED <<pc, suspend, success, locks, request, has_sleep, timer, input>>

DbusThread ==
  \/ ServeGoToSleep \/ ReplyGoToSleep \/ ServeAcquire \/ ServeRelease
  \/ ServeUserActivity \/ ServeSetAwakeTimeout \/ ServeShutdown \/ GoToSleep("dbus")

-----------------------------------------------------------------------------
(* Clients: dbus_client_invoke sends a call and waits for the reply.       *)

Waits(c, i) == queue[i].from = c /\ queue[i].live

Call(c, call) ==
  /\ power = "on" /\ Len(queue) < MaxQueue
  /\ \A i \in DOMAIN queue : ~Waits(c, i)
  /\ queue' = Append(queue, [from |-> c, call |-> call, live |-> TRUE])
  /\ held' = IF call = "release" THEN held \ {c} ELSE held
  /\ UNCHANGED <<pc, suspend, success, kernel, has_sleep, timer, input>>

(* The D-Bus time limit: the client gets an error; the call stays queued. *)
GiveUp(c) ==
  /\ power = "on"
  /\ \E i \in DOMAIN queue : Waits(c, i) /\ queue' = [queue EXCEPT ![i].live = FALSE]
  /\ UNCHANGED <<pc, suspend, success, kernel, has_sleep, timer, input, held>>

-----------------------------------------------------------------------------
(* The kernel, the user, and time.                                         *)

EnterStandby ==
  /\ power = "on" /\ request = "mem" /\ locks = {}
  /\ power' = "standby"
  /\ UNCHANGED <<pc, suspend, success, locks, request, has_sleep, timer, input, bus>>

LeaveStandby ==
  /\ power = "standby"
  /\ power' = "on"
  /\ UNCHANGED <<pc, suspend, success, locks, request, has_sleep, timer, input, bus>>

SpuriousWakeup ==
  /\ power = "on"
  /\ \E w \in waiters : waiters' = waiters \ {w}
  /\ UNCHANGED <<pc, state, success, kernel, has_sleep, timer, input, bus>>

PowerKey ==
  /\ power # "off" /\ Len(keys) < MaxKeys
  /\ keys' = Append(keys, IF pressed = 1 THEN "release" ELSE "press")
  /\ pressed' = 1 - pressed
  /\ UNCHANGED <<pc, suspend, success, kernel, has_sleep, timer, down, bus>>

TimePasses ==
  /\ power # "off" /\ last = "fresh"
  /\ last' = "old"
  /\ UNCHANGED <<pc, suspend, success, kernel, has_sleep, keep, input, bus>>

Environment == EnterStandby \/ LeaveStandby \/ SpuriousWakeup \/ PowerKey \/ TimePasses

(* main up to its loop.  The key may be down; success and powerkey_down_ms  *)
(* hold whatever was on the stacks of their threads.                        *)
Init ==
  /\ pc = [t \in Threads |-> IF t = "suspend" THEN "top" ELSE "idle"]
  /\ state = "ON" /\ waiters = {}
  /\ success \in BOOLEAN
  /\ locks = {Display} /\ request = "on" /\ power = "on"
  /\ has_sleep = 0
  /\ last = "none"
  /\ keep = IF TimeoutOf[AwakeTimeout] > 0 THEN TimeoutOf[AwakeTimeout] ELSE -1
  /\ keys = <<>> /\ pressed \in {0, 1} /\ down \in {0, 1}
  /\ queue = <<>> /\ held = {}

Next ==
  \/ SuspendThread \/ MainThread \/ KeyThread \/ DbusThread
  \/ \E c \in Clients : GiveUp(c) \/ \E call \in Calls : Call(c, call)
  \/ Environment

(* Every thread gets to run when the device is awake again and again; the   *)
(* user, the clients and the kernel do as they please.                      *)
Fairness ==
  /\ SF_vars(SuspendThread) /\ SF_vars(MainThread)
  /\ SF_vars(KeyThread) /\ SF_vars(DbusThread)
  /\ WF_vars(TimePasses)

Spec == Init /\ [][Next]_vars /\ Fairness

-----------------------------------------------------------------------------
(* Properties.                                                             *)

(* Whenever the display lock, which keeps an idle device on, is not held,   *)
(* some thread is still going to take it back: a sleeper has yet to make    *)
(* its request, the request is pending, or wakeup_callback is still to come. *)
DisplayLockOwed ==
  \/ Display \in locks
  \/ state = "MEM"
  \/ pc["suspend"] \in {"on", "awake", "lock"}
  \/ \E t \in Sleepers : pc[t] = "request"

(* The device is in standby only for a request that a thread still waits for *)
(* in goToSleep, or in the window in which the suspend thread has ended that *)
(* request and has yet to write "on": never because of a wake-up of the      *)
(* shared condition, however many threads call goToSleep at once.            *)
StandbyIsRequested ==
  power = "standby" =>
    \/ pc["suspend"] = "standby" /\ state = "MEM" /\ \E t \in Sleepers : pc[t] = "resume"
    \/ pc["suspend"] = "on"

(* While a client has a lock, from the return of its acquire to its release,  *)
(* the device stays on (power.h), whatever calls timed out before.           *)
ClientLockKeepsAwake == held # {} => power # "standby"

(* A call a client still waits for is its last one.  A client that has its    *)
(* lock has no release on the way, so that what is held stays held.           *)
LiveIsLast ==
  \A i, j \in DOMAIN queue : i < j /\ queue[i].from = queue[j].from => ~queue[i].live

HeldInv ==
  /\ LiveIsLast
  /\ \A c \in held : LockOf(c) \in locks
  /\ \A c \in held, i \in DOMAIN queue : queue[i].from = c => queue[i].call # "release"
  /\ power = "standby" => locks = {}

(* The threads that call goToSleep under these constants *)
SleepingThreads ==
  (IF MaxKeys > 0 THEN {"key"} ELSE {})
  \cup (IF "gotosleep" \in Calls THEN {"dbus"} ELSE {})
  \cup (IF AwakeTimeout = "timeout_some" \/ Calls \cap {"timeout_zero", "timeout_some"} # {} THEN {"main"} ELSE {})

(* No thread waits on tinasuspend_cond for what is already the case: a signal *)
(* never goes to the wrong one of the threads that share the condition.       *)
NoMissedSignal == \A t \in waiters : state = IF t = "suspend" THEN "ON" ELSE "MEM"

(* The call a thread sleeps for stays at the head of the queue. *)
BusInv == pc["dbus"] # "idle" => queue # <<>> /\ Head(queue).call = "gotosleep"

(* Threads that do not sleep stay out of goToSleep. *)
AwakeInv ==
  /\ \A t \in Sleepers \ SleepingThreads : pc[t] \notin SleepSteps
  /\ "main" \notin SleepingThreads => pc["main"] = "idle" /\ keep = -1

(* Where each thread can be, and who can wait on the condition *)
ThreadInv ==
  /\ pc["suspend"] \in SuspendSteps
  /\ \A t \in Sleepers : pc[t] \notin SuspendSteps
  /\ \A t \in waiters : pc[t] = IF t = "suspend" THEN "top" ELSE "resume"

(* A request is pending exactly while its thread waits for the resume, and   *)
(* the suspend thread is busy with standby only while one is.                *)
RequestInv ==
  /\ state = "MEM" => \E t \in Sleepers : pc[t] = "resume"
  /\ pc["suspend"] \in {"mem", "standby"} => state = "MEM"

(* Why no signal is missed when one thread calls goToSleep *)
SleepInv == TypeOK /\ BusInv /\ AwakeInv /\ ThreadInv /\ RequestInv /\ NoMissedSignal

Phase(t) ==
  CASE pc[t] # "resume"                                      -> "awake"
    [] pc[t] = "resume" /\ state = "ON"                      -> "resumed"
    [] pc[t] = "resume" /\ state = "MEM" /\ pc["suspend"] # "standby" -> "requested"
    [] pc[t] = "resume" /\ state = "MEM" /\ pc["suspend"] = "standby" -> "standby"

Sleeper == CHOOSE t \in SleepingThreads : TRUE

Cycle == INSTANCE SuspendCycle WITH phase <- Phase(Sleeper)

(* Where one thread calls goToSleep, each call that returns 0 spans exactly  *)
(* one round of the suspend thread: its write of "mem", which the kernel may *)
(* refuse, and the time it gives the device to enter standby.                *)
SleepIsOneCycle == Cycle!Spec

(* Where one thread calls goToSleep, it always comes back from it: the main   *)
(* loop to its timeout, the key thread to its key, the server to its calls.  *)
SleeperReturns ==
  []<>(power # "standby") => []<>(pc[Sleeper] # "resume" \/ power = "off")

(* A request to sleep reaches the kernel: autosuspend_enable is there to     *)
(* allow it "to enter suspend if no wakelocks/wakeup_sources are held".      *)
RequestReachesKernel ==
  []<>(power # "standby") => (state = "MEM" ~> (pc["suspend"] = "standby" \/ power = "off"))

(* An idle device, with an awake timeout and without client locks and user   *)
(* activity, is eventually sent to sleep.                                    *)
IdleDeviceSleeps ==
  (/\ <>[](keep >= 0 /\ locks \subseteq {Display})
   /\ <>[](\A i \in DOMAIN queue : queue[i].call # "useractivity")
   /\ []<>(power # "standby"))
  => []<>(state = "MEM" \/ power = "off")
=============================================================================
