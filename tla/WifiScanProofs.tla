--------------------------- MODULE WifiScanProofs ---------------------------
(***************************************************************************)
(* The safety properties of the scan thread, for every set of interface    *)
(* functions the application calls.  ScanInv is inductive; it adds to the  *)
(* properties what ties gwifi_state, the life of the mutex and the life of *)
(* the scan thread together while the application turns Wi-Fi on and off   *)
(* and wpa_supplicant ends at any moment.                                  *)
(***************************************************************************)
EXTENDS WifiScan, TLAPS

(* A paused section runs with scan_pause set.                              *)
PauseHeld == main = "work" => scan_pause = 1

(* Until the application waits to join it, a scan thread that was started  *)
(* is told to run and has not ended.                                       *)
ThreadRuns ==
    /\ main # "join" /\ thr # "none" => scan_running = 1 /\ thr # "exit"
    /\ main = "closing" => thr = "none"

(* Wi-Fi counts as on only while the mutex lives, but for the two windows  *)
(* of aw_wifi_on and aw_wifi_off; a function found it on when it began.    *)
MutexLives ==
    /\ gwifi = 1 /\ main \notin {"starting", "closing"} => mutex = "live"
    /\ main \in {"poll", "join"} => mutex = "live"
    /\ main = "pause" /\ op # "get_netid" => mutex = "live"

(* A scan thread outlives gwifi_state only when the event thread ended.    *)
OutlivedOnlyByTermination ==
    /\ thr # "none" /\ gwifi = 0 => terminated # "no"
    /\ main = "starting" /\ gwifi = 0 => terminated # "no"

ScanInv ==
    /\ TypeOK /\ PausedMeansQuiet /\ NoLostResume /\ MutexSafe /\ NoPauseLeak
    /\ PauseHeld /\ ThreadRuns /\ MutexLives /\ OutlivedOnlyByTermination

-----------------------------------------------------------------------------
(* The steps of wifi_scan_thread keep ScanInv.                              *)
LEMMA ScanThreadInv ==
  ASSUME ScanInv, undefined = "no", ScanThread
  PROVE  ScanInv'
<1> USE DEF ScanInv, TypeOK, PausedMeansQuiet, NoLostResume, MutexSafe, NoPauseLeak, PauseHeld,
      ThreadRuns, MutexLives, OutlivedOnlyByTermination,
      state, flags, LockFree, Flag, ScanPlaces, MainPlaces, Functions
<1>1. CASE TestRunning  BY <1>1 DEF TestRunning
<1>2. CASE Enter  BY <1>2 DEF Enter
<1>3. CASE SpuriousWakeup  BY <1>3 DEF SpuriousWakeup
<1>4. CASE SendAccepted  BY <1>4 DEF SendAccepted
<1>5. CASE SendRefused  BY <1>5 DEF SendRefused
<1>6. CASE BackedOff  BY <1>6 DEF BackedOff
<1>7. CASE ScanOver  BY <1>7 DEF ScanOver
<1>8. CASE ResultsRefused  BY <1>8 DEF ResultsRefused
<1>9. CASE Report  BY <1>9 DEF Report
<1>10. CASE WaitOver  BY <1>10 DEF WaitOver
<1> QED  BY <1>1, <1>2, <1>3, <1>4, <1>5, <1>6, <1>7, <1>8, <1>9, <1>10 DEF ScanThread

(* What the event thread notices keeps ScanInv.                             *)
LEMMA EventThreadInv ==
  ASSUME ScanInv, undefined = "no", EventThread
  PROVE  ScanInv'
<1> USE DEF ScanInv, TypeOK, PausedMeansQuiet, NoLostResume, MutexSafe, NoPauseLeak, PauseHeld,
      ThreadRuns, MutexLives, OutlivedOnlyByTermination,
      state, flags, LockFree, Flag, ScanPlaces, MainPlaces, Functions
<1>1. CASE ScanResultsEvent  BY <1>1 DEF ScanResultsEvent
<1>2. CASE Terminating \/ TimedOut  BY <1>2 DEF Terminating, TimedOut, Answers
<1> QED  BY <1>1, <1>2 DEF EventThread

(* Where a function of the interface begins.                               *)
LEMMA FirstPlacesOf ==
  ASSUME NEW f
  PROVE  /\ FirstPlaces(f) \subseteq {"update", "lookup", "pause", "resume"}
         /\ f = "get_netid" => FirstPlaces(f) = {"pause"}
BY Zenon DEF FirstPlaces

(* The steps of the application keep ScanInv.                               *)
LEMMA ApplicationInv ==
  ASSUME ScanInv, undefined = "no", Application
  PROVE  ScanInv'
<1> USE DEF ScanInv, TypeOK, PausedMeansQuiet, NoLostResume, MutexSafe, NoPauseLeak, PauseHeld,
      ThreadRuns, MutexLives, OutlivedOnlyByTermination,
      state, flags, LockFree, Flag, ScanPlaces, MainPlaces, Functions
<1>1. CASE On  BY <1>1 DEF On
<1>2. CASE StartScanThread  BY <1>2 DEF StartScanThread
<1>3. CASE Request  BY <1>3 DEF Request
<1>4. CASE PollOver  BY <1>4 DEF PollOver
<1>5. CASE Lookup  BY <1>5 DEF Lookup
<1>6. CASE Pause  BY <1>6 DEF Pause
<1>7. CASE Work  BY <1>7 DEF Work
<1>8. CASE Resume  BY <1>8 DEF Resume
<1>9. CASE Signal  BY <1>9 DEF Signal
<1>10. CASE Off  BY <1>10 DEF Off
<1>11. CASE Join  BY <1>11 DEF Join
<1>12. CASE Close  BY <1>12 DEF Close
<1>13. CASE \E f \in Calls : Call(f)
  <2>1. PICK f \in Calls : Call(f)  BY <1>13
  <2>2. f \in Functions  BY CallsAssumption
  <2>3. /\ main' \in {"update", "lookup", "pause", "resume"}
        /\ f = "get_netid" => main' = "pause"
    BY <2>1, FirstPlacesOf DEF Call
  <2>4. mutex = "live" \/ f = "get_netid"  BY <2>1 DEF Call
  <2> QED  BY <2>1, <2>2, <2>3, <2>4 DEF Call
<1> QED  BY <1>1, <1>2, <1>3, <1>4, <1>5, <1>6, <1>7, <1>8, <1>9, <1>10, <1>11, <1>12, <1>13 DEF Application

(* And so does a step that changes nothing.                                *)
LEMMA StutterInv ==
  ASSUME ScanInv, UNCHANGED vars
  PROVE  ScanInv'
<1>1. TypeOK'  BY DEF vars, ScanInv, TypeOK
<1>2. PausedMeansQuiet'  BY DEF vars, ScanInv, PausedMeansQuiet
<1>3. NoLostResume'  BY DEF vars, ScanInv, NoLostResume
<1>4. MutexSafe'  BY DEF vars, ScanInv, MutexSafe
<1>5. NoPauseLeak'  BY DEF vars, ScanInv, NoPauseLeak
<1>6. PauseHeld'  BY DEF vars, ScanInv, PauseHeld
<1>7. ThreadRuns'  BY DEF vars, ScanInv, ThreadRuns
<1>8. MutexLives'  BY DEF vars, ScanInv, MutexLives
<1>9. OutlivedOnlyByTermination'  BY DEF vars, ScanInv, OutlivedOnlyByTermination
<1> QED  BY <1>1, <1>2, <1>3, <1>4, <1>5, <1>6, <1>7, <1>8, <1>9 DEF ScanInv

(* ScanInv holds always, whatever the application calls.                   *)
THEOREM ScanInvariant == Spec => []ScanInv
<1>1. Init => ScanInv
  BY DEF Init, ScanInv, TypeOK, PausedMeansQuiet, NoLostResume, MutexSafe,
         NoPauseLeak, PauseHeld, ThreadRuns, MutexLives,
         OutlivedOnlyByTermination, Flag, ScanPlaces, MainPlaces
<1>2. ScanInv /\ [Next]_vars => ScanInv'
  <2> SUFFICES ASSUME ScanInv, [Next]_vars PROVE ScanInv'  OBVIOUS
  <2>1. CASE undefined = "no" /\ (ScanThread \/ EventThread \/ Application)
    BY <2>1, ScanThreadInv, EventThreadInv, ApplicationInv
  <2>2. CASE UNCHANGED vars
    BY <2>2, StutterInv
  <2> QED  BY <2>1, <2>2 DEF Next, Undefined
<1> QED  BY <1>1, <1>2, PTL DEF Spec

(* The scan thread never sends or scans during a paused section.           *)
THEOREM PausedMeansQuietTheorem == Spec => []PausedMeansQuiet
<1>1. ScanInv => PausedMeansQuiet  BY DEF ScanInv
<1> QED  BY <1>1, ScanInvariant, PTL

(* The signal of resume_wifi_scan_thread is never lost.                    *)
THEOREM NoLostResumeTheorem == Spec => []NoLostResume
<1>1. ScanInv => NoLostResume  BY DEF ScanInv
<1> QED  BY <1>1, ScanInvariant, PTL

(* No thread uses scan_mutex outside its life, but for the two known ways. *)
THEOREM MutexSafeTheorem == Spec => []MutexSafe
<1>1. ScanInv => MutexSafe  BY DEF ScanInv
<1> QED  BY <1>1, ScanInvariant, PTL

(* Only aw_wifi_remove_network leaves the scan thread paused.              *)
THEOREM NoPauseLeakTheorem == Spec => []NoPauseLeak
<1>1. ScanInv => NoPauseLeak  BY DEF ScanInv
<1> QED  BY <1>1, ScanInvariant, PTL

(* Every variable keeps its type: scan_completed and the other flags are      *)
(* never counted up, and both threads are always at a known place.            *)
THEOREM TypeTheorem == Spec => []TypeOK
<1>1. ScanInv => TypeOK  BY DEF ScanInv
<1> QED  BY <1>1, ScanInvariant, PTL

(* The pthread_join of aw_wifi_off never waits for a scan thread that sleeps  *)
(* on scan_cond, unless a failed aw_wifi_remove_network put it to sleep: no    *)
(* other sequence of calls ends in a join that can only wait for ever.         *)
JoinNotOnSleeper == main = "join" /\ thr = "paused" => leaked = 1

(* aw_wifi_off cannot hang on the pause flag, however calls, wake-ups and the  *)
(* end of wpa_supplicant interleave: the safety half of StopFinishes.          *)
THEOREM JoinTheorem == Spec => []JoinNotOnSleeper
<1>1. ScanInv => JoinNotOnSleeper
  BY DEF ScanInv, NoLostResume, NoPauseLeak, JoinNotOnSleeper
<1> QED  BY <1>1, ScanInvariant, PTL
=============================================================================
