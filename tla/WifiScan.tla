------------------------------ MODULE WifiScan ------------------------------
(***************************************************************************)
(* The background scan thread of the Wi-Fi manager (network_manager.c) and *)
(* the one application thread that turns Wi-Fi on and off, asks for scans  *)
(* and pauses the thread around every exchange with wpa_supplicant         *)
(* (wifimanager.c).  scan_mutex is held by the scan thread exactly in its  *)
(* positions "send" and "scanning"; the critical sections of the           *)
(* application are single steps that find it free.  What a scan finds and  *)
(* what the paused exchange does are left out.                             *)
(***************************************************************************)

EXTENDS Naturals

CONSTANT Calls     \* the interface functions this application calls

(* connect stands for aw_wifi_connect_ap and aw_wifi_connect_ap_key_mgmt;  *)
(* aw_wifi_connect_ap_with_netid on a connected device is a "disconnect"   *)
(* followed by a "with_netid".                                             *)
Functions == {"scan", "results", "connect", "with_netid", "add", "auto",
              "disconnect", "list", "get_netid", "remove"}

ASSUME CallsAssumption == Calls \subseteq Functions

VARIABLES
    gwifi,           \* gwifi_state # WIFIMG_WIFI_DISABLED
    mutex,           \* scan_mutex and its companions: none, live or destroyed
    scan_running, scan_pause,
    scan_complete,   \* wpa_supplicant announced the results
    scan_completed,  \* the application's request has been served
    thr,             \* where the scan thread is
    main, op,        \* where the application is, and in which function
    terminated,      \* why the event thread ended since the last stop, if it did
    leaked,          \* aw_wifi_remove_network returned without resuming
    undefined        \* the first use of a mutex that is not initialised

vars == <<gwifi, mutex, scan_running, scan_pause, scan_complete,
          scan_completed, thr, main, op, terminated, leaked, undefined>>

state == <<gwifi, mutex, scan_running, terminated, undefined>>
flags == <<scan_pause, leaked>>

Flag == {0, 1}

ScanPlaces == {"none", "top", "lock", "paused", "send", "scanning", "report",
               "wait", "backoff", "exit"}
MainPlaces == {"idle", "starting", "update", "poll", "lookup", "lookup2",
               "pause", "work", "resume", "signal", "join", "closing"}

TypeOK ==
    /\ gwifi \in Flag /\ terminated \in {"no", "timeout", "ended"} /\ leaked \in Flag
    /\ mutex \in {"none", "live", "destroyed"}
    /\ scan_running \in Flag /\ scan_pause \in Flag
    /\ scan_complete \in Flag /\ scan_completed \in Flag
    /\ thr \in ScanPlaces /\ main \in MainPlaces /\ op \in Functions \cup {"none"}
    /\ undefined \in {"no", "reinit", "get_netid"}

Init ==
    /\ gwifi = 0 /\ mutex = "none" /\ thr = "none"
    /\ scan_running = 0 /\ scan_pause = 0
    /\ scan_complete = 0 /\ scan_completed = 0
    /\ main = "idle" /\ op = "none"
    /\ terminated = "no" /\ leaked = 0 /\ undefined = "no"

LockFree == thr \notin {"send", "scanning"}

(* There is a wpa_supplicant to answer commands; one that ended by itself  *)
(* is replaced by the next aw_wifi_on.                                     *)
Answers == gwifi = 1 \/ terminated = "timeout"

-----------------------------------------------------------------------------
(* The scan thread, wifi_scan_thread.                                      *)

TestRunning ==
    /\ thr = "top"
    /\ thr' = IF scan_running = 1 THEN "lock" ELSE "exit"
    /\ UNCHANGED <<state, flags, scan_complete, scan_completed, main, op>>

(* Lock, then wait on scan_cond while paused, else clear the event flag.   *)
Enter ==
    /\ thr = "lock"
    /\ thr' = IF scan_pause = 1 THEN "paused" ELSE "send"
    /\ scan_complete' = IF scan_pause = 1 THEN scan_complete ELSE 0
    /\ UNCHANGED <<state, flags, scan_completed, main, op>>

(* A wake-up nobody sent: the loop around the wait tests again.            *)
SpuriousWakeup ==
    /\ thr = "paused" /\ thr' = "lock"
    /\ UNCHANGED <<state, flags, scan_complete, scan_completed, main, op>>

SendAccepted ==
    /\ thr = "send" /\ Answers /\ thr' = "scanning"
    /\ UNCHANGED <<state, flags, scan_complete, scan_completed, main, op>>

SendRefused ==
    /\ thr = "send" /\ thr' = "backoff"
    /\ UNCHANGED <<state, flags, scan_complete, scan_completed, main, op>>

BackedOff ==
    /\ thr = "backoff" /\ thr' = "top"
    /\ UNCHANGED <<state, flags, scan_complete, scan_completed, main, op>>

(* Mutant: a scan that timed out does not serve the request.               *)
ScanOverDropped ==
    /\ thr = "scanning" /\ (scan_complete = 1 => Answers)
    /\ thr' = IF scan_complete = 1 THEN "report" ELSE "top"
    /\ UNCHANGED <<state, flags, scan_complete, scan_completed, main, op>>

(* The results were announced and read, or five seconds passed without an  *)
(* announcement; either way the request counts as served.                  *)
ScanOver ==
    /\ thr = "scanning" /\ (scan_complete = 1 => Answers) /\ thr' = "report"
    /\ UNCHANGED <<state, flags, scan_complete, scan_completed, main, op>>

ResultsRefused ==
    /\ thr = "scanning" /\ scan_complete = 1
    /\ thr' = "top"
    /\ UNCHANGED <<state, flags, scan_complete, scan_completed, main, op>>

(* Mutant: served requests are counted.                                    *)
ReportCounts ==
    /\ thr = "report" /\ thr' = "wait"
    /\ scan_completed' = scan_completed + 1
    /\ UNCHANGED <<state, flags, scan_complete, main, op>>

Report ==
    /\ thr = "report" /\ thr' = "wait"
    /\ scan_completed' = 1
    /\ UNCHANGED <<state, flags, scan_complete, main, op>>

WaitOver ==
    /\ thr = "wait" /\ thr' = "top"
    /\ UNCHANGED <<state, flags, scan_complete, scan_completed, main, op>>

-----------------------------------------------------------------------------
(* The event thread: the events that concern scanning.                     *)

ScanResultsEvent ==
    /\ gwifi = 1 /\ scan_complete' = 1
    /\ UNCHANGED <<state, flags, scan_completed, thr, main, op>>

(* TERMINATING: wpa_supplicant went away, with or without the event thread *)
(* to notice it ...                                                        *)
Terminating ==
    /\ Answers
    /\ gwifi' = 0 /\ terminated' = "ended"
    /\ UNCHANGED <<mutex, scan_running, flags, scan_complete, scan_completed,
                   thr, main, op, undefined>>

(* ... or one of its answers timed out, to whichever thread: the event     *)
(* thread ends all the same, and wpa_supplicant lives on.                  *)
TimedOut ==
    /\ gwifi = 1
    /\ gwifi' = 0 /\ terminated' = "timeout"
    /\ UNCHANGED <<mutex, scan_running, flags, scan_complete, scan_completed,
                   thr, main, op, undefined>>

-----------------------------------------------------------------------------
(* The application thread.                                                 *)

(* aw_wifi_on: gwifi_state is set long before the scan thread is started.  *)
On ==
    /\ main = "idle" /\ gwifi = 0
    /\ gwifi' = 1 /\ main' = "starting"
    /\ UNCHANGED <<mutex, scan_running, flags, scan_complete, scan_completed,
                   thr, op, terminated, undefined>>

(* start_wifi_scan_thread.  Over a scan thread that still runs it          *)
(* initialises a mutex in use.  scan_pause keeps its value.                *)
StartScanThread ==
    /\ main = "starting" /\ main' = "idle"
    /\ IF thr = "none"
       THEN /\ mutex' = "live" /\ scan_running' = 1 /\ thr' = "top"
            /\ UNCHANGED undefined
       ELSE /\ undefined' = "reinit"
            /\ UNCHANGED <<mutex, scan_running, thr>>
    /\ UNCHANGED <<gwifi, terminated, flags, scan_complete, scan_completed, op>>

(* Where a function goes first; "resume" when it refuses (busy, no ssid)   *)
(* before it has paused the thread.                                        *)
FirstPlaces(f) ==
    CASE f = "scan" -> {"update"}
      [] f = "results" -> {"lookup"}
      [] f = "connect" -> {"lookup", "resume"}
      [] f \in {"with_netid", "add"} -> {"pause", "resume"}
      [] OTHER -> {"pause"}

(* Every function but aw_wifi_get_netid returns at once when Wi-Fi is off. *)
Call(f) ==
    /\ main = "idle" /\ mutex # "none"
    /\ gwifi = 1 \/ f = "get_netid"
    /\ main' \in FirstPlaces(f) /\ op' = f
    /\ UNCHANGED <<state, flags, scan_complete, scan_completed, thr>>

(* update_scan_results: clear the flag, wake the thread if it waits ...    *)
Request ==
    /\ main = "update" /\ main' = "poll"
    /\ scan_completed' = 0
    /\ thr' = IF thr = "wait" THEN "top" ELSE thr
    /\ UNCHANGED <<state, flags, scan_complete, op>>

(* ... and poll until it is set again, or 3.2 s have passed.               *)
PollOver ==
    /\ main = "poll"
    /\ main' = IF op = "scan" THEN "idle" ELSE "lookup2"
    /\ UNCHANGED <<state, flags, scan_complete, scan_completed, thr, op>>

(* get_scan_results_inner, or get_key_mgmt of a connect: a network that is *)
(* not in the results is looked up again after an update.                  *)
Lookup ==
    /\ main \in {"lookup", "lookup2"} /\ LockFree
    /\ main' \in IF op = "results" THEN {"idle"}
                 ELSE {"pause", IF main = "lookup" THEN "update" ELSE "resume"}
    /\ UNCHANGED <<state, flags, scan_complete, scan_completed, thr, op>>

(* Mutant: scan_mutex is not locked.                                       *)
PauseUnlocked ==
    /\ main = "pause" /\ main' = "work"
    /\ scan_pause' = 1
    /\ UNCHANGED <<state, leaked, scan_complete, scan_completed, thr, op>>

(* pause_wifi_scan_thread.                                                 *)
Pause ==
    /\ main = "pause" /\ LockFree
    /\ IF mutex = "live"
       THEN main' = "work" /\ scan_pause' = 1 /\ UNCHANGED undefined
       ELSE undefined' = op /\ UNCHANGED <<main, scan_pause>>
    /\ UNCHANGED <<gwifi, mutex, scan_running, terminated, leaked,
                   scan_complete, scan_completed, thr, op>>

(* Mutant: disconnecting returns early, too.                               *)
WorkNeverResumes ==
    /\ main = "work"
    /\ main' \in IF op \in {"remove", "disconnect"} THEN {"idle", "resume"} ELSE {"resume"}
    /\ leaked' = IF main' = "idle" /\ op = "remove" THEN 1 ELSE leaked
    /\ UNCHANGED <<state, scan_pause, scan_complete, scan_completed, thr, op>>

(* The exchange with wpa_supplicant.  aw_wifi_remove_network returns from  *)
(* the middle when the network is not saved or a command is refused.       *)
Work ==
    /\ main = "work"
    /\ \/ main' = "resume" /\ UNCHANGED leaked
       \/ op = "remove" /\ main' = "idle" /\ leaked' = 1
    /\ UNCHANGED <<state, scan_pause, scan_complete, scan_completed, thr, op>>

(* resume_wifi_scan_thread: clear the flag under the mutex ...             *)
Resume ==
    /\ main = "resume" /\ LockFree
    /\ main' = "signal" /\ scan_pause' = 0 /\ leaked' = 0
    /\ UNCHANGED <<state, scan_complete, scan_completed, thr, op>>

(* Mutant: the condition is not signalled.                                 *)
SignalNobody ==
    /\ main = "signal" /\ main' = "idle"
    /\ UNCHANGED <<state, flags, scan_complete, scan_completed, thr, op>>

(* ... and signal scan_cond after it has been released.                    *)
Signal ==
    /\ main = "signal" /\ main' = "idle"
    /\ thr' = IF thr = "paused" THEN "lock" ELSE thr
    /\ UNCHANGED <<state, flags, scan_complete, scan_completed, op>>

(* Mutant: the thread is not told to stop.                                 *)
StopKeepsRunning ==
    /\ main = "idle" /\ gwifi = 1
    /\ main' = "join"
    /\ UNCHANGED <<state, flags, scan_complete, scan_completed, thr, op>>

(* aw_wifi_off, stop_wifi_scan_thread: tell the thread to stop ...         *)
Off ==
    /\ main = "idle" /\ gwifi = 1
    /\ main' = "join" /\ scan_running' = 0
    /\ UNCHANGED <<gwifi, mutex, terminated, undefined, flags, scan_complete,
                   scan_completed, thr, op>>

(* Mutant: the thread is not waited for.                                   *)
DestroyUnjoined ==
    /\ main = "join" /\ main' = "closing"
    /\ mutex' = "destroyed"
    /\ UNCHANGED <<gwifi, scan_running, terminated, undefined, flags,
                   scan_complete, scan_completed, thr, op>>

(* ... wait for it, and destroy what it used.                              *)
Join ==
    /\ main = "join" /\ thr = "exit"
    /\ main' = "closing" /\ thr' = "none" /\ mutex' = "destroyed"
    /\ terminated' = "no"
    /\ UNCHANGED <<gwifi, scan_running, undefined, flags,
                   scan_complete, scan_completed, op>>

Close ==
    /\ main = "closing" /\ main' = "idle" /\ gwifi' = 0
    /\ UNCHANGED <<mutex, scan_running, terminated, undefined, flags,
                   scan_complete, scan_completed, thr, op>>

-----------------------------------------------------------------------------
ScanThread ==
    \/ TestRunning \/ Enter \/ SpuriousWakeup \/ SendAccepted \/ SendRefused
    \/ BackedOff \/ ScanOver \/ ResultsRefused \/ Report \/ WaitOver

EventThread == ScanResultsEvent \/ Terminating \/ TimedOut

Application ==
    \/ On \/ StartScanThread \/ Request \/ PollOver \/ Lookup
    \/ Pause \/ Work \/ Resume \/ Signal \/ Off \/ Join \/ Close
    \/ \E f \in Calls : Call(f)

(* After a use of an uninitialised mutex nothing is promised.              *)
Undefined == undefined # "no" /\ UNCHANGED vars

Next == \/ undefined = "no" /\ (ScanThread \/ EventThread \/ Application)
        \/ Undefined

Spec == Init /\ [][Next]_vars

(* Every wait of the scan thread has a time limit, so each of its steps is *)
(* taken; an application that clears scan_pause goes on to signal.  SF: a  *)
(* wpa_supplicant that runs does not refuse every SCAN or SCAN_RESULTS.    *)
Defined(A) == undefined = "no" /\ A
Fairness ==
    /\ WF_vars(Defined(TestRunning \/ Enter \/ BackedOff \/ Report \/ WaitOver))
    /\ WF_vars(Defined(SendAccepted \/ SendRefused))
    /\ WF_vars(Defined(ScanOver \/ ResultsRefused))
    /\ SF_vars(Defined(SendAccepted)) /\ SF_vars(Defined(ScanOver))
    /\ WF_vars(Defined(Signal)) /\ WF_vars(Defined(Join))

FairSpec == Spec /\ Fairness

-----------------------------------------------------------------------------
(* While a function of the interface talks to wpa_supplicant in its paused *)
(* section, the scan thread neither sends SCAN nor has a scan under way:   *)
(* the two never compete for the one control connection.                   *)
PausedMeansQuiet == main = "work" => thr \notin {"send", "scanning"}

(* A scan thread that sleeps on scan_cond is paused still, or is about to  *)
(* be signalled: resume_wifi_scan_thread signals without the mutex and     *)
(* even so no wake-up is lost.                                             *)
NoLostResume == thr = "paused" => scan_pause = 1 \/ main = "signal"

(* The scan thread never runs on a destroyed mutex and the application     *)
(* locks only a live one, except through aw_wifi_get_netid, which does not *)
(* test gwifi_state; and only after the event thread ended by itself can   *)
(* aw_wifi_on start a second thread over the mutex of the first.           *)
MutexSafe ==
    /\ thr \notin {"none", "exit"} => mutex = "live"
    /\ main \in {"lookup", "lookup2", "update", "work", "resume"} => mutex = "live"
    /\ undefined = "reinit" => thr # "none" /\ mutex = "live"
    /\ main = "starting" /\ thr # "none" => terminated # "no"

(* Outside a paused section the thread is not left paused, except by the   *)
(* early returns of aw_wifi_remove_network.                                *)
NoPauseLeak == scan_pause = 1 => main \in {"work", "resume"} \/ leaked = 1

(* aw_wifi_off, which joins the scan thread, returns unless a failed       *)
(* aw_wifi_remove_network has left the thread paused.                      *)
StopFinishes == main = "join" /\ leaked = 0 ~> main # "join"

(* A request for a scan is served as long as the thread is neither paused  *)
(* nor stopped and there is a wpa_supplicant, whatever the thread was      *)
(* doing when the request came, and also after a command timed out.        *)
RequestServed ==
    scan_completed = 0 /\ scan_running = 1 ~>
        \/ scan_completed = 1 \/ scan_pause = 1 \/ scan_running = 0
        \/ undefined # "no" \/ ~Answers
=============================================================================
