---------------------------- MODULE WifiConnect ----------------------------
(***************************************************************************)
(* The connection state machine of the Wi-Fi manager.  No lock protects    *)
(* it: gwifi_machine_state, wifi_event_inner, netid_connecting and         *)
(* disconnecting are read and written by                                   *)
(*   - the application, in the functions of wifimanager.c;                 *)
(*   - the event thread of wifi_event.c;                                   *)
(*   - threads that are started for one purpose and never waited for: the  *)
(*     DHCP thread of udhcpc_thread.c after every association, the watch   *)
(*     of aw_wifi_connect_ap_auto and the one of aw_wifi_on.               *)
(* A step is one command, or one access to the shared state (two where no  *)
(* thread looks at both).  Waiting loops end when they see what they wait  *)
(* for or when their time is over; time itself is not modelled, nor what   *)
(* the callbacks tell the application.                                     *)
(***************************************************************************)
EXTENDS Integers, Sequences

CONSTANTS
    Nets,        \* network ids of wpa_supplicant
    Known,       \* the ones in its configuration at start
    Slots,       \* places for the threads started in the background
    Calls,       \* the functions this application calls
    Faults,      \* commands that wpa_supplicant may refuse
    MaxCalls,    \* bound on calls of the application and on answers that are late
    MaxAir,      \* bound on what happens on the air
    MaxRejects,  \* MAX_ASSOC_REJECT_COUNT
    MaxFails     \* MAX_RETRIES_ON_AUTHENTICATION_FAILURE

Functions == {"connect", "add", "with_netid", "auto", "disconnect", "remove", "off"}
Commands == {"select", "save", "reconnect", "disconnect", "drop"}

ASSUME ConnectAssumption ==
    /\ "none" \notin Nets /\ Known \subseteq Nets
    /\ Calls \subseteq Functions /\ Faults \subseteq Commands
    /\ MaxCalls \in Nat /\ MaxAir \in Nat
    /\ MaxRejects \in Nat \ {0} /\ MaxFails \in Nat \ {0}

VARIABLES
    state,           \* gwifi_machine_state
    event,           \* wifi_event_inner
    netid,           \* netid_connecting
    disconnecting,
    rejects, fails,  \* assoc_reject_count, authentication_fail_count
    app, op, net,    \* where the application is, in which function, for which network
    evt,             \* where the event thread is
    kind, at,        \* the background threads: what each is and where
    link, want,      \* wpa_supplicant: the network it is on, whether it wants one
    sel, conf,       \* ... the networks enabled and the networks known
    evq,             \* ... the events it has sent
    on,              \* gwifi_state # WIFIMG_WIFI_DISABLED
    alone,           \* wpa_supplicant runs, or made its link, while Wi-Fi was off here
    stranded,        \* a refused SELECT_NETWORK left the state at CONNECTING, or a loss
                     \* handled too early left it at DISCONNECTING
    calls, air       \* spent of MaxCalls and of MaxAir

machine == <<state, event, netid, disconnecting, rejects, fails, stranded>>
application == <<app, op, net>>
background == <<kind, at>>
supplicant == <<link, want, sel, conf, evq>>
bounds == <<calls, air>>
vars == <<machine, application, evt, background, supplicant, on, alone, bounds>>

States == {"DISCONNECTED", "CONNECTING", "L2CONNECTED", "CONNECTED", "DISCONNECTING"}
InnerEvents == {"AP_DISCONNECTED", "AP_CONNECTED", "PASSWORD_INCORRECT",
                "CONNECT_AP_TIMEOUT", "OBTAINING_IP_TIMEOUT"}
AppPlaces == {"idle", "onset", "onsync", "onup", "onnote", "check", "begin", "select",
              "save", "reconnect", "count", "start", "poll", "send", "set", "note",
              "enable", "keep", "restore", "reset", "flag", "dcheck", "dset", "dsend",
              "dpoll", "crashed"}
EvtPlaces == {"wait", "drop", "up", "start", "lostset", "lostnote",
              "keysend", "keyset", "keynote"}
BgPlaces == {"free", "poll", "recheck", "send", "set", "note", "up", "upnote"}
AirEvents == {"CONNECTED", "DISCONNECTED", "WRONG_KEY", "ASSOC_REJECT"}
Net == Nets \cup {"none"}

TypeOK ==
    /\ state \in States /\ event \in InnerEvents /\ netid \in Net
    /\ disconnecting \in {0, 1} /\ stranded \in {0, 1} /\ on \in {0, 1} /\ alone \in {0, 1}
    /\ rejects \in 0..MaxRejects /\ fails \in 0..MaxFails
    /\ app \in AppPlaces /\ op \in Functions \cup {"connect_wep", "none"} /\ net \in Net
    /\ evt \in EvtPlaces
    /\ kind \in [Slots -> {"none", "dhcp", "timeout", "oncheck"}] /\ at \in [Slots -> BgPlaces]
    /\ link \in Net /\ want \in {0, 1}
    /\ sel \subseteq Nets /\ conf \subseteq Nets /\ evq \in Seq(AirEvents)
    /\ calls \in 0..MaxCalls /\ air \in 0..MaxAir

(* Wi-Fi off; wpa_supplicant may run already, for another process.         *)
Init ==
    /\ state = "DISCONNECTED" /\ event = "AP_DISCONNECTED" /\ netid = "none"
    /\ disconnecting = 0 /\ rejects = 0 /\ fails = 0 /\ stranded = 0
    /\ app = "idle" /\ op = "none" /\ net = "none" /\ evt = "wait" /\ on = 0
    /\ kind = [s \in Slots |-> "none"] /\ at = [s \in Slots |-> "free"]
    /\ conf = Known /\ sel = Known
    /\ alone \in {0, 1} /\ link \in (IF alone = 1 THEN Known ELSE {}) \cup {"none"}
    /\ want = 1 /\ evq = <<>>
    /\ calls = 0 /\ air = 0

Busy == state \notin {"CONNECTED", "DISCONNECTED"}
Joined == state \in {"L2CONNECTED", "CONNECTED"}
PasswordFailed == state = "DISCONNECTED" /\ event = "PASSWORD_INCORRECT"
TooManyRejects == rejects >= MaxRejects

(* A loss of the link that the event thread has yet to deal with.          *)
Pending(q, e) == \E i \in 1..Len(q) : q[i] = e
LossPending == Pending(evq, "DISCONNECTED") \/ evt = "lostset"

-----------------------------------------------------------------------------
(* wpa_supplicant (external).  Without it every command fails.             *)

Alive == on = 1 \/ alone = 1

Refused(c) == c \in Faults \/ ~Alive

(* LIST_NETWORKS.                                                          *)
Listed == IF Alive THEN conf ELSE {}

(* It sends an event; nobody listens while Wi-Fi is off.                   *)
Send(e) == evq' = IF on = 1 THEN Append(evq, e) ELSE evq

MoveTo(l) ==
    /\ link' = l
    /\ IF link # "none" /\ l = "none" THEN Send("DISCONNECTED") ELSE UNCHANGED evq

(* DISCONNECT, whose refusal most callers ignore; c is "drop" when it is   *)
(* the event thread that sends it.                                         *)
DisconnectDone == Alive /\ want' = 0 /\ MoveTo("none") /\ UNCHANGED <<sel, conf>>
DisconnectRefused(c) == Refused(c) /\ UNCHANGED supplicant
Disconnect(c) == DisconnectDone \/ DisconnectRefused(c)

(* REMOVE_NETWORK: a network in use is left.                               *)
Remove(S) ==
    /\ conf' = IF Alive THEN conf \ S ELSE conf
    /\ MoveTo(IF link \in S THEN "none" ELSE link)

(* DISABLE_NETWORK, likewise.                                              *)
Disable(S) ==
    /\ sel' = sel \ S
    /\ MoveTo(IF link \in S THEN "none" ELSE link)

Air(e) == /\ Alive /\ want = 1 /\ air < MaxAir /\ air' = air + 1
          /\ Send(e)
          /\ UNCHANGED <<machine, application, evt, background, want, sel, conf, on, alone,
                         calls>>

Associate(n) == link = "none" /\ n \in sel \cap conf /\ link' = n /\ Air("CONNECTED")
LinkLost == link # "none" /\ link' = "none" /\ Air("DISCONNECTED")
WrongKey == link = "none" /\ sel # {} /\ UNCHANGED link /\ Air("WRONG_KEY")
Reject == link = "none" /\ sel # {} /\ UNCHANGED link /\ Air("ASSOC_REJECT")

Gone ==
    /\ on' = 0 /\ alone' = 0 /\ link' = "none" /\ want' = 0 /\ evq' = <<>>
    /\ UNCHANGED <<sel, conf>>

(* It ends by itself: the event TERMINATING ends the event thread and      *)
(* turns Wi-Fi off under whatever the others are doing.                    *)
Terminating ==
    /\ Alive /\ (on = 1 => evt = "wait") /\ Gone
    /\ air < MaxAir /\ air' = air + 1
    /\ UNCHANGED <<machine, application, evt, background, calls>>

(* An answer to some thread's command is late: a TERMINATING made up here  *)
(* does the same once the events that have come are read, but              *)
(* wpa_supplicant, its link and the socket for commands live on.           *)
TimedOut ==
    /\ on = 1 /\ evt = "wait" /\ evq = <<>>
    /\ on' = 0 /\ alone' = 1
    /\ calls < MaxCalls /\ calls' = calls + 1
    /\ UNCHANGED <<machine, application, evt, background, supplicant, air>>

-----------------------------------------------------------------------------
(* Background threads.                                                     *)

Start(k) ==
    /\ \E s \in Slots : at[s] = "free"
    /\ LET s == CHOOSE s \in Slots : at[s] = "free"
       IN  kind' = [kind EXCEPT ![s] = k] /\ at' = [at EXCEPT ![s] = "poll"]

(* A thread goes on as long as the process lives.                          *)
BgGo(s, p) ==
    /\ app # "crashed"
    /\ at' = [at EXCEPT ![s] = p]
    /\ kind' = IF p = "free" THEN [kind EXCEPT ![s] = "none"] ELSE kind
    /\ UNCHANGED <<application, evt, on, alone, bounds>>

(* udhcpc_thread waits for an address; one left over from before counts.   *)
DhcpPoll(s) ==
    /\ kind[s] = "dhcp" /\ at[s] = "poll"
    /\ \/ disconnecting = 0 /\ BgGo(s, "up")
       \/ BgGo(s, "send")
    /\ UNCHANGED <<machine, supplicant>>

DhcpUp(s) ==
    /\ at[s] = "up" /\ state' = "CONNECTED" /\ BgGo(s, "upnote")
    /\ UNCHANGED <<event, netid, disconnecting, rejects, fails, stranded, supplicant>>

DhcpUpNote(s) ==
    /\ at[s] = "upnote" /\ event' = "AP_CONNECTED" /\ BgGo(s, "free")
    /\ UNCHANGED <<state, netid, disconnecting, rejects, fails, stranded, supplicant>>

(* check_connect_timeout ends its loop on a wrong password, on too many    *)
(* rejections, on an association or when its time is over ...              *)
TimeoutPoll(s) ==
    /\ kind[s] = "timeout" /\ at[s] = "poll"
    /\ rejects' = IF TooManyRejects /\ ~PasswordFailed THEN 0 ELSE rejects
    /\ BgGo(s, "recheck")
    /\ UNCHANGED <<state, event, netid, disconnecting, fails, stranded, supplicant>>

(* ... and then looks at the state once more.                              *)
TimeoutRecheck(s) ==
    /\ at[s] = "recheck"
    /\ BgGo(s, IF state = "CONNECTING" THEN "send" ELSE "free")
    /\ UNCHANGED <<machine, supplicant>>

(* Mutant: the loop has no limit.                                          *)
OnCheckPollForever(s) ==
    /\ kind[s] = "oncheck" /\ at[s] = "poll"
    /\ BgGo(s, IF Joined THEN "free" ELSE "poll")
    /\ UNCHANGED <<machine, supplicant>>

(* wifi_on_check_connect_timeout gives up whatever the state is, unless    *)
(* there is an association.                                                *)
OnCheckPoll(s) ==
    /\ kind[s] = "oncheck" /\ at[s] = "poll"
    /\ BgGo(s, IF Joined THEN "free" ELSE "send")
    /\ UNCHANGED <<machine, supplicant>>

(* All three give up alike; only wifi_on_check leaves the event alone.     *)
BgSend(s) ==
    /\ at[s] = "send" /\ Disconnect("disconnect") /\ BgGo(s, "set")
    /\ UNCHANGED machine

BgSet(s) ==
    /\ at[s] = "set" /\ state' = "DISCONNECTED"
    /\ BgGo(s, IF kind[s] = "oncheck" THEN "free" ELSE "note")
    /\ UNCHANGED <<event, netid, disconnecting, rejects, fails, stranded, supplicant>>

BgNote(s) ==
    /\ at[s] = "note" /\ BgGo(s, "free")
    /\ event' = IF kind[s] = "dhcp" THEN "OBTAINING_IP_TIMEOUT" ELSE "CONNECT_AP_TIMEOUT"
    /\ UNCHANGED <<state, netid, disconnecting, rejects, fails, stranded, supplicant>>

Background(s) ==
    \/ DhcpPoll(s) \/ DhcpUp(s) \/ DhcpUpNote(s) \/ TimeoutPoll(s) \/ TimeoutRecheck(s)
    \/ OnCheckPoll(s) \/ BgSend(s) \/ BgSet(s) \/ BgNote(s)

-----------------------------------------------------------------------------
(* The event thread: dispatch_event and handle_event.                      *)

EvtGo(p) == app # "crashed" /\ evt' = p /\ UNCHANGED <<application, on, alone, bounds>>

Receive(e) ==
    /\ evt = "wait" /\ evq # <<>> /\ Head(evq) = e
    /\ evq' = Tail(evq)
    /\ UNCHANGED <<background, link, want, sel, conf>>

(* Mutant: only the loss of a connection in use counts.                    *)
OnDisconnectedJoined ==
    /\ Receive("DISCONNECTED")
    /\ EvtGo(IF Joined THEN "lostset" ELSE "wait")
    /\ UNCHANGED machine

OnDisconnected ==
    /\ Receive("DISCONNECTED")
    /\ EvtGo(IF Joined \/ state = "DISCONNECTING" THEN "lostset" ELSE "wait")
    /\ UNCHANGED machine

(* Mutant: any network will do.                                            *)
OnConnectedUnchecked ==
    /\ Receive("CONNECTED") /\ EvtGo("up")
    /\ UNCHANGED machine

(* The network wpa_supplicant is on now, if any, is compared with the one  *)
(* the application asked for; another one is dropped.                      *)
OnConnected ==
    /\ Receive("CONNECTED")
    /\ EvtGo(IF netid \notin {"none", link} THEN "drop" ELSE "up")
    /\ UNCHANGED machine

OnWrongKey ==
    /\ Receive("WRONG_KEY")
    /\ fails' = IF fails < MaxFails THEN fails + 1 ELSE fails
    /\ EvtGo(IF fails' >= MaxFails THEN "keysend" ELSE "wait")
    /\ UNCHANGED <<state, event, netid, disconnecting, rejects, stranded>>

OnAssocReject ==
    /\ Receive("ASSOC_REJECT")
    /\ rejects' = IF rejects < MaxRejects THEN rejects + 1 ELSE rejects
    /\ EvtGo(IF rejects' >= MaxRejects THEN "drop" ELSE "wait")
    /\ UNCHANGED <<state, event, netid, disconnecting, fails, stranded>>

EvtSend ==
    /\ \/ evt = "drop" /\ EvtGo("wait")
       \/ evt = "keysend" /\ EvtGo("keyset")
    /\ Disconnect("drop")
    /\ UNCHANGED <<machine, background>>

EvtUp ==
    /\ evt = "up" /\ rejects' = 0 /\ state' = "L2CONNECTED" /\ EvtGo("start")
    /\ UNCHANGED <<event, netid, disconnecting, fails, stranded, background, supplicant>>

EvtStart ==
    /\ evt = "start" /\ Start("dhcp") /\ EvtGo("wait")
    /\ UNCHANGED <<machine, supplicant>>

EvtSet ==
    /\ \/ evt = "lostset" /\ EvtGo("lostnote")
       \/ evt = "keyset" /\ EvtGo("keynote")
    /\ state' = "DISCONNECTED"
    /\ UNCHANGED <<event, netid, disconnecting, rejects, fails, stranded, background, supplicant>>

EvtNote ==
    /\ \/ evt = "lostnote" /\ event' = "AP_DISCONNECTED"
       \/ evt = "keynote" /\ event' = "PASSWORD_INCORRECT"
    /\ EvtGo("wait")
    /\ UNCHANGED <<state, netid, disconnecting, rejects, fails, stranded, background, supplicant>>

EventThread ==
    \/ OnDisconnected \/ OnConnected \/ OnWrongKey \/ OnAssocReject
    \/ EvtSend \/ EvtUp \/ EvtStart \/ EvtSet \/ EvtNote

-----------------------------------------------------------------------------
(* The application.                                                        *)

(* What a function keeps in its own variables ends with it.                *)
AppAt(p) ==
    /\ app' = p
    /\ op' = IF p = "idle" THEN "none" ELSE op
    /\ net' = IF p = "idle" THEN "none" ELSE net
    /\ UNCHANGED <<evt, on, bounds>>

AppGo(p) == AppAt(p) /\ UNCHANGED alone

(* aw_wifi_on: reach a wpa_supplicant that runs, which keeps the link it   *)
(* has, or start one; start the event thread ...                           *)
On ==
    /\ app = "idle" /\ on = 0
    /\ on' = 1 /\ app' = "onset" /\ event' = "AP_DISCONNECTED"
    /\ IF alone = 1 THEN UNCHANGED <<want, sel>> ELSE want' = 1 /\ sel' = conf
    /\ alone' = IF netid = "none" \/ link \in {"none", netid} THEN 0 ELSE alone
    /\ UNCHANGED <<state, netid, disconnecting, rejects, fails, stranded, op, net, evt,
                   background, link, conf, evq, bounds>>

(* ... wait for the connection wpa_supplicant makes by itself, if it knows *)
(* a network; neither netid_connecting nor disconnecting is reset.         *)
OnSet ==
    /\ app = "onset" /\ stranded' = 0
    /\ \/ Listed # {} /\ state' = "CONNECTING" /\ AppGo("onsync")
       \/ Listed = {} /\ state' = "DISCONNECTED" /\ AppGo("idle")
    /\ UNCHANGED <<event, netid, disconnecting, rejects, fails, background, supplicant>>

OnSync ==
    /\ app = "onsync"
    /\ \/ link # "none" /\ AppGo("onup") /\ UNCHANGED background
       \/ Start("oncheck") /\ AppGo("idle")
    /\ UNCHANGED <<machine, supplicant>>

OnUp ==
    /\ app = "onup" /\ state' = "CONNECTED" /\ AppGo("onnote")
    /\ UNCHANGED <<event, netid, disconnecting, rejects, fails, stranded, background, supplicant>>

OnNote ==
    /\ app = "onnote" /\ event' = "AP_CONNECTED" /\ AppGo("idle")
    /\ UNCHANGED <<state, netid, disconnecting, rejects, fails, stranded, background, supplicant>>

(* aw_wifi_off: wpa_supplicant is stopped; the event thread ends when it   *)
(* is through with its last event; the state machine and the background    *)
(* threads stay as they are.                                               *)
Off ==
    /\ "off" \in Calls /\ app = "idle" /\ on = 1 /\ Gone
    /\ calls < MaxCalls /\ calls' = calls + 1
    /\ UNCHANGED <<machine, application, evt, background, air>>

(* aw_wifi_remove_network and aw_wifi_remove_all_networks.                 *)
RemoveNetworks ==
    /\ "remove" \in Calls /\ app = "idle" /\ on = 1
    /\ \E S \in {{n} : n \in conf} \cup {conf} : Remove(S) /\ sel' = sel \ S
    /\ calls < MaxCalls /\ calls' = calls + 1
    /\ UNCHANGED <<machine, application, evt, background, want, on, alone, air>>

(* The other functions.  Connecting by name and adding make a new network  *)
(* id; connecting by id takes the application's word for it.               *)
Call(f) ==
    /\ f \notin {"off", "remove"} /\ app = "idle" /\ on = 1
    /\ calls < MaxCalls /\ calls' = calls + 1
    /\ op' = f /\ app' = IF f = "disconnect" THEN "flag" ELSE "check"
    /\ net' \in IF f \in {"connect", "add"} THEN Nets \ conf
                ELSE IF f = "with_netid" THEN Nets ELSE {"none"}
    /\ UNCHANGED <<machine, evt, background, supplicant, on, alone, air>>

(* A busy aw_wifi_add_network leaves through its error path.  A network    *)
(* the scan does not find is not connected to.                             *)
Check ==
    /\ app = "check"
    /\ \/ Busy /\ AppGo(IF op = "add" THEN "restore" ELSE "idle")
       \/ ~Busy /\ op \in {"connect", "add"} /\ AppGo("begin")
       \/ ~Busy /\ op = "connect" /\ AppGo("idle")
       \/ ~Busy /\ op = "with_netid" /\ AppGo(IF state = "CONNECTED" THEN "flag" ELSE "begin")
       \/ /\ ~Busy /\ op = "auto"
          /\ AppGo(IF state = "DISCONNECTED" /\ Listed # {} THEN "begin" ELSE "idle")
    /\ UNCHANGED <<machine, background, supplicant>>

Begin ==
    /\ app = "begin" /\ AppGo(IF op = "auto" THEN "reconnect" ELSE "select")
    /\ state' = "CONNECTING" /\ disconnecting' = 0 /\ stranded' = 0
    /\ netid' = IF op = "auto" THEN "none" ELSE netid
    /\ UNCHANGED <<event, rejects, fails, background, supplicant>>

(* ADD_NETWORK and SET_NETWORK for a new network, then SELECT_NETWORK,     *)
(* which leaves any other network.                                         *)
Select ==
    /\ app = "select" /\ Alive /\ (op = "with_netid" => net \in conf)
    /\ AppGo("save")
    /\ conf' = conf \cup {net} /\ sel' = {net} /\ want' = 1
    /\ MoveTo(IF link = net THEN link ELSE "none")
    /\ UNCHANGED <<machine, background>>

(* aw_wifi_connect_ap_with_netid returns from here with the state as it is.*)
SelectRefused ==
    /\ app = "select"
    /\ Refused("select") \/ (op = "with_netid" /\ net \notin conf)
    /\ IF op = "with_netid" THEN AppGo("idle") /\ stranded' = 1
                            ELSE AppGo("restore") /\ UNCHANGED stranded
    /\ UNCHANGED <<state, event, netid, disconnecting, rejects, fails, background, supplicant>>

(* Adding a network saves the configuration first.  A link of which nobody *)
(* was told is gone since SELECT_NETWORK.                                  *)
Save ==
    /\ app = "save"
    /\ \/ op = "add" /\ Alive /\ netid' = net /\ AppAt("count")
       \/ op = "add" /\ Refused("save") /\ UNCHANGED netid /\ AppAt("restore")
       \/ op # "add" /\ netid' = net /\ AppAt("reconnect")
    /\ alone' = IF on = 1 /\ netid' = net THEN 0 ELSE alone
    /\ UNCHANGED <<state, event, disconnecting, rejects, fails, stranded, background, supplicant>>

Reconnect ==
    /\ app = "reconnect" /\ Alive /\ want' = 1
    /\ AppGo(IF op = "auto" THEN "start" ELSE "count")
    /\ UNCHANGED <<machine, background, link, sel, conf, evq>>

(* Mutant: a refused RECONNECT ends aw_wifi_connect_ap_auto.               *)
ReconnectRefusedGivesUp ==
    /\ app = "reconnect" /\ Refused("reconnect")
    /\ AppGo(IF op = "auto" THEN "idle" ELSE IF op = "with_netid" THEN "count" ELSE "restore")
    /\ UNCHANGED <<machine, background, supplicant>>

(* Only connecting by name gives up when RECONNECT is refused.             *)
ReconnectRefused ==
    /\ app = "reconnect" /\ Refused("reconnect")
    /\ AppGo(IF op = "auto" THEN "start" ELSE IF op = "with_netid" THEN "count" ELSE "restore")
    /\ UNCHANGED <<machine, background, supplicant>>

ResetCount ==
    /\ app = "count" /\ rejects' = 0 /\ AppGo("poll")
    /\ UNCHANGED <<state, event, netid, disconnecting, fails, stranded, background, supplicant>>

StartTimeout ==
    /\ app = "start" /\ Start("timeout") /\ AppGo("idle")
    /\ UNCHANGED <<machine, supplicant>>

(* The access point was reached, if only for a while.                      *)
Reached == Joined \/ (state = "DISCONNECTED" /\ event = "OBTAINING_IP_TIMEOUT")

(* The wait for the connection is over: by success, by a wrong password or *)
(* because 45 s have passed.                                               *)
PollOver ==
    /\ app = "poll" /\ (TooManyRejects => PasswordFailed)
    /\ \/ state = "CONNECTING" /\ AppGo("send")
       \/ state # "CONNECTING" /\ op = "with_netid" /\ AppGo("idle")
       \/ /\ state # "CONNECTING" /\ op # "with_netid"
          /\ AppGo(IF PasswordFailed THEN "restore" ELSE IF Reached THEN "enable" ELSE "keep")
    /\ Disable(IF op = "with_netid" /\ PasswordFailed THEN {net} ELSE {})
    /\ UNCHANGED <<machine, background, want, conf>>

(* Three rejections end the wait too, but the message about them formats   *)
(* the number 3 as a string: the process dies.                             *)
PollRejected ==
    /\ app = "poll" /\ TooManyRejects /\ ~PasswordFailed
    /\ rejects' = 0 /\ AppGo("crashed")
    /\ UNCHANGED <<state, event, netid, disconnecting, fails, stranded, background, supplicant>>

GiveUpSend ==
    /\ app = "send" /\ Disconnect("disconnect") /\ AppGo("set")
    /\ UNCHANGED <<machine, background>>

GiveUpSet ==
    /\ app = "set" /\ state' = "DISCONNECTED" /\ AppGo("note")
    /\ UNCHANGED <<event, netid, disconnecting, rejects, fails, stranded, background, supplicant>>

GiveUpNote ==
    /\ app = "note" /\ event' = "CONNECT_AP_TIMEOUT"
    /\ AppGo(IF op = "with_netid" THEN "idle" ELSE "restore")
    /\ Disable(IF op = "with_netid" THEN {net} ELSE {})
    /\ UNCHANGED <<state, netid, disconnecting, rejects, fails, stranded, background,
                   want, conf>>

(* Success: an older network of the same name is removed, all are enabled. *)
(* When the connection was lost meanwhile the new network stays as well:   *)
(* adding ends here, connecting by name resets the state.                  *)
Enable ==
    /\ app \in {"enable", "keep"}
    /\ AppGo(IF app = "keep" /\ op # "add" THEN "reset" ELSE "idle")
    /\ \E S \in {{n} : n \in conf \ {net}} \cup {{}} : (app = "keep" => S = {}) /\ Remove(S)
    /\ sel' = conf'
    /\ UNCHANGED <<machine, background, want>>

(* The error path: remove what was added, enable all, reset the state.     *)
Restore ==
    /\ app = "restore" /\ AppGo("reset")
    /\ Remove({net}) /\ sel' = conf'
    /\ UNCHANGED <<machine, background, want>>

(* aw_wifi_connect_ap tries WPA first and WEP after it, as a new network.  *)
Reset ==
    /\ app = "reset" /\ state' = "DISCONNECTED"
    /\ \/ AppGo("idle")
       \/ /\ op = "connect" /\ op' = "connect_wep" /\ app' = "begin"
          /\ net' \in Nets \ conf
          /\ UNCHANGED <<evt, on, alone, bounds>>
    /\ UNCHANGED <<event, netid, disconnecting, rejects, fails, stranded, background, supplicant>>

(* aw_wifi_disconnect_ap, also called first by a connect by id.            *)
AfterDisconnect == IF op = "disconnect" THEN "idle" ELSE "begin"

Flag ==
    /\ app = "flag" /\ disconnecting' = 1 /\ AppGo("dcheck")
    /\ UNCHANGED <<state, event, netid, rejects, fails, stranded, background, supplicant>>

DCheck ==
    /\ app = "dcheck"
    /\ AppGo(IF Joined /\ link # "none" THEN "dset" ELSE AfterDisconnect)
    /\ UNCHANGED <<machine, background, supplicant>>

DSet ==
    /\ app = "dset" /\ state' = "DISCONNECTING" /\ AppGo("dsend")
    /\ UNCHANGED <<event, netid, disconnecting, rejects, fails, stranded, background, supplicant>>

(* If the link was lost and its event dealt with since DCheck, no event    *)
(* will follow.                                                            *)
DSend ==
    /\ app = "dsend"
    /\ \/ DisconnectDone /\ AppGo("dpoll")
       \/ DisconnectRefused("disconnect") /\ AppGo(AfterDisconnect)
    /\ stranded' = IF link = "none" /\ ~LossPending THEN 1 ELSE stranded
    /\ UNCHANGED <<state, event, netid, disconnecting, rejects, fails, background>>

DPoll ==
    /\ app = "dpoll" /\ AppGo(AfterDisconnect)
    /\ UNCHANGED <<machine, background, supplicant>>

(* What the application's thread does by itself once it has called.        *)
Application ==
    \/ OnSet \/ OnSync \/ OnUp \/ OnNote \/ Check \/ Begin \/ Select \/ SelectRefused \/ Save
    \/ Reconnect \/ ReconnectRefused \/ ResetCount \/ StartTimeout \/ PollOver \/ PollRejected
    \/ GiveUpSend \/ GiveUpSet \/ GiveUpNote \/ Enable \/ Restore \/ Reset
    \/ Flag \/ DCheck \/ DSet \/ DSend \/ DPoll

Outside ==
    \/ On \/ Off \/ RemoveNetworks \/ \E f \in Calls : Call(f)
    \/ \E n \in Nets : Associate(n)
    \/ LinkLost \/ WrongKey \/ Reject \/ Terminating \/ TimedOut

(* Nothing has to happen any more, or the process died.                    *)
Quiet == app = "idle" /\ evt = "wait" /\ evq = <<>> /\ \A s \in Slots : at[s] = "free"
Rest == (Quiet \/ app = "crashed") /\ UNCHANGED vars

Next ==
    \/ Application \/ EventThread \/ Outside
    \/ \E s \in Slots : Background(s)
    \/ Rest

Spec == Init /\ [][Next]_vars

(* Every thread that can take a step takes it; every wait has a limit.     *)
Fairness ==
    /\ WF_vars(Application) /\ WF_vars(EventThread)
    /\ \A s \in Slots : WF_vars(Background(s))

FairSpec == Spec /\ Fairness

-----------------------------------------------------------------------------
Ending == {"onsync", "onup", "select", "save", "reconnect", "count", "start", "poll",
           "send", "set", "restore", "reset", "crashed"}

(* The machine is in CONNECTING only while somebody is still going to end  *)
(* it, the application in its own wait or one of the two watches, and in   *)
(* L2CONNECTED only while a DHCP thread is; the one exception is a refused *)
(* SELECT_NETWORK of aw_wifi_connect_ap_with_netid.                        *)
Watched ==
    /\ state = "CONNECTING" =>
         \/ app \in Ending \/ stranded = 1
         \/ \E s \in Slots : kind[s] # "dhcp" /\ at[s] \in {"poll", "recheck", "send", "set"}
    /\ state = "L2CONNECTED" =>
         \/ evt = "start"
         \/ \E s \in Slots : kind[s] = "dhcp" /\ at[s] \in {"poll", "up", "send", "set"}

(* Once the application has asked for a network, the device does not stay  *)
(* on another one: a link to another is known to the event thread, which   *)
(* has yet to take its event or is about to drop it.  Excepted are a link  *)
(* of which this process was not told because it had turned Wi-Fi off, and *)
(* a wpa_supplicant that refuses DISCONNECT.                               *)
RightNetwork ==
    \/ netid = "none" \/ link \in {"none", netid} \/ alone = 1
    \/ Pending(evq, "CONNECTED") \/ evt = "drop" \/ "drop" \in Faults

(* The machine is in DISCONNECTING only while the link is up or its end is *)
(* on its way through the event thread, which sets DISCONNECTED: nobody    *)
(* else does, aw_wifi_disconnect_ap waits 3 s and returns.  Excepted are   *)
(* Wi-Fi turned off meanwhile and a loss dealt with before the state was   *)
(* set.                                                                    *)
DisconnectionHeard ==
    state = "DISCONNECTING" =>
      \/ app = "dsend" \/ link # "none" \/ LossPending
      \/ stranded = 1 \/ on = 0 \/ app = "onset"

(* Every attempt to connect ends, whoever took part in it.                 *)
ConnectingEnds ==
    state = "CONNECTING" ~> state # "CONNECTING" \/ stranded = 1 \/ app = "crashed"

(* The demos wait in a loop until the state is no longer busy: it ends.    *)
BusyEnds == Busy ~> ~Busy
=============================================================================
