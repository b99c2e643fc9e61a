------------------------- MODULE WifiConnectProofs -------------------------
(***************************************************************************)
(* The safety of the connection state machine, for any networks, any       *)
(* number of background threads, any calls of the application, any         *)
(* refusals of wpa_supplicant and any thresholds.                          *)
(***************************************************************************)
EXTENDS WifiConnect, TLAPS

ConnectOps == {"connect", "connect_wep", "add", "with_netid"}

(* Which function the application is in, where it is; a function that      *)
(* connects knows its network.                                             *)
InFunction ==
    /\ op \in ConnectOps => net \in Nets
    /\ app \in {"select", "save", "count", "poll", "send", "set", "note", "enable",
                "keep", "restore", "reset"} => op \in ConnectOps
    /\ app \in {"check", "begin", "reconnect"} => op \in ConnectOps \cup {"auto"}
    /\ app \in {"flag", "dcheck", "dset", "dsend", "dpoll"} =>
         op \in {"disconnect", "with_netid"}

(* Between SELECT_NETWORK and the note of the network's id only that       *)
(* network is enabled.                                                     *)
SelectedAlone == app = "save" => sel = {net} /\ link \in {"none", net}

(* While Wi-Fi is off there is no link, but for one of a wpa_supplicant    *)
(* that runs all the same.                                                 *)
OffLine == on = 0 /\ alone = 0 => link = "none"

ConnectInv == TypeOK /\ Watched /\ RightNetwork /\ InFunction /\ SelectedAlone /\ OffLine

-----------------------------------------------------------------------------
(* What the queue of events keeps: an event stays pending until it is      *)
(* itself taken.                                                           *)
LEMMA PendingAppend ==
  ASSUME NEW q \in Seq(AirEvents), NEW e \in AirEvents
  PROVE  /\ Append(q, e) \in Seq(AirEvents)
         /\ \A x : Pending(q, x) => Pending(Append(q, e), x)
         /\ Pending(Append(q, e), e)
<1>1. Append(q, e) \in Seq(AirEvents) /\ Len(Append(q, e)) = Len(q) + 1  OBVIOUS
<1>2. \A i \in 1..Len(q) : Append(q, e)[i] = q[i]  OBVIOUS
<1>3. Append(q, e)[Len(q) + 1] = e /\ Len(q) \in Nat  OBVIOUS
<1> QED  BY <1>1, <1>2, <1>3 DEF Pending

LEMMA PendingTail ==
  ASSUME NEW q \in Seq(AirEvents), q # <<>>
  PROVE  /\ Tail(q) \in Seq(AirEvents)
         /\ \A x : Pending(q, x) /\ Head(q) # x => Pending(Tail(q), x)
<1>1. Tail(q) \in Seq(AirEvents) /\ Len(Tail(q)) = Len(q) - 1 /\ Len(q) \in Nat \ {0}  OBVIOUS
<1>2. SUFFICES ASSUME NEW x, Pending(q, x), Head(q) # x PROVE Pending(Tail(q), x)  BY <1>1
<1>3. PICK i \in 1..Len(q) : q[i] = x  BY <1>2 DEF Pending
<1>4. i # 1  BY <1>2, <1>3
<1>5. i - 1 \in 1..Len(Tail(q)) /\ Tail(q)[i - 1] = q[i]  BY <1>1, <1>3, <1>4
<1> QED  BY <1>3, <1>5 DEF Pending

(* An event of wpa_supplicant.                                             *)
LEMMA SendKeeps ==
  ASSUME TypeOK, NEW e \in AirEvents, Send(e)
  PROVE  /\ evq' \in Seq(AirEvents)
         /\ \A x : Pending(evq, x) => Pending(evq', x)
         /\ on = 1 => Pending(evq', e)
BY PendingAppend DEF Send, TypeOK

(* No event is lost, and the end of a link is announced while Wi-Fi is on. *)
QueueKept ==
    /\ evq' \in Seq(AirEvents)
    /\ Pending(evq, "CONNECTED") => Pending(evq', "CONNECTED")
    /\ Pending(evq, "DISCONNECTED") => Pending(evq', "DISCONNECTED")
    /\ link = "none" \/ link' # "none" \/ on = 0 \/ Pending(evq', "DISCONNECTED")

(* wpa_supplicant leaving a network.                                       *)
LEMMA MoveToKeeps ==
  ASSUME TypeOK, NEW l \in Net, MoveTo(l)
  PROVE  link' = l /\ QueueKept
<1>1. "DISCONNECTED" \in AirEvents  BY DEF AirEvents
<1>2. CASE link # "none" /\ l = "none"
  <2>1. Send("DISCONNECTED")  BY <1>2 DEF MoveTo
  <2> QED  BY <1>1, <1>2, <2>1, SendKeeps DEF MoveTo, QueueKept, TypeOK
<1>3. CASE ~(link # "none" /\ l = "none")  BY <1>3 DEF MoveTo, QueueKept, TypeOK
<1> QED  BY <1>2, <1>3

(* ... and a command that may make it leave.                               *)
LEMMA DisconnectKeeps ==
  ASSUME TypeOK, NEW c, Disconnect(c)
  PROVE  /\ link' \in {"none", link} /\ link' \in Net /\ want' \in {0, 1}
         /\ sel' = sel /\ conf' = conf /\ QueueKept
         /\ link' = "none" \/ Refused(c)
<1>1. CASE DisconnectDone  BY <1>1, MoveToKeeps DEF DisconnectDone, Net, TypeOK
<1>2. CASE DisconnectRefused(c)  BY <1>2 DEF DisconnectRefused, supplicant, TypeOK, QueueKept
<1> QED  BY <1>1, <1>2 DEF Disconnect

LEMMA RemoveKeeps ==
  ASSUME TypeOK, NEW S, Remove(S)
  PROVE  /\ link' \in {"none", link} /\ link' \in Net
         /\ conf' \subseteq conf /\ QueueKept
BY MoveToKeeps DEF Remove, Net, TypeOK

LEMMA DisableKeeps ==
  ASSUME TypeOK, NEW S, Disable(S)
  PROVE  /\ link' \in {"none", link} /\ link' \in Net
         /\ sel' \subseteq sel /\ QueueKept
BY MoveToKeeps DEF Disable, Net, TypeOK

(* A new background thread takes a free place and nobody else's.           *)
LEMMA StartKeeps ==
  ASSUME TypeOK, NEW k \in {"dhcp", "timeout", "oncheck"}, Start(k)
  PROVE  /\ kind' \in [Slots -> {"none", "dhcp", "timeout", "oncheck"}]
         /\ at' \in [Slots -> BgPlaces]
         /\ \E s \in Slots : kind'[s] = k /\ at'[s] = "poll"
         /\ \A s \in Slots : at[s] # "free" => kind'[s] = kind[s] /\ at'[s] = at[s]
<1> DEFINE f == CHOOSE s \in Slots : at[s] = "free"
<1>1. f \in Slots /\ at[f] = "free"  BY DEF Start
<1>2. kind' = [kind EXCEPT ![f] = k] /\ at' = [at EXCEPT ![f] = "poll"]  BY DEF Start
<1> HIDE DEF f
<1> QED  BY <1>1, <1>2 DEF TypeOK, BgPlaces

(* A background thread keeps types, functions and networks.                *)
LEMMA BackgroundFrame ==
  ASSUME ConnectInv, NEW s \in Slots, Background(s)
  PROVE  (TypeOK /\ InFunction /\ SelectedAlone /\ OffLine)'
<1> USE ConnectAssumption DEF ConnectInv, TypeOK, InFunction, SelectedAlone, OffLine,
      ConnectOps, States, InnerEvents, AppPlaces, EvtPlaces, BgPlaces, Net, Functions,
      machine, application, background, supplicant, bounds, BgGo, QueueKept
<1>1. CASE DhcpPoll(s)  BY <1>1 DEF DhcpPoll
<1>2. CASE DhcpUp(s)  BY <1>2 DEF DhcpUp
<1>3. CASE DhcpUpNote(s)  BY <1>3 DEF DhcpUpNote
<1>4. CASE TimeoutPoll(s)  BY <1>4 DEF TimeoutPoll
<1>5. CASE TimeoutRecheck(s)  BY <1>5 DEF TimeoutRecheck
<1>6. CASE OnCheckPoll(s)  BY <1>6 DEF OnCheckPoll
<1>7. CASE BgSend(s)  BY <1>7, DisconnectKeeps DEF BgSend
<1>8. CASE BgSet(s)  BY <1>8 DEF BgSet
<1>9. CASE BgNote(s)  BY <1>9 DEF BgNote
<1> QED  BY <1>1, <1>2, <1>3, <1>4, <1>5, <1>6, <1>7, <1>8, <1>9 DEF Background

(* A background thread leaves no attempt without an end.                   *)
LEMMA BackgroundWatched ==
  ASSUME ConnectInv, NEW s \in Slots, Background(s)
  PROVE  Watched'
<1> USE ConnectAssumption DEF ConnectInv, TypeOK, Watched, Ending, InFunction,
      ConnectOps, BgPlaces, Joined, machine, application, background, supplicant,
      bounds, BgGo, QueueKept
<1>1. CASE DhcpPoll(s)  BY <1>1 DEF DhcpPoll
<1>2. CASE DhcpUp(s)  BY <1>2 DEF DhcpUp
<1>3. CASE DhcpUpNote(s)  BY <1>3 DEF DhcpUpNote
<1>4. CASE TimeoutPoll(s)  BY <1>4 DEF TimeoutPoll
<1>5. CASE TimeoutRecheck(s)  BY <1>5 DEF TimeoutRecheck
<1>6. CASE OnCheckPoll(s)  BY <1>6 DEF OnCheckPoll
<1>7. CASE BgSend(s)  BY <1>7, DisconnectKeeps DEF BgSend
<1>8. CASE BgSet(s)  BY <1>8 DEF BgSet
<1>9. CASE BgNote(s)  BY <1>9 DEF BgNote
<1> QED  BY <1>1, <1>2, <1>3, <1>4, <1>5, <1>6, <1>7, <1>8, <1>9 DEF Background

(* A background thread keeps to the network asked for.                     *)
LEMMA BackgroundRightNetwork ==
  ASSUME ConnectInv, NEW s \in Slots, Background(s)
  PROVE  RightNetwork'
<1> USE ConnectAssumption DEF ConnectInv, TypeOK, RightNetwork, InFunction,
      SelectedAlone, OffLine, ConnectOps, Net, machine, application, background,
      supplicant, bounds, BgGo, QueueKept
<1>1. CASE DhcpPoll(s)  BY <1>1 DEF DhcpPoll
<1>2. CASE DhcpUp(s)  BY <1>2 DEF DhcpUp
<1>3. CASE DhcpUpNote(s)  BY <1>3 DEF DhcpUpNote
<1>4. CASE TimeoutPoll(s)  BY <1>4 DEF TimeoutPoll
<1>5. CASE TimeoutRecheck(s)  BY <1>5 DEF TimeoutRecheck
<1>6. CASE OnCheckPoll(s)  BY <1>6 DEF OnCheckPoll
<1>7. CASE BgSend(s)  BY <1>7, DisconnectKeeps DEF BgSend
<1>8. CASE BgSet(s)  BY <1>8 DEF BgSet
<1>9. CASE BgNote(s)  BY <1>9 DEF BgNote
<1> QED  BY <1>1, <1>2, <1>3, <1>4, <1>5, <1>6, <1>7, <1>8, <1>9 DEF Background

(* The event thread keeps types, functions and networks.                   *)
LEMMA EventThreadFrame ==
  ASSUME ConnectInv, EventThread
  PROVE  (TypeOK /\ InFunction /\ SelectedAlone /\ OffLine)'
<1> USE ConnectAssumption DEF ConnectInv, TypeOK, InFunction, SelectedAlone, OffLine,
      ConnectOps, States, InnerEvents, AppPlaces, EvtPlaces, BgPlaces, Net, Functions,
      machine, application, background, supplicant, bounds, EvtGo, Receive, QueueKept
<1>1. CASE OnDisconnected  BY <1>1, PendingTail DEF OnDisconnected
<1>2. CASE OnConnected  BY <1>2, PendingTail DEF OnConnected
<1>3. CASE OnWrongKey  BY <1>3, PendingTail DEF OnWrongKey
<1>4. CASE OnAssocReject  BY <1>4, PendingTail DEF OnAssocReject
<1>5. CASE EvtSend  BY <1>5, DisconnectKeeps DEF EvtSend, Refused, Alive
<1>6. CASE EvtUp  BY <1>6 DEF EvtUp
<1>7. CASE EvtStart
  <2>1. Start("dhcp")  BY <1>7 DEF EvtStart
  <2>2. /\ kind' \in [Slots -> {"none", "dhcp", "timeout", "oncheck"}]
        /\ at' \in [Slots -> BgPlaces]
    BY <2>1, StartKeeps
  <2> QED  BY <1>7, <2>2 DEF EvtStart
<1>8. CASE EvtSet  BY <1>8 DEF EvtSet
<1>9. CASE EvtNote  BY <1>9 DEF EvtNote
<1> QED  BY <1>1, <1>2, <1>3, <1>4, <1>5, <1>6, <1>7, <1>8, <1>9 DEF EventThread

(* The event thread leaves no attempt without an end.                      *)
LEMMA EventThreadWatched ==
  ASSUME ConnectInv, EventThread
  PROVE  Watched'
<1> USE ConnectAssumption DEF ConnectInv, TypeOK, Watched, Ending, InFunction,
      ConnectOps, BgPlaces, Joined, machine, application, background, supplicant,
      bounds, EvtGo, Receive, QueueKept
<1>1. CASE OnDisconnected  BY <1>1, PendingTail DEF OnDisconnected
<1>2. CASE OnConnected  BY <1>2, PendingTail DEF OnConnected
<1>3. CASE OnWrongKey  BY <1>3, PendingTail DEF OnWrongKey
<1>4. CASE OnAssocReject  BY <1>4, PendingTail DEF OnAssocReject
<1>5. CASE EvtSend  BY <1>5, DisconnectKeeps DEF EvtSend, Refused, Alive
<1>6. CASE EvtUp  BY <1>6 DEF EvtUp
<1>7. CASE EvtStart  BY <1>7, StartKeeps DEF EvtStart
<1>8. CASE EvtSet  BY <1>8 DEF EvtSet
<1>9. CASE EvtNote  BY <1>9 DEF EvtNote
<1> QED  BY <1>1, <1>2, <1>3, <1>4, <1>5, <1>6, <1>7, <1>8, <1>9 DEF EventThread

(* The event thread keeps to the network asked for.                        *)
LEMMA EventThreadRightNetwork ==
  ASSUME ConnectInv, EventThread
  PROVE  RightNetwork'
<1> USE ConnectAssumption DEF ConnectInv, TypeOK, RightNetwork, InFunction,
      SelectedAlone, OffLine, ConnectOps, Net, machine, application, background,
      supplicant, bounds, EvtGo, Receive, QueueKept
<1>1. CASE OnDisconnected  BY <1>1, PendingTail DEF OnDisconnected
<1>2. CASE OnConnected  BY <1>2, PendingTail DEF OnConnected
<1>3. CASE OnWrongKey  BY <1>3, PendingTail DEF OnWrongKey
<1>4. CASE OnAssocReject  BY <1>4, PendingTail DEF OnAssocReject
<1>5. CASE EvtSend  BY <1>5, DisconnectKeeps DEF EvtSend, Refused, Alive
<1>6. CASE EvtUp  BY <1>6 DEF EvtUp
<1>7. CASE EvtStart  BY <1>7, StartKeeps DEF EvtStart
<1>8. CASE EvtSet  BY <1>8 DEF EvtSet
<1>9. CASE EvtNote  BY <1>9 DEF EvtNote
<1> QED  BY <1>1, <1>2, <1>3, <1>4, <1>5, <1>6, <1>7, <1>8, <1>9 DEF EventThread

(* The application keeps types, functions and networks.                    *)
LEMMA ApplicationFrame ==
  ASSUME ConnectInv, Application
  PROVE  (TypeOK /\ InFunction /\ SelectedAlone /\ OffLine)'
<1> USE ConnectAssumption DEF ConnectInv, TypeOK, InFunction, SelectedAlone, OffLine,
      ConnectOps, States, InnerEvents, AppPlaces, EvtPlaces, BgPlaces, Net, Functions,
      machine, application, background, supplicant, bounds, AppGo, AppAt, QueueKept
<1>1. CASE OnSet  BY <1>1 DEF OnSet
<1>2. CASE OnSync
  <2>1. UNCHANGED background \/ Start("oncheck")  BY <1>2 DEF OnSync
  <2>2. /\ kind' \in [Slots -> {"none", "dhcp", "timeout", "oncheck"}]
        /\ at' \in [Slots -> BgPlaces]
    BY <2>1, StartKeeps
  <2> QED  BY <1>2, <2>2 DEF OnSync
<1>3. CASE OnUp  BY <1>3 DEF OnUp
<1>4. CASE OnNote  BY <1>4 DEF OnNote
<1>5. CASE Check  BY <1>5 DEF Check
<1>6. CASE Begin  BY <1>6 DEF Begin
<1>7. CASE Select  BY <1>7, MoveToKeeps DEF Select
<1>8. CASE SelectRefused  BY <1>8 DEF SelectRefused
<1>9. CASE Save  BY <1>9 DEF Save
<1>10. CASE Reconnect  BY <1>10 DEF Reconnect
<1>11. CASE ReconnectRefused  BY <1>11 DEF ReconnectRefused
<1>12. CASE ResetCount  BY <1>12 DEF ResetCount
<1>13. CASE StartTimeout
  <2>1. Start("timeout")  BY <1>13 DEF StartTimeout
  <2>2. /\ kind' \in [Slots -> {"none", "dhcp", "timeout", "oncheck"}]
        /\ at' \in [Slots -> BgPlaces]
    BY <2>1, StartKeeps
  <2> QED  BY <1>13, <2>2 DEF StartTimeout
<1>14. CASE PollOver  BY <1>14, DisableKeeps DEF PollOver
<1>15. CASE PollRejected  BY <1>15 DEF PollRejected
<1>16. CASE GiveUpSend  BY <1>16, DisconnectKeeps DEF GiveUpSend
<1>17. CASE GiveUpSet  BY <1>17 DEF GiveUpSet
<1>18. CASE GiveUpNote  BY <1>18, DisableKeeps DEF GiveUpNote
<1>19. CASE Enable  BY <1>19, RemoveKeeps DEF Enable
<1>20. CASE Restore  BY <1>20, RemoveKeeps DEF Restore
<1>21. CASE Reset  BY <1>21 DEF Reset
<1>22. CASE Flag  BY <1>22 DEF Flag
<1>23. CASE DCheck  BY <1>23 DEF DCheck, AfterDisconnect
<1>24. CASE DSet  BY <1>24 DEF DSet
<1>25. CASE DSend
  <2>1. CASE DisconnectDone /\ AppGo("dpoll")
    BY <1>25, <2>1, DisconnectKeeps DEF DSend, Disconnect, DisconnectDone
  <2>2. CASE DisconnectRefused("disconnect") /\ AppGo(AfterDisconnect)
    BY <1>25, <2>2 DEF DSend, DisconnectRefused, AfterDisconnect
  <2> QED  BY <1>25, <2>1, <2>2 DEF DSend
<1>26. CASE DPoll  BY <1>26 DEF DPoll, AfterDisconnect
<1> QED  BY <1>1, <1>2, <1>3, <1>4, <1>5, <1>6, <1>7, <1>8, <1>9, <1>10, <1>11, <1>12,
      <1>13, <1>14, <1>15, <1>16, <1>17, <1>18, <1>19, <1>20, <1>21, <1>22, <1>23,
      <1>24, <1>25, <1>26 DEF Application

(* The application leaves no attempt without an end.                       *)
LEMMA ApplicationWatched ==
  ASSUME ConnectInv, Application
  PROVE  Watched'
<1> USE ConnectAssumption DEF ConnectInv, TypeOK, Watched, Ending, InFunction,
      ConnectOps, BgPlaces, Joined, machine, application, background, supplicant,
      bounds, AppGo, AppAt, QueueKept
<1>1. CASE OnSet  BY <1>1 DEF OnSet
<1>2. CASE OnSync  BY <1>2, StartKeeps DEF OnSync
<1>3. CASE OnUp  BY <1>3 DEF OnUp
<1>4. CASE OnNote  BY <1>4 DEF OnNote
<1>5. CASE Check  BY <1>5 DEF Check
<1>6. CASE Begin  BY <1>6 DEF Begin
<1>7. CASE Select  BY <1>7, MoveToKeeps DEF Select
<1>8. CASE SelectRefused  BY <1>8 DEF SelectRefused
<1>9. CASE Save  BY <1>9 DEF Save
<1>10. CASE Reconnect  BY <1>10 DEF Reconnect
<1>11. CASE ReconnectRefused  BY <1>11 DEF ReconnectRefused
<1>12. CASE ResetCount  BY <1>12 DEF ResetCount
<1>13. CASE StartTimeout  BY <1>13, StartKeeps DEF StartTimeout
<1>14. CASE PollOver  BY <1>14, DisableKeeps DEF PollOver
<1>15. CASE PollRejected  BY <1>15 DEF PollRejected
<1>16. CASE GiveUpSend  BY <1>16, DisconnectKeeps DEF GiveUpSend
<1>17. CASE GiveUpSet  BY <1>17 DEF GiveUpSet
<1>18. CASE GiveUpNote  BY <1>18, DisableKeeps DEF GiveUpNote
<1>19. CASE Enable  BY <1>19, RemoveKeeps DEF Enable
<1>20. CASE Restore  BY <1>20, RemoveKeeps DEF Restore
<1>21. CASE Reset  BY <1>21 DEF Reset
<1>22. CASE Flag  BY <1>22 DEF Flag
<1>23. CASE DCheck  BY <1>23 DEF DCheck, AfterDisconnect
<1>24. CASE DSet  BY <1>24 DEF DSet
<1>25. CASE DSend  BY <1>25, DisconnectKeeps DEF DSend, Disconnect, AfterDisconnect
<1>26. CASE DPoll  BY <1>26 DEF DPoll, AfterDisconnect
<1> QED  BY <1>1, <1>2, <1>3, <1>4, <1>5, <1>6, <1>7, <1>8, <1>9, <1>10, <1>11, <1>12,
      <1>13, <1>14, <1>15, <1>16, <1>17, <1>18, <1>19, <1>20, <1>21, <1>22, <1>23,
      <1>24, <1>25, <1>26 DEF Application

(* The application keeps to the network asked for.                         *)
LEMMA ApplicationRightNetwork ==
  ASSUME ConnectInv, Application
  PROVE  RightNetwork'
<1> USE ConnectAssumption DEF ConnectInv, TypeOK, RightNetwork, InFunction,
      SelectedAlone, OffLine, ConnectOps, Net, machine, application, background,
      supplicant, bounds, AppGo, AppAt, QueueKept
<1>1. CASE OnSet  BY <1>1 DEF OnSet
<1>2. CASE OnSync  BY <1>2, StartKeeps DEF OnSync
<1>3. CASE OnUp  BY <1>3 DEF OnUp
<1>4. CASE OnNote  BY <1>4 DEF OnNote
<1>5. CASE Check  BY <1>5 DEF Check
<1>6. CASE Begin  BY <1>6 DEF Begin
<1>7. CASE Select  BY <1>7, MoveToKeeps DEF Select
<1>8. CASE SelectRefused  BY <1>8 DEF SelectRefused
<1>9. CASE Save  BY <1>9 DEF Save
<1>10. CASE Reconnect  BY <1>10 DEF Reconnect
<1>11. CASE ReconnectRefused  BY <1>11 DEF ReconnectRefused
<1>12. CASE ResetCount  BY <1>12 DEF ResetCount
<1>13. CASE StartTimeout  BY <1>13, StartKeeps DEF StartTimeout
<1>14. CASE PollOver  BY <1>14, DisableKeeps DEF PollOver
<1>15. CASE PollRejected  BY <1>15 DEF PollRejected
<1>16. CASE GiveUpSend  BY <1>16, DisconnectKeeps DEF GiveUpSend
<1>17. CASE GiveUpSet  BY <1>17 DEF GiveUpSet
<1>18. CASE GiveUpNote  BY <1>18, DisableKeeps DEF GiveUpNote
<1>19. CASE Enable  BY <1>19, RemoveKeeps DEF Enable
<1>20. CASE Restore  BY <1>20, RemoveKeeps DEF Restore
<1>21. CASE Reset  BY <1>21 DEF Reset
<1>22. CASE Flag  BY <1>22 DEF Flag
<1>23. CASE DCheck  BY <1>23 DEF DCheck, AfterDisconnect
<1>24. CASE DSet  BY <1>24 DEF DSet
<1>25. CASE DSend  BY <1>25, DisconnectKeeps DEF DSend, Disconnect, AfterDisconnect
<1>26. CASE DPoll  BY <1>26 DEF DPoll, AfterDisconnect
<1> QED  BY <1>1, <1>2, <1>3, <1>4, <1>5, <1>6, <1>7, <1>8, <1>9, <1>10, <1>11, <1>12,
      <1>13, <1>14, <1>15, <1>16, <1>17, <1>18, <1>19, <1>20, <1>21, <1>22, <1>23,
      <1>24, <1>25, <1>26 DEF Application

(* A call or the air keeps types, functions and networks.                  *)
LEMMA OutsideFrame ==
  ASSUME ConnectInv, Outside
  PROVE  (TypeOK /\ InFunction /\ SelectedAlone /\ OffLine)'
<1> USE ConnectAssumption DEF ConnectInv, TypeOK, InFunction, SelectedAlone, OffLine,
      ConnectOps, States, InnerEvents, AppPlaces, EvtPlaces, BgPlaces, Net, Functions,
      machine, application, background, supplicant, bounds, QueueKept
<1>1. CASE On  BY <1>1 DEF On
<1>2. CASE Off  BY <1>2 DEF Off, Gone
<1>3. CASE RemoveNetworks  BY <1>3, RemoveKeeps DEF RemoveNetworks
<1>4. CASE Terminating \/ TimedOut
  <2>1. CASE Terminating  BY <2>1 DEF Terminating, Gone
  <2>2. CASE TimedOut  BY <2>2 DEF TimedOut
  <2> QED  BY <1>4, <2>1, <2>2
<1>5. CASE \E c \in Calls : Call(c)
  <2>1. PICK c \in Calls : Call(c)  BY <1>5
  <2> QED  BY <2>1 DEF Call
<1>6. CASE \E n \in Nets : Associate(n)
  <2>1. PICK n \in Nets : Associate(n)  BY <1>6
  <2> QED  BY <2>1, SendKeeps DEF Associate, Air, AirEvents, Alive
<1>7. CASE LinkLost  BY <1>7, SendKeeps DEF LinkLost, Air, AirEvents, Alive
<1>8. CASE WrongKey  BY <1>8, SendKeeps DEF WrongKey, Air, AirEvents
<1>9. CASE Reject  BY <1>9, SendKeeps DEF Reject, Air, AirEvents
<1> QED  BY <1>1, <1>2, <1>3, <1>4, <1>5, <1>6, <1>7, <1>8, <1>9 DEF Outside

(* A call or the air leaves no attempt without an end.                     *)
LEMMA OutsideWatched ==
  ASSUME ConnectInv, Outside
  PROVE  Watched'
<1> USE ConnectAssumption DEF ConnectInv, TypeOK, Watched, Ending, InFunction,
      ConnectOps, BgPlaces, Joined, machine, application, background, supplicant, bounds, QueueKept
<1>1. CASE On  BY <1>1 DEF On
<1>2. CASE Off  BY <1>2 DEF Off, Gone
<1>3. CASE RemoveNetworks  BY <1>3, RemoveKeeps DEF RemoveNetworks
<1>4. CASE Terminating \/ TimedOut  BY <1>4 DEF Terminating, TimedOut, Gone
<1>5. CASE \E c \in Calls : Call(c)
  <2>1. PICK c \in Calls : Call(c)  BY <1>5
  <2> QED  BY <2>1 DEF Call
<1>6. CASE \E n \in Nets : Associate(n)
  <2>1. PICK n \in Nets : Associate(n)  BY <1>6
  <2> QED  BY <2>1, SendKeeps DEF Associate, Air, AirEvents, Alive
<1>7. CASE LinkLost  BY <1>7, SendKeeps DEF LinkLost, Air, AirEvents, Alive
<1>8. CASE WrongKey  BY <1>8, SendKeeps DEF WrongKey, Air, AirEvents
<1>9. CASE Reject  BY <1>9, SendKeeps DEF Reject, Air, AirEvents
<1> QED  BY <1>1, <1>2, <1>3, <1>4, <1>5, <1>6, <1>7, <1>8, <1>9 DEF Outside

(* A call or the air keeps to the network asked for.                       *)
LEMMA OutsideRightNetwork ==
  ASSUME ConnectInv, Outside
  PROVE  RightNetwork'
<1> USE ConnectAssumption DEF ConnectInv, TypeOK, RightNetwork, InFunction,
      SelectedAlone, OffLine, ConnectOps, Net, machine, application, background,
      supplicant, bounds, QueueKept
<1>1. CASE On  BY <1>1 DEF On
<1>2. CASE Off  BY <1>2 DEF Off, Gone
<1>3. CASE RemoveNetworks  BY <1>3, RemoveKeeps DEF RemoveNetworks
<1>4. CASE Terminating \/ TimedOut  BY <1>4 DEF Terminating, TimedOut, Gone
<1>5. CASE \E c \in Calls : Call(c)
  <2>1. PICK c \in Calls : Call(c)  BY <1>5
  <2> QED  BY <2>1 DEF Call
<1>6. CASE \E n \in Nets : Associate(n)
  <2>1. PICK n \in Nets : Associate(n)  BY <1>6
  <2> QED  BY <2>1, SendKeeps DEF Associate, Air, AirEvents, Alive
<1>7. CASE LinkLost  BY <1>7, SendKeeps DEF LinkLost, Air, AirEvents, Alive
<1>8. CASE WrongKey  BY <1>8, SendKeeps DEF WrongKey, Air, AirEvents
<1>9. CASE Reject  BY <1>9, SendKeeps DEF Reject, Air, AirEvents
<1> QED  BY <1>1, <1>2, <1>3, <1>4, <1>5, <1>6, <1>7, <1>8, <1>9 DEF Outside

(* And so does a step that changes nothing.                                *)
LEMMA StutterInv ==
  ASSUME ConnectInv, UNCHANGED vars
  PROVE  ConnectInv'
<1> USE DEF ConnectInv, vars, machine, application, background, supplicant, bounds
<1>1. TypeOK'  BY DEF TypeOK
<1>2. Watched'  BY DEF Watched
<1>3. RightNetwork'  BY DEF RightNetwork
<1>4. InFunction'  BY DEF InFunction
<1>5. SelectedAlone'  BY DEF SelectedAlone
<1>6. OffLine'  BY DEF OffLine
<1> QED  BY <1>1, <1>2, <1>3, <1>4, <1>5, <1>6

(* The inductive invariant holds always.                                   *)
THEOREM ConnectInvariant == Spec => []ConnectInv
<1>1. Init => ConnectInv
  BY ConnectAssumption
  DEF Init, ConnectInv, TypeOK, Watched, RightNetwork, InFunction, SelectedAlone, OffLine,
      ConnectOps, States, InnerEvents, AppPlaces, EvtPlaces, BgPlaces, Net, Functions
<1>2. ConnectInv /\ [Next]_vars => ConnectInv'
  <2> SUFFICES ASSUME ConnectInv, [Next]_vars PROVE ConnectInv'  OBVIOUS
  <2>1. CASE \E s \in Slots : Background(s)
    BY <2>1, BackgroundFrame, BackgroundWatched, BackgroundRightNetwork DEF ConnectInv
  <2>2. CASE EventThread
    BY <2>2, EventThreadFrame, EventThreadWatched, EventThreadRightNetwork DEF ConnectInv
  <2>3. CASE Application
    BY <2>3, ApplicationFrame, ApplicationWatched, ApplicationRightNetwork DEF ConnectInv
  <2>4. CASE Outside
    BY <2>4, OutsideFrame, OutsideWatched, OutsideRightNetwork DEF ConnectInv
  <2>5. CASE UNCHANGED vars  BY <2>5, StutterInv
  <2> QED  BY <2>1, <2>2, <2>3, <2>4, <2>5 DEF Next, Rest
<1> QED  BY <1>1, <1>2, PTL DEF Spec

(* Every variable of the state machine keeps its type; the two counters    *)
(* stay within their limits.                                               *)
THEOREM TypeTheorem == Spec => []TypeOK
<1>1. ConnectInv => TypeOK  BY DEF ConnectInv
<1> QED  BY <1>1, ConnectInvariant, PTL

(* The machine is never left in CONNECTING or in L2CONNECTED without a     *)
(* thread that will end it, except by aw_wifi_connect_ap_with_netid.       *)
THEOREM WatchedTheorem == Spec => []Watched
<1>1. ConnectInv => Watched  BY DEF ConnectInv
<1> QED  BY <1>1, ConnectInvariant, PTL

(* A link to a network the application did not ask for is always about to  *)
(* be dropped by the event thread.                                         *)
THEOREM RightNetworkTheorem == Spec => []RightNetwork
<1>1. ConnectInv => RightNetwork  BY DEF ConnectInv
<1> QED  BY <1>1, ConnectInvariant, PTL

-----------------------------------------------------------------------------
(* A background thread never takes the machine to DISCONNECTING, and what  *)
(* it makes wpa_supplicant do is announced.                                *)
LEMMA BackgroundHeard ==
  ASSUME TypeOK, DisconnectionHeard, NEW s \in Slots, Background(s)
  PROVE  DisconnectionHeard'
<1> USE DEF DisconnectionHeard, LossPending, machine, application, background, supplicant,
      BgGo, QueueKept
<1>1. CASE DhcpPoll(s) \/ DhcpUp(s) \/ DhcpUpNote(s)
  BY <1>1 DEF DhcpPoll, DhcpUp, DhcpUpNote
<1>2. CASE TimeoutPoll(s) \/ TimeoutRecheck(s) \/ OnCheckPoll(s)
  BY <1>2 DEF TimeoutPoll, TimeoutRecheck, OnCheckPoll
<1>3. CASE BgSend(s)  BY <1>3, DisconnectKeeps DEF BgSend
<1>4. CASE BgSet(s) \/ BgNote(s)  BY <1>4 DEF BgSet, BgNote
<1> QED  BY <1>1, <1>2, <1>3, <1>4 DEF Background

(* The event thread takes the loss of the link out of the queue only to    *)
(* deal with it.                                                           *)
LEMMA EventThreadHeard ==
  ASSUME TypeOK, DisconnectionHeard, EventThread
  PROVE  DisconnectionHeard'
<1> USE DEF DisconnectionHeard, LossPending, machine, application, background, supplicant,
      EvtGo, Receive, QueueKept
<1>1. CASE OnDisconnected  BY <1>1 DEF OnDisconnected
<1>2. CASE OnConnected  BY <1>2, PendingTail DEF OnConnected, TypeOK
<1>3. CASE OnWrongKey  BY <1>3, PendingTail DEF OnWrongKey, TypeOK
<1>4. CASE OnAssocReject  BY <1>4, PendingTail DEF OnAssocReject, TypeOK
<1>5. CASE EvtSend  BY <1>5, DisconnectKeeps DEF EvtSend
<1>6. CASE EvtUp \/ EvtStart  BY <1>6 DEF EvtUp, EvtStart
<1>7. CASE EvtSet \/ EvtNote  BY <1>7 DEF EvtSet, EvtNote
<1> QED  BY <1>1, <1>2, <1>3, <1>4, <1>5, <1>6, <1>7 DEF EventThread

(* The application waits for the event of the disconnection it makes.      *)
LEMMA ApplicationHeard ==
  ASSUME TypeOK, DisconnectionHeard, Application
  PROVE  DisconnectionHeard'
<1> USE DEF DisconnectionHeard, LossPending, machine, application, background, supplicant,
      AppGo, AppAt, QueueKept
<1>1. CASE OnSet \/ OnSync \/ OnUp \/ OnNote  BY <1>1 DEF OnSet, OnSync, OnUp, OnNote
<1>2. CASE Check \/ Begin  BY <1>2 DEF Check, Begin
<1>3. CASE Select  BY <1>3, MoveToKeeps DEF Select, Net, TypeOK
<1>4. CASE SelectRefused \/ Save \/ Reconnect \/ ReconnectRefused
  BY <1>4 DEF SelectRefused, Save, Reconnect, ReconnectRefused
<1>5. CASE ResetCount \/ StartTimeout \/ PollRejected
  BY <1>5 DEF ResetCount, StartTimeout, PollRejected
<1>6. CASE PollOver  BY <1>6, DisableKeeps DEF PollOver
<1>7. CASE GiveUpSend  BY <1>7, DisconnectKeeps DEF GiveUpSend
<1>8. CASE GiveUpSet  BY <1>8 DEF GiveUpSet
<1>9. CASE GiveUpNote  BY <1>9, DisableKeeps DEF GiveUpNote
<1>10. CASE Enable  BY <1>10, RemoveKeeps DEF Enable
<1>11. CASE Restore  BY <1>11, RemoveKeeps DEF Restore
<1>12. CASE Reset  BY <1>12 DEF Reset
<1>13. CASE Flag \/ DCheck \/ DSet  BY <1>13 DEF Flag, DCheck, DSet
<1>14. CASE DSend
  <2>1. Disconnect("disconnect")  BY <1>14 DEF DSend, Disconnect
  <2>2. QueueKept /\ link' \in {"none", link}  BY <2>1, DisconnectKeeps
  <2>3. link = "none" /\ ~LossPending => stranded' = 1  BY <1>14 DEF DSend
  <2>4. stranded' \in {1, stranded} /\ on' = on /\ evt' = evt /\ state' = state
    BY <1>14 DEF DSend
  <2>5. CASE link' = "none"  BY <2>2, <2>3, <2>4, <2>5
  <2>6. CASE link' # "none"  BY <2>6
  <2> QED  BY <2>5, <2>6
<1>15. CASE DPoll  BY <1>15 DEF DPoll
<1> QED  BY <1>1, <1>2, <1>3, <1>4, <1>5, <1>6, <1>7, <1>8, <1>9, <1>10, <1>11, <1>12,
      <1>13, <1>14, <1>15 DEF Application

(* A call or the air announces the end of a link, or turns Wi-Fi off.      *)
LEMMA OutsideHeard ==
  ASSUME TypeOK, DisconnectionHeard, Outside
  PROVE  DisconnectionHeard'
<1> USE DEF DisconnectionHeard, LossPending, machine, application, background, supplicant,
      QueueKept
<1>1. CASE On \/ Off  BY <1>1 DEF On, Off, Gone
<1>2. CASE RemoveNetworks  BY <1>2, RemoveKeeps DEF RemoveNetworks
<1>3. CASE Terminating \/ TimedOut  BY <1>3 DEF Terminating, TimedOut, Gone
<1>4. CASE \E c \in Calls : Call(c)
  <2>1. PICK c \in Calls : Call(c)  BY <1>4
  <2> QED  BY <2>1 DEF Call
<1>5. CASE \E n \in Nets : Associate(n)
  <2>1. PICK n \in Nets : Associate(n)  BY <1>5
  <2>2. link' # "none"  BY <2>1, ConnectAssumption DEF Associate
  <2> QED  BY <2>1, <2>2, SendKeeps DEF Associate, Air, AirEvents
<1>6. CASE LinkLost
  <2>1. Send("DISCONNECTED") /\ "DISCONNECTED" \in AirEvents  BY <1>6 DEF LinkLost, Air, AirEvents
  <2>2. on = 1 => Pending(evq', "DISCONNECTED")  BY <2>1, SendKeeps
  <2>3. on \in {0, 1} /\ on' = on  BY <1>6 DEF LinkLost, Air, TypeOK
  <2> QED  BY <2>2, <2>3
<1>7. CASE WrongKey  BY <1>7, SendKeeps DEF WrongKey, Air, AirEvents
<1>8. CASE Reject  BY <1>8, SendKeeps DEF Reject, Air, AirEvents
<1> QED  BY <1>1, <1>2, <1>3, <1>4, <1>5, <1>6, <1>7, <1>8 DEF Outside

(* aw_wifi_disconnect_ap and aw_wifi_connect_ap_with_netid leave the       *)
(* machine in DISCONNECTING only while the event that takes it out again   *)
(* is still to come, unless the loss was dealt with before they set it.    *)
THEOREM DisconnectionHeardTheorem == Spec => []DisconnectionHeard
<1>1. Init => DisconnectionHeard  BY DEF Init, DisconnectionHeard
<1>2. TypeOK /\ DisconnectionHeard /\ [Next]_vars => DisconnectionHeard'
  <2> SUFFICES ASSUME TypeOK, DisconnectionHeard, [Next]_vars PROVE DisconnectionHeard'
    OBVIOUS
  <2>1. CASE \E s \in Slots : Background(s)  BY <2>1, BackgroundHeard
  <2>2. CASE EventThread  BY <2>2, EventThreadHeard
  <2>3. CASE Application  BY <2>3, ApplicationHeard
  <2>4. CASE Outside  BY <2>4, OutsideHeard
  <2>5. CASE UNCHANGED vars
    BY <2>5 DEF vars, machine, application, supplicant, DisconnectionHeard, LossPending
  <2> QED  BY <2>1, <2>2, <2>3, <2>4, <2>5 DEF Next, Rest
<1> QED  BY <1>1, <1>2, TypeTheorem, PTL DEF Spec
=============================================================================
