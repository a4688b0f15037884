-------------------------- MODULE WifiTask_proofs --------------------------
(***************************************************************************)
(* Proofs about WifiTask for every set of networks, pass phrases and       *)
(* offers, every bound on the event queue and the connections, and every   *)
(* set of faults.                                                          *)
(***************************************************************************)
EXTENDS WifiTask, TLAPS

----------------------------------------------------------------------------
(* The controller's operators stay within its state space. *)

\* Every host request takes a controller state to a controller state.
LEMMA RequestsAreClosed ==
  ASSUME NEW w \in WincState
  PROVE  /\ Connect(w) \in WincState
         /\ Disconnect(w) \in WincState
         /\ GetSystemTime(w) \in WincState
         /\ EnableAp(w) \in WincState
         /\ DisableAp(w) \in WincState
         /\ OpenServer(w) \in WincState
         /\ Listen(w) \in WincState
         /\ CloseServer(w) \in WincState
         /\ Recv(w) \in WincState
<1>1. DropLink(w) \in WincState
  BY DEF DropLink, WincState, Notice
<1>2. DisableAp(w) \in WincState
  BY <1>1 DEF DisableAp, WincState
<1>3. Disconnect(w) \in WincState
  BY <1>1 DEF Disconnect, WincState
<1>4. /\ Connect(w) \in WincState
      /\ GetSystemTime(w) \in WincState
      /\ EnableAp(w) \in WincState
  BY DEF Connect, GetSystemTime, EnableAp, WincState, Notice
<1>5. /\ OpenServer(w) \in WincState
      /\ Listen(w) \in WincState
      /\ CloseServer(w) \in WincState
  BY DEF OpenServer, Listen, CloseServer, WincState, Notice
<1>6. Recv(w) \in WincState
  BY DEF Recv, WincState
<1> QED
  BY <1>2, <1>3, <1>4, <1>5, <1>6

\* So does everything the radio and the phone do, and a raised notice.
LEMMA EnvironmentIsClosed ==
  ASSUME NEW w \in WincState, NEW n,
         \/ JoinSucceeds(w, n) \/ JoinFails(w, n) \/ LinkLost(w, n)
         \/ LeaseRenewed(w, n) \/ ClientJoins(w, n) \/ ClientLeaves(w, n)
         \/ ClientOpensTcp(w, n) \/ ClientSends(w, n)
         \/ \E k \in Notice : Raises(w, k, n)
  PROVE  n \in WincState
<1>1. DropLink(w) \in WincState
  BY DEF DropLink, WincState, Notice
<1>2. CASE JoinFails(w, n) \/ LinkLost(w, n)
  BY <1>1, <1>2 DEF JoinFails, LinkLost, WincState
<1>3. CASE ClientLeaves(w, n)
  BY <1>1, <1>3 DEF ClientLeaves, WincState
<1>4. CASE JoinSucceeds(w, n) \/ LeaseRenewed(w, n) \/ ClientJoins(w, n)
  BY <1>4 DEF JoinSucceeds, LeaseRenewed, ClientJoins, WincState, Notice
<1>5. CASE ClientOpensTcp(w, n)
  <2>1. /\ w.conns + 1 \in Nat
        /\ w.due \cup {"ACCEPT"} \in SUBSET Notice
        /\ n = [w EXCEPT !.conns = w.conns + 1, !.due = w.due \cup {"ACCEPT"}]
    BY <1>5 DEF ClientOpensTcp, WincState, Notice
  <2> QED
    BY <2>1 DEF WincState
<1>6. CASE ClientSends(w, n)
  <2>1. w.armed \in Nat /\ w.armed > 0 /\ n = [w EXCEPT !.armed = w.armed - 1]
    BY <1>6 DEF ClientSends, WincState
  <2>2. w.armed - 1 \in Nat
    BY <2>1
  <2> QED
    BY <2>1, <2>2 DEF WincState
<1>7. CASE \E k \in Notice : Raises(w, k, n)
  BY <1>7 DEF Raises, WincState
<1> QED
  BY <1>2, <1>3, <1>4, <1>5, <1>6, <1>7

----------------------------------------------------------------------------
(* Type correctness. *)

\* Switching to the station role keeps the types of what it changes.
LEMMA SwitchToStaType ==
  ASSUME TypeOK, NEW w \in WincState, NEW st \in WifiStates, NEW ps \in ProvStates,
         WifiSwitchtoSTA(w, st, ps)
  PROVE  /\ pc' \in {"usb", "poll", "task", "buttons", "halted"} \cup Waiting
         /\ wifi_states' \in WifiStates
         /\ gu8WiFiMode' \in {"STA", "AP"}
         /\ gAPEnabled' \in BOOLEAN
         /\ prov_state' \in ProvStates
         /\ winc' \in WincState
<1> DEFINE off == SwitchApOff(CloseAppSocket(w))
<1>1. CloseAppSocket(w) \in WincState
  BY RequestsAreClosed DEF CloseAppSocket
<1>2. off \in WincState
  BY <1>1, RequestsAreClosed DEF SwitchApOff
<1>3. Connect(off) \in WincState
  BY <1>2, RequestsAreClosed
<1>4. winc' \in {CloseAppSocket(w), off, Connect(off)}
  BY DEF WifiSwitchtoSTA
<1>5. winc' \in WincState
  BY <1>1, <1>2, <1>3, <1>4
<1> HIDE DEF off
<1> QED
  BY <1>5 DEF WifiSwitchtoSTA, StationStarted, Halt, TypeOK, WifiStates, ProvStates

\* Disconnecting and connecting again keeps the controller's type.
LEMMA ReconnectsType ==
  ASSUME NEW w \in WincState
  PROVE  Reconnects(w) \subseteq WincState
BY RequestsAreClosed DEF Reconnects

\* The events the task dispatches are well formed, and so is what remains.
LEMMA QueueType ==
  ASSUME TypeOK, hifq # << >>
  PROVE  Head(hifq) \in Event /\ Tail(hifq) \in Seq(Event)
BY DEF TypeOK

\* wifi_cb keeps the types.
LEMMA WifiCbType ==
  ASSUME TypeOK, hifq' \in Seq(Event), CbDisconnected \/ CbDhcpConf \/ CbSysTime
  PROVE  TypeOK'
<1>1. CASE CbSysTime
  BY <1>1 DEF CbSysTime, TypeOK, storeVars, WifiStates
<1>2. CASE CbDhcpConf
  BY <1>2, RequestsAreClosed DEF CbDhcpConf, TypeOK, storeVars, WifiStates
<1>3. CASE CbDisconnected
  <2>1. CASE WifiSwitchtoSTA(winc, "STA_DISCONNECTED", prov_state)
             /\ UNCHANGED << gbConnectedWifi, receivedTime, sockCb, mqtt, storeVars >>
    <3>1. winc \in WincState /\ "STA_DISCONNECTED" \in WifiStates /\ prov_state \in ProvStates
      BY DEF TypeOK, WifiStates
    <3> QED
      BY <2>1, <3>1, SwitchToStaType DEF TypeOK, storeVars
  <2>2. CASE UNCHANGED << pc, wifi_states, taskVars, sockCb, mqtt, storeVars, winc >>
    BY <2>2 DEF TypeOK, taskVars, storeVars
  <2>3. CASE /\ gbConnectedWifi' = FALSE
             /\ winc' \in Reconnects(winc)
             /\ UNCHANGED << pc, wifi_states, gu8WiFiMode, gAPEnabled, receivedTime,
                             prov_state, sockCb, mqtt, storeVars >>
    <3>1. winc' \in WincState
      BY <2>3, ReconnectsType DEF TypeOK
    <3> QED
      BY <2>3, <3>1 DEF TypeOK, storeVars
  <2> QED
    BY <1>3, <2>1, <2>2, <2>3 DEF CbDisconnected
<1> QED
  BY <1>1, <1>2, <1>3

\* A stored offer keeps the types of the stores.
LEMMA StoreOfferType ==
  ASSUME TypeOK, NEW c \in Creds, StoreOffer(c)
  PROVE  cred' \in Creds /\ ecc' \in [ssid : Ssids, key : Keys]
BY DEF StoreOffer, TypeOK, Creds, Slot8

\* parse_iot_cmd leaves a state of the provisioning protocol.
LEMMA NextProvStateType ==
  ASSUME TypeOK, NEW e
  PROVE  NextProvState(e) \in ProvStates
BY DEF NextProvState, TypeOK, ProvStates

\* m2m_wifi_socket_handler keeps the types.
LEMMA SocketEventType ==
  ASSUME TypeOK, NEW e \in Event, hifq' \in Seq(Event), SocketEvent(e)
  PROVE  TypeOK'
<1>1. winc \in WincState
  BY DEF TypeOK
<1>2. CASE SockBind
  BY <1>1, <1>2, RequestsAreClosed DEF SockBind, TypeOK, taskVars, storeVars
<1>3. CASE SockAccept
  BY <1>1, <1>3, RequestsAreClosed DEF SockAccept, TypeOK, taskVars, storeVars
<1>4. CASE SockRecv(e)
  <2>1. e.offer \in Creds
    BY DEF Event
  <2>2. cred' \in Creds /\ ecc' \in [ssid : Ssids, key : Keys]
    <3>1. CASE StoreOffer(e.offer)
      BY <2>1, <3>1, StoreOfferType
    <3>2. CASE UNCHANGED << cred, ecc >>
      BY <3>2 DEF TypeOK
    <3> QED
      BY <1>4, <3>1, <3>2 DEF SockRecv
  <2>3. NextProvState(e) \in ProvStates
    BY NextProvStateType
  <2>4. Recv(winc) \in WincState
    BY <1>1, RequestsAreClosed
  <2>5. CASE nvm' = cred' /\ WifiSwitchtoSTA(Recv(winc), wifi_states, NextProvState(e))
    <3>1. wifi_states \in WifiStates
      BY DEF TypeOK
    <3> QED
      BY <1>4, <2>2, <2>3, <2>4, <2>5, <3>1, SwitchToStaType DEF SockRecv, TypeOK
  <2>6. CASE /\ prov_state' = NextProvState(e)
             /\ winc' = Recv(winc)
             /\ UNCHANGED << pc, wifi_states, gu8WiFiMode, gAPEnabled, nvm >>
    BY <1>4, <2>2, <2>3, <2>4, <2>6 DEF SockRecv, TypeOK
  <2> QED
    BY <1>4, <2>5, <2>6 DEF SockRecv
<1>5. CASE UNCHANGED << pc, wifi_states, taskVars, sockCb, mqtt, storeVars, winc >>
  BY <1>5 DEF TypeOK, taskVars, storeVars
<1> QED
  BY <1>2, <1>3, <1>4, <1>5 DEF SocketEvent

\* The environment touches the queue and the controller only.
LEMMA EnvironmentType ==
  ASSUME TypeOK, Environment
  PROVE  hifq' \in Seq(Event) /\ winc' \in WincState /\ UNCHANGED boardVars
<1>1. winc \in WincState /\ hifq \in Seq(Event)
  BY DEF TypeOK
<1>2. NoCred \in Creds
  BY CredAssumption DEF NoCred, Creds, Auths
<1>3. ASSUME NEW k \in Notice, ControllerRaises(k)
      PROVE  hifq' \in Seq(Event) /\ winc' \in WincState /\ UNCHANGED boardVars
  <2>1. winc' \in WincState
    BY <1>1, <1>3, EnvironmentIsClosed DEF ControllerRaises, Raise
  <2>2. [kind |-> k, offer |-> NoCred] \in Event
    BY <1>2 DEF Event
  <2> QED
    BY <1>1, <1>3, <2>1, <2>2 DEF ControllerRaises, Raise
<1>4. CASE PhoneSends /\ UNCHANGED boardVars
  <2>1. winc' \in WincState
    BY <1>1, <1>4, EnvironmentIsClosed DEF PhoneSends
  <2>2. PICK k \in Commands, c \in Offers :
          hifq' = Append(hifq, [kind |-> k, offer |-> IF k = "CONFIG" THEN c ELSE NoCred])
    BY <1>4 DEF PhoneSends
  <2>3. (IF k = "CONFIG" THEN c ELSE NoCred) \in Creds
    BY <1>2, CredAssumption
  <2>4. [kind |-> k, offer |-> IF k = "CONFIG" THEN c ELSE NoCred] \in Event
    BY <2>3 DEF Event
  <2> QED
    BY <1>1, <1>4, <2>1, <2>2, <2>4
<1>5. CASE Radio /\ UNCHANGED boardVars
  <2>1. winc' \in WincState
    BY <1>1, <1>5, EnvironmentIsClosed DEF Radio
  <2> QED
    BY <1>1, <1>5, <2>1 DEF Radio
<1> QED
  BY <1>3, <1>4, <1>5 DEF Environment

\* The steps of the loop that dispatch nothing keep the types.
LEMMA TurnType ==
  ASSUME TypeOK, Turn \/ Returns
  PROVE  TypeOK'
<1>1. winc \in WincState
  BY DEF TypeOK
<1>2. Disconnect(winc) \in WincState /\ EnableAp(winc) \in WincState
  BY <1>1, RequestsAreClosed
<1>3. CASE ZeroTouch \/ PollDone \/ TaskNothing \/ NoLongPress
  BY <1>3, CredAssumption DEF ZeroTouch, PollDone, TaskNothing, NoLongPress, TypeOK, taskVars, storeVars
<1>4. CASE TaskSwitchToAp
  BY <1>2, <1>4 DEF TaskSwitchToAp, Halt, TypeOK, storeVars, WifiStates
<1>5. CASE TaskSwitchingToSta
  <2>1. winc' \in WincState
    BY <1>1, <1>5, ReconnectsType DEF TaskSwitchingToSta
  <2>2. Slot8Reads \subseteq [ssid : Ssids, key : Keys]
    BY DEF Slot8Reads, TypeOK
  <2>3. PICK slot \in [ssid : Ssids, key : Keys] :
          cred' = IF slot.ssid # ""
                  THEN [ssid |-> slot.ssid, key |-> slot.key,
                        auth |-> IF slot.key # "" THEN "WPA_PSK" ELSE "OPEN"]
                  ELSE IF nvm.ssid # "" THEN nvm ELSE cred
    BY <1>5, <2>2 DEF TaskSwitchingToSta, ReadWiFiSettingFromMemory
  <2>4. (IF slot.key # "" THEN "WPA_PSK" ELSE "OPEN") \in Auths
    BY DEF Auths
  <2>5. cred' \in Creds
    BY <2>3, <2>4 DEF TypeOK, Creds
  <2> QED
    BY <1>5, <2>1, <2>5 DEF TaskSwitchingToSta, TypeOK, WifiStates
<1>6. CASE TaskConnectCloud \/ TaskSubscribe \/ TaskYield
  BY <1>6 DEF TaskConnectCloud, TaskSubscribe, TaskYield, TypeOK, taskVars,
              storeVars, WifiStates, Waiting
<1>7. CASE LongPress
  BY <1>2, <1>7 DEF LongPress, TypeOK, taskVars, storeVars, WifiStates, Waiting
<1>8. CASE Returns
  BY <1>2, <1>8 DEF Returns, ConnectReturns, SubscribeReturns, YieldReturns,
                    DisconnectReturns, TypeOK, taskVars, storeVars, WifiStates
<1> QED
  BY <1>3, <1>4, <1>5, <1>6, <1>7, <1>8 DEF Turn

\* A dispatched event keeps the types.
LEMMA DispatchType ==
  ASSUME TypeOK, Dispatch
  PROVE  TypeOK'
<1>1. Head(hifq) \in Event /\ hifq' \in Seq(Event)
  BY QueueType DEF Dispatch
<1>2. \/ CbDisconnected \/ CbDhcpConf \/ CbSysTime
      \/ SocketEvent(Head(hifq))
  BY DEF Dispatch
<1> QED
  BY <1>1, <1>2, WifiCbType, SocketEventType

\* The controller after a reset, and an empty queue.
LEMMA ResetType == WincReset \in WincState /\ << >> \in Seq(Event)
<1>1. WincReset \in WincState
  BY DEF WincReset, WincState
<1>2. << >> \in Seq(Event)
  OBVIOUS
<1> QED
  BY <1>1, <1>2

\* Every step keeps the types.
LEMMA TypeStep ==
  ASSUME TypeOK, [Next]_vars
  PROVE  TypeOK'
<1>1. CASE Turn \/ Returns
  BY <1>1, TurnType
<1>2. CASE Dispatch
  BY <1>2, DispatchType
<1>3. CASE Environment
  BY <1>3, EnvironmentType DEF TypeOK, boardVars, taskVars, storeVars
<1>4. CASE PowerCycle
  BY <1>4, CredAssumption, ResetType DEF PowerCycle, TypeOK, WifiStates, ProvStates
<1>5. CASE UNCHANGED vars
  BY <1>5 DEF vars, TypeOK
<1> QED
  BY <1>1, <1>2, <1>3, <1>4, <1>5 DEF Next

\* The initial state has the right types.
LEMMA TypeInit ==
  ASSUME Init
  PROVE  TypeOK
<1>1. NoCred \in Creds /\ Default \in Creds
  BY CredAssumption DEF NoCred, Creds, Auths
<1>2. PICK c \in Creds : ecc = Slot8(c)
  BY <1>1, CredAssumption DEF Init
<1>3. ecc \in [ssid : Ssids, key : Keys]
  BY <1>2 DEF Slot8, Creds
<1> QED
  BY <1>1, <1>3, ResetType DEF Init, TypeOK, WifiStates, ProvStates

\* The task's variables and the controller's state always have their types.
THEOREM TypeCorrect == Spec => []TypeOK
BY TypeInit, TypeStep, PTL DEF Spec

----------------------------------------------------------------------------
(* One role at a time. *)

\* What makes OneRole, ServerOnlyInApMode and StateFitsMode inductive: the
\* state in which the next turn takes the station role is reached only with
\* the soft AP off and the server closed.
RoleInv ==
  /\ OneRole
  /\ ServerOnlyInApMode
  /\ StateFitsMode
  /\ wifi_states = "SWITCHING_TO_STA" => ~gAPEnabled /\ winc.srv = "closed"

\* What each host request does to the roles and to the server.
LEMMA RequestEffects ==
  ASSUME NEW w \in WincState
  PROVE  /\ Connect(w).ap = w.ap /\ Connect(w).srv = w.srv
         /\ Disconnect(w).ap = w.ap /\ Disconnect(w).srv = w.srv
         /\ w.sta = "idle" => Disconnect(w).sta = "idle"
         /\ GetSystemTime(w).ap = w.ap /\ GetSystemTime(w).srv = w.srv
         /\ GetSystemTime(w).sta = w.sta
         /\ EnableAp(w).ap /\ EnableAp(w).sta = "idle" /\ EnableAp(w).srv = w.srv
         /\ ~DisableAp(w).ap /\ DisableAp(w).srv = w.srv
         /\ OpenServer(w).ap = w.ap /\ OpenServer(w).sta = w.sta
         /\ Listen(w).ap = w.ap /\ Listen(w).sta = w.sta
         /\ CloseServer(w).ap = w.ap /\ CloseServer(w).sta = w.sta
         /\ CloseServer(w).srv = "closed"
         /\ Recv(w).ap = w.ap /\ Recv(w).sta = w.sta /\ Recv(w).srv = w.srv
<1>1. DropLink(w) = [w EXCEPT !.due = (w.due \ {"DHCP_CONF", "ACCEPT"}) \cup {"DISCONNECTED"}]
  BY DEF DropLink, WincState
<1>2. DropLink(w) \in WincState
  BY DEF DropLink, WincState, Notice
<1>3. /\ ~DisableAp(w).ap /\ DisableAp(w).srv = w.srv
  BY <1>1, <1>2 DEF DisableAp, WincState
<1>4. /\ Disconnect(w).ap = w.ap /\ Disconnect(w).srv = w.srv
      /\ w.sta = "idle" => Disconnect(w).sta = "idle"
  BY <1>1, <1>2 DEF Disconnect, WincState
<1>5. /\ Connect(w).ap = w.ap /\ Connect(w).srv = w.srv
      /\ GetSystemTime(w).ap = w.ap /\ GetSystemTime(w).srv = w.srv
      /\ GetSystemTime(w).sta = w.sta
      /\ EnableAp(w).ap /\ EnableAp(w).sta = "idle" /\ EnableAp(w).srv = w.srv
  BY DEF Connect, GetSystemTime, EnableAp, WincState
<1>6. /\ OpenServer(w).ap = w.ap /\ OpenServer(w).sta = w.sta
      /\ Listen(w).ap = w.ap /\ Listen(w).sta = w.sta
      /\ CloseServer(w).ap = w.ap /\ CloseServer(w).sta = w.sta
      /\ CloseServer(w).srv = "closed"
      /\ Recv(w).ap = w.ap /\ Recv(w).sta = w.sta /\ Recv(w).srv = w.srv
  BY DEF OpenServer, Listen, CloseServer, Recv, WincState
<1> QED
  BY <1>3, <1>4, <1>5, <1>6

\* Neither the radio nor the phone turns the soft AP on or off or touches the
\* server, and only a station that was asked to join joins.
LEMMA EnvironmentEffects ==
  ASSUME TypeOK, Environment
  PROVE  /\ winc'.ap = winc.ap /\ winc'.srv = winc.srv
         /\ winc.sta = "idle" => winc'.sta = "idle"
<1>1. winc \in WincState
  BY DEF TypeOK
<1>2. DropLink(winc) = [winc EXCEPT !.due = (winc.due \ {"DHCP_CONF", "ACCEPT"}) \cup {"DISCONNECTED"}]
  BY <1>1 DEF DropLink, WincState
<1>3. CASE \E k \in Notice : ControllerRaises(k)
  BY <1>1, <1>3 DEF ControllerRaises, Raise, Raises, WincState
<1>4. CASE PhoneSends
  BY <1>1, <1>4 DEF PhoneSends, ClientSends, WincState
<1>5. CASE Radio
  <2>1. CASE JoinSucceeds(winc, winc') \/ LeaseRenewed(winc, winc')
             \/ ClientJoins(winc, winc') \/ ClientOpensTcp(winc, winc')
    BY <1>1, <2>1 DEF JoinSucceeds, LeaseRenewed, ClientJoins, ClientOpensTcp, WincState
  <2>2. CASE JoinFails(winc, winc') \/ LinkLost(winc, winc') \/ ClientLeaves(winc, winc')
    BY <1>1, <1>2, <2>2 DEF JoinFails, LinkLost, ClientLeaves, WincState
  <2> QED
    BY <1>5, <2>1, <2>2 DEF Radio
<1> QED
  BY <1>3, <1>4, <1>5 DEF Environment

\* Switching to the station role keeps the roles apart, from any state of the
\* task in AP mode.
LEMMA SwitchToStaRole ==
  ASSUME TypeOK, RoleInv, NEW w \in WincState, NEW st \in WifiStates, NEW ps,
         w.ap = winc.ap, w.sta = winc.sta, w.srv = winc.srv,
         gu8WiFiMode = "STA" => st \in WifiStates \ {"AP_CONNECTED", "SWITCHING_TO_AP", "STA_DISCONNECTED"},
         st = "SWITCHING_TO_STA" => ~gAPEnabled,
         WifiSwitchtoSTA(w, st, ps)
  PROVE  RoleInv'
<1> DEFINE closed == CloseAppSocket(w)
<1> DEFINE off == SwitchApOff(closed)
<1>1. closed \in WincState /\ closed.ap = winc.ap /\ closed.sta = winc.sta /\ closed.srv = "closed"
  BY RequestsAreClosed, RequestEffects DEF CloseAppSocket
<1> HIDE DEF closed, off
<1>2. off \in WincState /\ off.ap = FALSE /\ off.srv = "closed"
  <2>1. CASE gAPEnabled
    <3>1. off = DisableAp(closed)
      BY <2>1 DEF SwitchApOff, off
    <3>2. off \in WincState /\ ~off.ap /\ off.srv = "closed"
      BY <1>1, <3>1, RequestsAreClosed, RequestEffects
    <3> QED
      BY <3>2 DEF WincState
  <2>2. CASE ~gAPEnabled
    <3>1. off = closed
      BY <2>2 DEF SwitchApOff, off
    <3> QED
      BY <1>1, <2>2, <3>1 DEF RoleInv, OneRole, TypeOK
  <2> QED
    BY <2>1, <2>2
<1>3. Connect(off).ap = FALSE /\ Connect(off).srv = "closed"
  BY <1>2, RequestEffects
<1>4. \/ /\ gAPEnabled /\ winc' = closed /\ wifi_states' = st
         /\ UNCHANGED << gAPEnabled, gu8WiFiMode >>
      \/ /\ st = "AP_CONNECTED" /\ winc' = off /\ gAPEnabled' = FALSE
         /\ wifi_states' = "SWITCHING_TO_STA" /\ UNCHANGED gu8WiFiMode
      \/ /\ winc' = Connect(off) /\ gAPEnabled' = FALSE
         /\ gu8WiFiMode' = "STA" /\ wifi_states' = "IDLE"
      \/ /\ winc' = off /\ gAPEnabled' = FALSE /\ wifi_states' = st
         /\ UNCHANGED gu8WiFiMode
  BY DEF WifiSwitchtoSTA, StationStarted, closed, off
<1> QED
  BY <1>1, <1>2, <1>3, <1>4 DEF RoleInv, OneRole, ServerOnlyInApMode, StateFitsMode, WifiStates

\* wifi_cb keeps the roles apart.
LEMMA WifiCbRole ==
  ASSUME TypeOK, RoleInv, CbDisconnected \/ CbDhcpConf \/ CbSysTime
  PROVE  RoleInv'
<1> USE DEF RoleInv, OneRole, ServerOnlyInApMode, StateFitsMode
<1>1. winc \in WincState
  BY DEF TypeOK
<1>2. CASE CbSysTime
  BY <1>2 DEF CbSysTime
<1>3. CASE CbDhcpConf
  BY <1>1, <1>3, RequestEffects DEF CbDhcpConf
<1>4. CASE CbDisconnected
  <2>1. CASE WifiSwitchtoSTA(winc, "STA_DISCONNECTED", prov_state) /\ gu8WiFiMode = "AP"
    <3>1. "STA_DISCONNECTED" \in WifiStates
      BY DEF WifiStates
    <3> QED
      BY <1>1, <2>1, <3>1, SwitchToStaRole DEF TypeOK
  <2>2. CASE UNCHANGED << pc, wifi_states, taskVars, sockCb, mqtt, storeVars, winc >>
    BY <2>2 DEF taskVars
  <2>3. CASE /\ gu8WiFiMode = "STA"
             /\ winc' \in Reconnects(winc)
             /\ UNCHANGED << wifi_states, gu8WiFiMode, gAPEnabled >>
    <3>1. Disconnect(winc) \in WincState /\ Disconnect(winc).ap = winc.ap
          /\ Disconnect(winc).srv = winc.srv
      BY <1>1, RequestsAreClosed, RequestEffects
    <3>2. winc'.ap = winc.ap /\ winc'.srv = winc.srv
      BY <2>3, <3>1, RequestEffects DEF Reconnects
    <3> QED
      BY <2>3, <3>2
  <2> QED
    BY <1>4, <2>1, <2>2, <2>3 DEF CbDisconnected
<1> QED
  BY <1>2, <1>3, <1>4

\* So does m2m_wifi_socket_handler.
LEMMA SocketEventRole ==
  ASSUME TypeOK, RoleInv, NEW e \in Event, SocketEvent(e)
  PROVE  RoleInv'
<1>1. winc \in WincState
  BY DEF TypeOK
<1>2. CASE SockBind /\ winc.srv # "closed"
  BY <1>1, <1>2, RequestEffects
     DEF SockBind, taskVars, RoleInv, OneRole, ServerOnlyInApMode, StateFitsMode
<1>3. CASE SockAccept
  BY <1>1, <1>3, RequestEffects
     DEF SockAccept, taskVars, RoleInv, OneRole, ServerOnlyInApMode, StateFitsMode
<1>4. CASE SockRecv(e)
  <2>1. Recv(winc) \in WincState /\ Recv(winc).ap = winc.ap
        /\ Recv(winc).sta = winc.sta /\ Recv(winc).srv = winc.srv
    BY <1>1, RequestsAreClosed, RequestEffects
  <2>2. CASE WifiSwitchtoSTA(Recv(winc), wifi_states, NextProvState(e))
    <3>1. /\ wifi_states \in WifiStates
          /\ wifi_states = "SWITCHING_TO_STA" => ~gAPEnabled
          /\ gu8WiFiMode = "STA" => wifi_states \in WifiStates \ {"AP_CONNECTED", "SWITCHING_TO_AP", "STA_DISCONNECTED"}
      BY DEF TypeOK, RoleInv, StateFitsMode
    <3> QED
      BY <2>1, <2>2, <3>1, SwitchToStaRole
  <2>3. CASE /\ winc' = Recv(winc)
             /\ UNCHANGED << pc, wifi_states, gu8WiFiMode, gAPEnabled, nvm >>
    BY <2>1, <2>3 DEF RoleInv, OneRole, ServerOnlyInApMode, StateFitsMode
  <2> QED
    BY <1>4, <2>2, <2>3 DEF SockRecv
<1>5. CASE UNCHANGED << pc, wifi_states, taskVars, sockCb, mqtt, storeVars, winc >>
  BY <1>5 DEF taskVars, RoleInv, OneRole, ServerOnlyInApMode, StateFitsMode
<1> QED
  BY <1>2, <1>3, <1>4, <1>5 DEF SocketEvent

\* Every step keeps the roles apart.
LEMMA RoleStep ==
  ASSUME TypeOK, RoleInv, [Next]_vars
  PROVE  RoleInv'
<1> USE DEF RoleInv, OneRole, ServerOnlyInApMode, StateFitsMode
<1>1. winc \in WincState
  BY DEF TypeOK
<1>2. CASE ZeroTouch \/ PollDone \/ TaskNothing \/ NoLongPress
  BY <1>2 DEF ZeroTouch, PollDone, TaskNothing, NoLongPress, taskVars
<1>3. CASE TaskSwitchToAp
  <2>1. EnableAp(winc).ap = TRUE /\ EnableAp(winc).sta = "idle"
        /\ EnableAp(winc).srv = winc.srv
    BY <1>1 DEF EnableAp, WincState
  <2> QED
    BY <1>3, <2>1 DEF TaskSwitchToAp
<1>4. CASE TaskSwitchingToSta
  <2>1. Disconnect(winc) \in WincState /\ Disconnect(winc).ap = winc.ap
        /\ Disconnect(winc).srv = winc.srv
    BY <1>1, RequestsAreClosed, RequestEffects
  <2>2. winc'.ap = winc.ap /\ winc'.srv = winc.srv
    BY <1>4, <2>1, RequestEffects DEF TaskSwitchingToSta, Reconnects
  <2> QED
    BY <1>4, <2>2 DEF TaskSwitchingToSta
<1>5. CASE TaskConnectCloud \/ TaskSubscribe \/ TaskYield
  BY <1>5 DEF TaskConnectCloud, TaskSubscribe, TaskYield, taskVars
<1>6. CASE LongPress
  BY <1>1, <1>6, RequestEffects DEF LongPress, taskVars
<1>7. CASE Returns
  BY <1>1, <1>7, RequestEffects
     DEF Returns, ConnectReturns, SubscribeReturns, YieldReturns, DisconnectReturns, taskVars
<1>8. CASE Dispatch
  <2>1. Head(hifq) \in Event
    BY <1>8, QueueType DEF Dispatch
  <2> QED
    BY <1>8, <2>1, WifiCbRole, SocketEventRole DEF Dispatch
<1>9. CASE Environment
  BY <1>9, EnvironmentEffects, EnvironmentType DEF boardVars, taskVars
<1>10. CASE PowerCycle
  BY <1>10 DEF PowerCycle, WincReset
<1>11. CASE UNCHANGED vars
  BY <1>11 DEF vars
<1> QED
  BY <1>2, <1>3, <1>4, <1>5, <1>6, <1>7, <1>8, <1>9, <1>10, <1>11 DEF Next, Turn

\* The board starts as a station with everything else off.
LEMMA RoleInit == Init => RoleInv
<1>1. WincReset.ap = FALSE /\ WincReset.srv = "closed"
  BY DEF WincReset
<1> QED
  BY <1>1 DEF Init, RoleInv, OneRole, ServerOnlyInApMode, StateFitsMode

\* The strengthening is inductive relative to the types.
LEMMA RoleInvariant == Spec => []RoleInv
BY TypeCorrect, RoleInit, RoleStep, PTL DEF Spec

\* The radio never has two roles, and gAPEnabled tells the truth about it.
THEOREM OneRoleHolds == Spec => []OneRole
BY RoleInvariant, PTL DEF RoleInv

\* The provisioning server is never open outside AP mode.
THEOREM ServerOnlyInApModeHolds == Spec => []ServerOnlyInApMode
BY RoleInvariant, PTL DEF RoleInv

\* The states of AP mode are never reached in station mode.
THEOREM StateFitsModeHolds == Spec => []StateFitsMode
BY RoleInvariant, PTL DEF RoleInv

----------------------------------------------------------------------------
(* The two stores of credentials. *)

\* What makes StoredCredentialsValid and StoresAgree inductive: between an
\* accepted CONFIG and the commit, the credentials in memory are well formed
\* and, when the accesses to slot 8 succeed, slot 8 holds the same.
CredInv ==
  /\ prov_state \in {"PROV_CONFIG", "PROV_DONE"} =>
       ValidCred(cred) /\ (SlotReliable => Slot8(cred) = ecc)
  /\ nvm.ssid # "" => ValidCred(nvm)

\* Reading the settings back keeps both.
LEMMA ReadBackCred ==
  ASSUME TypeOK, CredInv, ReadWiFiSettingFromMemory,
         UNCHANGED << prov_state, ecc, nvm >>
  PROVE  CredInv'
<1>1. PICK slot \in Slot8Reads :
        cred' = IF slot.ssid # ""
                THEN [ssid |-> slot.ssid, key |-> slot.key,
                      auth |-> IF slot.key # "" THEN "WPA_PSK" ELSE "OPEN"]
                ELSE IF nvm.ssid # "" THEN nvm ELSE cred
  BY DEF ReadWiFiSettingFromMemory
<1>2. slot \in [ssid : Ssids, key : Keys]
  BY DEF Slot8Reads, TypeOK
<1>3. CASE slot.ssid # ""
  <2>1. ValidCred(cred') /\ Slot8(cred') = slot
    BY <1>1, <1>2, <1>3 DEF ValidCred, Slot8
  <2>2. SlotReliable => slot = ecc
    BY DEF SlotReliable, Slot8Reads
  <2> QED
    BY <2>1, <2>2 DEF CredInv
<1>4. CASE slot.ssid = "" /\ prov_state \in {"PROV_CONFIG", "PROV_DONE"}
  <2>1. ValidCred(cred')
    BY <1>1, <1>4 DEF CredInv
  <2>2. SlotReliable => FALSE
    <3>1. SlotReliable => slot = Slot8(cred)
      BY <1>4 DEF SlotReliable, Slot8Reads, CredInv
    <3>2. Slot8(cred).ssid # ""
      BY <1>4 DEF CredInv, ValidCred, Slot8
    <3> QED
      BY <1>4, <3>1, <3>2
  <2> QED
    BY <2>1, <2>2 DEF CredInv
<1>5. CASE prov_state \notin {"PROV_CONFIG", "PROV_DONE"}
  BY <1>5 DEF CredInv
<1> QED
  BY <1>3, <1>4, <1>5

\* A provisioning frame keeps both, and commits only what slot 8 holds.
LEMMA SockRecvCred ==
  ASSUME TypeOK, CredInv, NEW e \in Event, SockRecv(e)
  PROVE  CredInv' /\ (SlotReliable /\ nvm' # nvm => Slot8(nvm') = ecc')
<1> DEFINE ps == NextProvState(e)
<1>1. ps \in {"PROV_CONFIG", "PROV_DONE"} =>
        ValidCred(cred') /\ (SlotReliable => Slot8(cred') = ecc')
  <2>1. CASE e.kind = "CONFIG" /\ prov_state = "PROV_INIT"
    <3>1. StoreOffer(e.offer)
      BY <2>1 DEF SockRecv
    <3>2. ps \in {"PROV_CONFIG", "PROV_DONE"} => ValidCred(e.offer)
      BY <2>1 DEF NextProvState
    <3>3. e.offer \in Creds
      BY DEF Event
    <3>4. ValidCred(e.offer) => cred' = e.offer
      BY <3>1, <3>3 DEF StoreOffer, Creds
    <3>5. SlotReliable => ecc' = Slot8(e.offer)
      BY <3>1 DEF StoreOffer, SlotReliable
    <3> QED
      BY <3>2, <3>4, <3>5
  <2>2. CASE ~(e.kind = "CONFIG" /\ prov_state = "PROV_INIT")
    <3>1. UNCHANGED << cred, ecc >>
      BY <2>2 DEF SockRecv
    <3>2. ps \in {"PROV_CONFIG", "PROV_DONE"} => prov_state \in {"PROV_CONFIG", "PROV_DONE"}
      BY <2>2 DEF NextProvState
    <3> QED
      BY <3>1, <3>2 DEF CredInv
  <2> QED
    BY <2>1, <2>2
<1>2. CASE ps = "PROV_DONE" /\ nvm' = cred' /\ WifiSwitchtoSTA(Recv(winc), wifi_states, ps)
  <2>1. prov_state' \in {ps, "STA_INIT"}
    BY <1>2 DEF WifiSwitchtoSTA, StationStarted
  <2> QED
    BY <1>1, <1>2, <2>1 DEF CredInv
<1>3. CASE prov_state' = ps /\ nvm' = nvm
  BY <1>1, <1>3 DEF CredInv
<1> QED
  BY <1>2, <1>3 DEF SockRecv

\* Every step keeps both, and commits only what slot 8 holds.
LEMMA CredStep ==
  ASSUME TypeOK, CredInv, [Next]_vars
  PROVE  CredInv' /\ (SlotReliable /\ nvm' # nvm => Slot8(nvm') = ecc')
<1>1. CASE UNCHANGED << cred, ecc, nvm >> /\ prov_state' \in {prov_state, "STA_INIT", "PROV_WAITING"}
  BY <1>1 DEF CredInv
<1>2. CASE Turn
  <2>1. CASE TaskSwitchingToSta
    BY <2>1, ReadBackCred DEF TaskSwitchingToSta
  <2>2. CASE ZeroTouch
    <3>1. UNCHANGED << cred, nvm, prov_state >> /\ (SlotReliable => ecc' = ecc)
      BY <2>2 DEF ZeroTouch, SlotReliable, taskVars
    <3> QED
      BY <3>1 DEF CredInv, SlotReliable
  <2>3. CASE Turn /\ ~TaskSwitchingToSta /\ ~ZeroTouch
    BY <1>1, <2>3 DEF Turn, PollDone, TaskNothing, NoLongPress, TaskSwitchToAp,
                      TaskConnectCloud, TaskSubscribe, TaskYield, LongPress, taskVars, storeVars
  <2> QED
    BY <1>2, <2>1, <2>2, <2>3
<1>3. CASE Returns
  BY <1>1, <1>3 DEF Returns, ConnectReturns, SubscribeReturns, YieldReturns,
                    DisconnectReturns, taskVars, storeVars
<1>4. CASE Dispatch
  <2>1. CASE CbDisconnected
    BY <1>1, <2>1 DEF CbDisconnected, WifiSwitchtoSTA, StationStarted, taskVars, storeVars
  <2>2. CASE CbDhcpConf \/ CbSysTime
    BY <1>1, <2>2 DEF CbDhcpConf, CbSysTime, storeVars
  <2>3. CASE SocketEvent(Head(hifq))
    <3>1. Head(hifq) \in Event
      BY <1>4, QueueType DEF Dispatch
    <3>2. CASE SockBind \/ SockAccept
               \/ UNCHANGED << pc, wifi_states, taskVars, sockCb, mqtt, storeVars, winc >>
      BY <1>1, <3>2 DEF SockBind, SockAccept, taskVars, storeVars
    <3>3. CASE SockRecv(Head(hifq))
      BY <3>1, <3>3, SockRecvCred
    <3> QED
      BY <2>3, <3>2, <3>3 DEF SocketEvent
  <2> QED
    BY <1>4, <2>1, <2>2, <2>3 DEF Dispatch
<1>5. CASE Environment
  BY <1>1, <1>5, EnvironmentType DEF boardVars, taskVars, storeVars
<1>6. CASE PowerCycle
  BY <1>6 DEF PowerCycle, CredInv
<1>7. CASE UNCHANGED vars
  BY <1>1, <1>7 DEF vars
<1> QED
  BY <1>2, <1>3, <1>4, <1>5, <1>6, <1>7 DEF Next

\* A new board has an empty flash.
LEMMA CredInit == Init => CredInv
<1>1. NoCred.ssid = ""
  BY DEF NoCred
<1> QED
  BY <1>1 DEF Init, CredInv

\* The strengthening is inductive relative to the types.
LEMMA CredInvariant == Spec => []CredInv
BY TypeCorrect, CredInit, CredStep, PTL DEF Spec

\* The flash never holds a network that CONFIG would have refused.
THEOREM StoredCredentialsValidHolds == Spec => []StoredCredentialsValid
<1>1. CredInv => StoredCredentialsValid
  BY DEF CredInv, ValidCred, StoredCredentialsValid
<1> QED
  BY <1>1, CredInvariant, PTL

\* Flash and slot 8 agree whenever a provisioning is committed, if the accesses
\* to slot 8 succeed and no USB host writes it.
THEOREM StoresAgreeHolds == Spec => StoresAgree
<1>1. TypeOK /\ CredInv /\ [Next]_vars =>
        [ SlotReliable /\ nvm' # nvm => Slot8(nvm') = ecc' ]_vars
  BY CredStep
<1> QED
  BY <1>1, TypeCorrect, CredInvariant, PTL DEF Spec, StoresAgree

----------------------------------------------------------------------------
(* A lost association is never forgotten. *)

\* What makes NoLostReconnect inductive: in station mode the task waits to
\* start its first association only right after a reset, when nothing has
\* happened yet, so no callback can overwrite that state.
ReconnectInv ==
  /\ NoLostReconnect
  /\ gu8WiFiMode = "STA" /\ wifi_states = "SWITCHING_TO_STA" =>
       /\ pc \in {"usb", "poll", "task"} /\ hifq = << >>
       /\ winc.due = {} /\ winc.sta = "idle" /\ ~winc.client

\* A queued event survives the arrival of another one.
LEMMA PendingAppend ==
  ASSUME hifq \in Seq(Event), NEW e \in Event, hifq' = Append(hifq, e)
  PROVE  /\ (\E i \in 1..Len(hifq) : hifq[i].kind = "DISCONNECTED")
              => \E i \in 1..Len(hifq') : hifq'[i].kind = "DISCONNECTED"
         /\ e.kind = "DISCONNECTED"
              => \E i \in 1..Len(hifq') : hifq'[i].kind = "DISCONNECTED"
<1>1. /\ Len(hifq') = Len(hifq) + 1
      /\ hifq'[Len(hifq')] = e
      /\ \A i \in 1..Len(hifq) : hifq'[i] = hifq[i]
  OBVIOUS
<1> QED
  BY <1>1

\* It also survives the dispatch of another one.
LEMMA PendingTail ==
  ASSUME hifq \in Seq(Event), hifq # << >>, hifq' = Tail(hifq),
         Head(hifq).kind # "DISCONNECTED",
         \E i \in 1..Len(hifq) : hifq[i].kind = "DISCONNECTED"
  PROVE  \E i \in 1..Len(hifq') : hifq'[i].kind = "DISCONNECTED"
<1>1. PICK i \in 1..Len(hifq) : hifq[i].kind = "DISCONNECTED"
  OBVIOUS
<1>2. i # 1 /\ Head(hifq) = hifq[1]
  BY <1>1
<1>3. i - 1 \in 1..Len(hifq') /\ hifq'[i - 1] = hifq[i]
  BY <1>2
<1> QED
  BY <1>1, <1>3

\* What each host request does to the association and to an owed DISCONNECTED.
LEMMA RequestNotices ==
  ASSUME NEW w \in WincState
  PROVE  /\ Connect(w).sta # "idle"
         /\ w.sta = "joined" => "DISCONNECTED" \in Disconnect(w).due
         /\ w.sta # "joined" => Disconnect(w) = w
         /\ "DISCONNECTED" \in w.due =>
              /\ "DISCONNECTED" \in Disconnect(w).due
              /\ "DISCONNECTED" \in GetSystemTime(w).due
              /\ "DISCONNECTED" \in Listen(w).due
              /\ "DISCONNECTED" \in Recv(w).due
         /\ Listen(w).sta = w.sta /\ Recv(w).sta = w.sta /\ GetSystemTime(w).sta = w.sta
<1>1. DropLink(w) = [w EXCEPT !.due = (w.due \ {"DHCP_CONF", "ACCEPT"}) \cup {"DISCONNECTED"}]
  BY DEF DropLink, WincState
<1>2. DropLink(w) \in WincState /\ "DISCONNECTED" \in DropLink(w).due
  BY <1>1 DEF WincState, Notice
<1>3. w.sta = "joined" => "DISCONNECTED" \in Disconnect(w).due
  BY <1>2 DEF Disconnect, WincState
<1>4. w.sta # "joined" => Disconnect(w) = w
  BY DEF Disconnect
<1>5. Connect(w).sta # "idle"
  BY DEF Connect, WincState
<1>6. /\ "DISCONNECTED" \in w.due =>
           /\ "DISCONNECTED" \in GetSystemTime(w).due
           /\ "DISCONNECTED" \in Listen(w).due
           /\ "DISCONNECTED" \in Recv(w).due
      /\ Listen(w).sta = w.sta /\ Recv(w).sta = w.sta /\ GetSystemTime(w).sta = w.sta
  BY DEF GetSystemTime, Listen, Recv, WincState
<1> QED
  BY <1>3, <1>4, <1>5, <1>6

\* After wifiSwitchtoSTA the station is joining, or the mode has not changed.
LEMMA SwitchToStaJoins ==
  ASSUME TypeOK, NEW w \in WincState, NEW st, NEW ps, "connect" \notin Faults,
         WifiSwitchtoSTA(w, st, ps)
  PROVE  \/ winc'.sta # "idle" /\ wifi_states' = "IDLE"
         \/ gu8WiFiMode' = gu8WiFiMode /\ (gAPEnabled \/ st = "AP_CONNECTED")
<1> DEFINE off == SwitchApOff(CloseAppSocket(w))
<1>1. off \in WincState
  BY RequestsAreClosed DEF CloseAppSocket, SwitchApOff
<1>2. Connect(off).sta # "idle"
  BY <1>1, RequestNotices
<1>3. \/ gAPEnabled /\ gu8WiFiMode' = gu8WiFiMode
      \/ st = "AP_CONNECTED" /\ gu8WiFiMode' = gu8WiFiMode
      \/ winc' = Connect(off) /\ wifi_states' = "IDLE"
  BY DEF WifiSwitchtoSTA, StationStarted
<1> HIDE DEF off
<1> QED
  BY <1>2, <1>3

\* The environment raises or owes a DISCONNECTED whenever it ends an
\* association, and does nothing to a board that was just reset.
LEMMA EnvironmentReconnect ==
  ASSUME TypeOK, RoleInv, ReconnectInv, Environment
  PROVE  ReconnectInv'
<1>1. winc \in WincState /\ hifq \in Seq(Event)
  BY DEF TypeOK
<1>2. UNCHANGED << pc, gu8WiFiMode, wifi_states >>
  BY EnvironmentType DEF boardVars, taskVars
<1>3. CASE \E k \in Notice : ControllerRaises(k)
  <2>1. PICK k \in Notice : ControllerRaises(k)
    BY <1>3
  <2>2. /\ k \in winc.due /\ winc' = [winc EXCEPT !.due = winc.due \ {k}]
        /\ hifq' = Append(hifq, [kind |-> k, offer |-> NoCred])
    BY <1>1, <2>1 DEF ControllerRaises, Raise, Raises, WincState
  <2>3. [kind |-> k, offer |-> NoCred] \in Event
    BY CredAssumption DEF Event, NoCred, Creds, Auths
  <2>4. winc'.sta = winc.sta /\ winc'.due = winc.due \ {k}
    BY <1>1, <2>2 DEF WincState
  <2>5. Pending("DISCONNECTED") => Pending("DISCONNECTED")'
    BY <1>1, <2>2, <2>3, <2>4, PendingAppend DEF Pending
  <2> QED
    BY <1>2, <2>2, <2>4, <2>5 DEF ReconnectInv, NoLostReconnect
<1>4. CASE PhoneSends
  <2>1. winc.client /\ winc'.due = winc.due /\ winc'.sta = winc.sta
    BY <1>1, <1>4 DEF PhoneSends, ClientSends, WincState
  <2>2. PICK k \in Commands, c \in Offers :
          hifq' = Append(hifq, [kind |-> k, offer |-> IF k = "CONFIG" THEN c ELSE NoCred])
    BY <1>4 DEF PhoneSends
  <2>3. NoCred \in Creds /\ c \in Creds
    BY CredAssumption DEF NoCred, Creds, Auths
  <2>4. [kind |-> k, offer |-> IF k = "CONFIG" THEN c ELSE NoCred] \in Event
    BY <2>3 DEF Event
  <2>5. Pending("DISCONNECTED") => Pending("DISCONNECTED")'
    BY <1>1, <2>1, <2>2, <2>4, PendingAppend DEF Pending
  <2> QED
    BY <1>2, <2>1, <2>5 DEF ReconnectInv, NoLostReconnect
<1>5. CASE Radio
  <2>1. hifq' = hifq
    BY <1>5 DEF Radio
  <2>2. DropLink(winc) = [winc EXCEPT !.due = (winc.due \ {"DHCP_CONF", "ACCEPT"}) \cup {"DISCONNECTED"}]
    BY <1>1 DEF DropLink, WincState
  <2>3. CASE JoinFails(winc, winc') \/ LinkLost(winc, winc')
    <3>1. "DISCONNECTED" \in winc'.due /\ winc.sta # "idle"
      BY <1>1, <2>2, <2>3 DEF JoinFails, LinkLost, WincState
    <3> QED
      BY <1>2, <2>1, <3>1 DEF ReconnectInv, NoLostReconnect, Pending
  <2>4. CASE ClientLeaves(winc, winc')
    <3>1. "DISCONNECTED" \in winc'.due /\ winc.client
      BY <1>1, <2>2, <2>4 DEF ClientLeaves, WincState
    <3> QED
      BY <1>2, <2>1, <3>1 DEF ReconnectInv, NoLostReconnect, Pending
  <2>5. CASE JoinSucceeds(winc, winc') \/ LeaseRenewed(winc, winc')
    <3>1. winc.sta # "idle" /\ winc'.sta # "idle"
      BY <1>1, <2>5 DEF JoinSucceeds, LeaseRenewed, WincState
    <3> QED
      BY <1>2, <3>1 DEF ReconnectInv, NoLostReconnect
  <2>6. CASE ClientJoins(winc, winc')
    <3>1. winc.ap
      BY <2>6 DEF ClientJoins
    <3> QED
      BY <1>2, <3>1 DEF ReconnectInv, NoLostReconnect, RoleInv, OneRole
  <2>7. CASE ClientOpensTcp(winc, winc')
    <3>1. winc.client /\ winc'.sta = winc.sta
          /\ ("DISCONNECTED" \in winc.due => "DISCONNECTED" \in winc'.due)
      BY <1>1, <2>7 DEF ClientOpensTcp, WincState
    <3> QED
      BY <1>2, <2>1, <3>1 DEF ReconnectInv, NoLostReconnect, Pending
  <2> QED
    BY <1>5, <2>3, <2>4, <2>5, <2>6, <2>7 DEF Radio
<1> QED
  BY <1>3, <1>4, <1>5 DEF Environment

\* A dispatched event: a DISCONNECTED in station mode starts an association,
\* and any other event leaves the pending one pending.
LEMMA DispatchReconnect ==
  ASSUME TypeOK, RoleInv, ReconnectInv, "connect" \notin Faults, Dispatch
  PROVE  ReconnectInv'
<1>1. /\ winc \in WincState /\ hifq \in Seq(Event) /\ hifq # << >>
      /\ hifq' = Tail(hifq) /\ Head(hifq) \in Event
  BY QueueType DEF Dispatch, TypeOK
<1>2. ~(gu8WiFiMode = "STA" /\ wifi_states = "SWITCHING_TO_STA")
  BY <1>1 DEF ReconnectInv
<1>3. gu8WiFiMode = "STA" => ~gAPEnabled /\ wifi_states # "AP_CONNECTED"
  BY DEF RoleInv, OneRole, StateFitsMode, TypeOK, WincState
<1>4. ASSUME NEW w \in WincState, NEW st, NEW ps, WifiSwitchtoSTA(w, st, ps),
             st \in {wifi_states, "STA_DISCONNECTED"}
      PROVE  ReconnectInv'
  <2>1. gu8WiFiMode' = gu8WiFiMode /\ (gAPEnabled \/ st = "AP_CONNECTED") => gu8WiFiMode' # "STA"
    BY <1>3, <1>4
  <2> QED
    BY <1>4, <2>1, SwitchToStaJoins DEF ReconnectInv, NoLostReconnect
<1>5. ASSUME Head(hifq).kind # "DISCONNECTED", gu8WiFiMode' = gu8WiFiMode,
             winc'.sta = winc.sta,
             "DISCONNECTED" \in winc.due => "DISCONNECTED" \in winc'.due,
             wifi_states' \in {wifi_states, "CONNECT_CLOUD"}
      PROVE  ReconnectInv'
  <2>1. Pending("DISCONNECTED") => Pending("DISCONNECTED")'
    BY <1>1, <1>5, PendingTail DEF Pending
  <2> QED
    BY <1>2, <1>5, <2>1 DEF ReconnectInv, NoLostReconnect
<1>6. CASE Head(hifq).kind = "DISCONNECTED" /\ CbDisconnected
  <2>1. CASE WifiSwitchtoSTA(winc, "STA_DISCONNECTED", prov_state)
    BY <1>1, <1>4, <2>1
  <2>2. CASE gu8WiFiMode = "AP" /\ UNCHANGED << pc, wifi_states, taskVars, sockCb, mqtt, storeVars, winc >>
    BY <2>2 DEF ReconnectInv, NoLostReconnect, taskVars
  <2>3. CASE gu8WiFiMode = "STA" /\ winc' \in Reconnects(winc)
             /\ UNCHANGED << wifi_states, gu8WiFiMode >>
    <3>1. winc' = Connect(Disconnect(winc))
      BY <2>3 DEF Reconnects
    <3>2. winc'.sta # "idle"
      BY <1>1, <3>1, RequestsAreClosed, RequestNotices
    <3> QED
      BY <1>2, <2>3, <3>2 DEF ReconnectInv, NoLostReconnect
  <2> QED
    BY <1>6, <2>1, <2>2, <2>3 DEF CbDisconnected
<1>7. CASE Head(hifq).kind = "DHCP_CONF" /\ CbDhcpConf
  <2>1. CASE gu8WiFiMode = "AP"
    BY <1>7, <2>1 DEF CbDhcpConf, ReconnectInv, NoLostReconnect
  <2>2. CASE gu8WiFiMode = "STA"
    <3>1. winc' = GetSystemTime(winc) /\ UNCHANGED << wifi_states, gu8WiFiMode >>
      BY <1>7, <2>2 DEF CbDhcpConf
    <3> QED
      BY <1>1, <1>5, <1>7, <3>1, RequestNotices
  <2> QED
    BY <2>1, <2>2 DEF TypeOK
<1>8. CASE Head(hifq).kind = "SYS_TIME" /\ CbSysTime
  BY <1>5, <1>8 DEF CbSysTime
<1>9. CASE Head(hifq).kind \in {"BIND", "ACCEPT"} \cup Commands /\ SocketEvent(Head(hifq))
  <2>1. Head(hifq).kind # "DISCONNECTED"
    BY <1>9 DEF Commands
  <2>2. CASE SockBind \/ SockAccept
    <3>1. winc' \in {winc, Listen(winc), Recv(winc)} /\ UNCHANGED << wifi_states, gu8WiFiMode >>
      BY <2>2 DEF SockBind, SockAccept, taskVars
    <3> QED
      BY <1>1, <1>5, <2>1, <3>1, RequestNotices
  <2>3. CASE SockRecv(Head(hifq))
    <3>1. CASE WifiSwitchtoSTA(Recv(winc), wifi_states, NextProvState(Head(hifq)))
      BY <1>1, <1>4, <3>1, RequestsAreClosed
    <3>2. CASE winc' = Recv(winc) /\ UNCHANGED << wifi_states, gu8WiFiMode >>
      BY <1>1, <1>5, <2>1, <3>2, RequestNotices
    <3> QED
      BY <2>3, <3>1, <3>2 DEF SockRecv
  <2>4. CASE UNCHANGED << pc, wifi_states, taskVars, sockCb, mqtt, storeVars, winc >>
    BY <1>5, <2>1, <2>4 DEF taskVars
  <2> QED
    BY <1>9, <2>2, <2>3, <2>4 DEF SocketEvent
<1> QED
  BY <1>6, <1>7, <1>8, <1>9 DEF Dispatch

\* The task's turns: an association the task gives up is reported back by the
\* controller, and the first one is started before anything else happens.
LEMMA TurnReconnect ==
  ASSUME TypeOK, ReconnectInv, "connect" \notin Faults, Turn \/ Returns
  PROVE  ReconnectInv'
<1>1. winc \in WincState
  BY DEF TypeOK
<1>2. ASSUME winc' \in {winc, Disconnect(winc)}, hifq' = hifq, gu8WiFiMode' = gu8WiFiMode,
             ~(gu8WiFiMode = "STA" /\ wifi_states = "SWITCHING_TO_STA"),
             wifi_states' # "SWITCHING_TO_STA" \/ wifi_states' = wifi_states
      PROVE  ReconnectInv'
  <2>1. \/ winc' = winc
        \/ "DISCONNECTED" \in winc'.due
    BY <1>1, <1>2, RequestNotices
  <2> QED
    BY <1>2, <2>1 DEF ReconnectInv, NoLostReconnect, Pending
<1>3. CASE ZeroTouch \/ PollDone
  BY <1>3 DEF ZeroTouch, PollDone, ReconnectInv, NoLostReconnect, Pending, taskVars
<1>4. CASE TaskSwitchToAp
  BY <1>2, <1>4 DEF TaskSwitchToAp, ReconnectInv, NoLostReconnect
<1>5. CASE TaskSwitchingToSta
  <2>1. winc' = Connect(Disconnect(winc))
    BY <1>5 DEF TaskSwitchingToSta, Reconnects
  <2>2. winc'.sta # "idle"
    BY <1>1, <2>1, RequestsAreClosed, RequestNotices
  <2> QED
    BY <1>5, <2>2 DEF TaskSwitchingToSta, ReconnectInv, NoLostReconnect
<1>6. CASE TaskNothing \/ TaskConnectCloud \/ TaskSubscribe \/ TaskYield
  BY <1>2, <1>6 DEF TaskNothing, TaskConnectCloud, TaskSubscribe, TaskYield, taskVars
<1>7. CASE NoLongPress \/ LongPress \/ Returns
  <2>1. pc \notin {"usb", "poll", "task"}
    BY <1>7 DEF NoLongPress, LongPress, Returns, ConnectReturns, SubscribeReturns,
                YieldReturns, DisconnectReturns
  <2>2. ~(gu8WiFiMode = "STA" /\ wifi_states = "SWITCHING_TO_STA")
    BY <2>1 DEF ReconnectInv
  <2>3. /\ winc' \in {winc, Disconnect(winc)} /\ hifq' = hifq /\ gu8WiFiMode' = gu8WiFiMode
        /\ wifi_states' # "SWITCHING_TO_STA" \/ wifi_states' = wifi_states
    BY <1>7 DEF NoLongPress, LongPress, Returns, ConnectReturns, SubscribeReturns,
                YieldReturns, DisconnectReturns, taskVars
  <2> QED
    BY <1>2, <2>2, <2>3
<1> QED
  BY <1>3, <1>4, <1>5, <1>6, <1>7 DEF Turn

\* Every step keeps a way back for a station that lost its association.
LEMMA ReconnectStep ==
  ASSUME TypeOK, RoleInv, ReconnectInv, "connect" \notin Faults, [Next]_vars
  PROVE  ReconnectInv'
<1>1. CASE PowerCycle
  <2>1. WincReset.due = {} /\ WincReset.sta = "idle" /\ ~WincReset.client
    BY DEF WincReset
  <2> QED
    BY <1>1, <2>1 DEF PowerCycle, ReconnectInv, NoLostReconnect
<1>2. CASE UNCHANGED vars
  BY <1>2 DEF vars, ReconnectInv, NoLostReconnect, Pending
<1> QED
  BY <1>1, <1>2, DispatchReconnect, TurnReconnect, EnvironmentReconnect DEF Next

\* A board that was just reset has not lost anything.
LEMMA ReconnectInit == Init => ReconnectInv
<1>1. WincReset.due = {} /\ WincReset.sta = "idle" /\ ~WincReset.client
  BY DEF WincReset
<1> QED
  BY <1>1 DEF Init, ReconnectInv, NoLostReconnect

\* In station mode and off the air, the board still has a DISCONNECTED to
\* handle, which starts a new association, if requests to connect do not fail.
THEOREM NoLostReconnectHolds == Spec => []NoLostReconnect
<1>1. CASE "connect" \in Faults
  <2>1. NoLostReconnect
    BY <1>1 DEF NoLostReconnect
  <2> QED
    BY <2>1, PTL
<1>2. CASE "connect" \notin Faults
  <2>1. TypeOK /\ RoleInv /\ ReconnectInv /\ [Next]_vars => ReconnectInv'
    BY <1>2, ReconnectStep
  <2>2. ReconnectInv => NoLostReconnect
    BY DEF ReconnectInv
  <2> QED
    BY <2>1, <2>2, ReconnectInit, TypeCorrect, RoleInvariant, PTL DEF Spec
<1> QED
  BY <1>1, <1>2
=============================================================================
