------------------------------ MODULE WifiTask ------------------------------
(***************************************************************************)
(* The main loop of the sensor board after provisioning over USB: the      *)
(* Wi-Fi task of winc15x0.c (wifiTaskExecute and the callbacks wifi_cb and *)
(* m2m_wifi_socket_handler), the soft-AP provisioning protocol of          *)
(* wifi_prov.c, and the long press of button SW3.                          *)
(*                                                                         *)
(* There is one thread.  A turn of the loop handles a command of the USB   *)
(* host (pc = "usb"), the controller's events ("poll"), one case of the    *)
(* Wi-Fi task ("task"), the buttons and the sensors ("buttons").           *)
(* Callbacks run only inside m2m_wifi_handle_events, which the poll calls  *)
(* and which every blocking cloud operation calls again while it waits     *)
(* (pc in Waiting), so wifi_cb may run in the middle of a cloud operation  *)
(* and change wifi_states under it.                                        *)
(*                                                                         *)
(* Abstracted: LED, logging, topics and payloads, the uuid, frames that    *)
(* fail the length or start-of-frame check (they change nothing), the      *)
(* LISTEN and SEND socket events and the CONNECTED event (their handlers   *)
(* call functions that do nothing), and what is published.                 *)
(***************************************************************************)
EXTENDS Winc

CONSTANTS
  Ssids,      \* network names; "" stands for none
  Keys,       \* pass phrases; "" stands for none
  Offers,     \* what the phone may put in a CONFIG command
  UsbOffers,  \* what a USB host may put in setWifi; empty without a host
  Default,    \* MAIN_WLAN_SSID, MAIN_WLAN_PSK, MAIN_WLAN_AUTH
  MaxEvents,  \* bound: events waiting in the host interface
  Faults      \* which host calls may fail, and whether power may fail

Auths == {"OPEN", "WPA_PSK", "WEP", "802_1X"}
Creds == [ssid : Ssids, key : Keys, auth : Auths]

\* Mutant: the pass phrase is not looked at.
ValidCred_KeyIgnored(c) == c.ssid # ""

\* The check of parse_iot_cmd on the CONFIG parameters.
ValidCred(c) ==
  /\ c.ssid # ""
  /\ (c.auth = "OPEN") <=> (c.key = "")

ASSUME CredAssumption ==
  /\ "" \in Ssids /\ "" \in Keys
  /\ Offers \subseteq Creds
  /\ UsbOffers \subseteq [ssid : Ssids, key : Keys]
  /\ Default \in Creds /\ ValidCred(Default)
ASSUME BoundAssumption == MaxEvents \in Nat \ {0}
ASSUME FaultAssumption ==
  Faults \subseteq {"enable_ap", "disable_ap", "connect", "bind",
                    "ecc_read", "ecc_write", "power"}

VARIABLES
  pc,              \* where the loop is
  wifi_states,     \* wifi_states
  gu8WiFiMode,     \* gu8WiFiMode
  gAPEnabled,      \* gAPEnabled
  gbConnectedWifi, \* gbConnectedWifi
  receivedTime,    \* receivedTime
  prov_state,      \* prov_state of wifi_prov.c
  sockCb,          \* the handler registered with registerSocketCallback
  mqtt,            \* MQTT client: never connected or given up / up / lost
  cred,            \* gDefaultSSID, gDefaultKey, gAuthType
  ecc,             \* ssid and password in slot 8 of the ATECCx08A
  nvm,             \* wifi_nvm_data in flash; ssid "" when never written
  hifq,            \* events the controller has raised
  winc             \* the controller

vars == << pc, wifi_states, gu8WiFiMode, gAPEnabled, gbConnectedWifi,
           receivedTime, prov_state, sockCb, mqtt, cred, ecc, nvm, hifq, winc >>
taskVars == << gu8WiFiMode, gAPEnabled, gbConnectedWifi, receivedTime, prov_state >>
storeVars == << cred, ecc, nvm >>

WifiStates ==
  { "IDLE", "SWITCHING_TO_STA", "CONNECT_CLOUD", "MQTT_SUBSCRIBE",
    "MQTT_RUNNING", "SWITCH_TO_AP", "SWITCHING_TO_AP", "AP_CONNECTED",
    "STA_DISCONNECTED" }
ProvStates == {"PROV_WAITING", "PROV_INIT", "PROV_CONFIG", "PROV_DONE", "STA_INIT"}
Waiting    == {"connect", "subscribe", "yield", "disconnect"}
Commands   == {"DISCOVER", "CONFIG", "CONDONE", "INVALID", "OTHER"}
NoCred     == [ssid |-> "", key |-> "", auth |-> "OPEN"]
Event      == [kind : Notice \cup Commands, offer : Creds]

\* Mutant: the security type is stored too.
Slot8_WholeRecord(c) == c

\* What slot 8 keeps of the credentials.
Slot8(c) == [ssid |-> c.ssid, key |-> c.key]

----------------------------------------------------------------------------
Init ==
  /\ pc = "usb"
  /\ wifi_states = "SWITCHING_TO_STA"
  /\ gu8WiFiMode = "STA"
  /\ gAPEnabled = FALSE
  /\ gbConnectedWifi = FALSE
  /\ receivedTime = FALSE
  /\ prov_state = "PROV_WAITING"
  /\ sockCb = "none"
  /\ mqtt = "none"
  /\ cred = Default
  /\ ecc \in {Slot8(c) : c \in Offers \cup {NoCred}}
  /\ nvm = NoCred
  /\ hifq = << >>
  /\ winc = WincReset

----------------------------------------------------------------------------
(* Credentials. *)

\* What the two reads of slot 8 leave in readWiFiSettingFromMemory's local
\* buffers: a read that fails leaves them uninitialised.
Slot8Reads ==
  IF "ecc_read" \in Faults THEN [ssid : Ssids, key : Keys] ELSE {ecc}

\* readWiFiSettingFromMemory: slot 8 wins whenever it names a network, and
\* then the security type is guessed from the pass phrase; otherwise the
\* flash record, otherwise what is in memory.
ReadWiFiSettingFromMemory ==
  \E slot \in Slot8Reads :
    cred' = IF slot.ssid # ""
            THEN [ssid |-> slot.ssid, key |-> slot.key,
                  auth |-> IF slot.key # "" THEN "WPA_PSK" ELSE "OPEN"]
            ELSE IF nvm.ssid # "" THEN nvm ELSE cred

\* Mutant: slot 8 keeps its old pass phrase.
StoreOffer_KeyKept(c) ==
  /\ cred' = [c EXCEPT !.auth = IF ValidCred(c) THEN @ ELSE cred.auth]
  /\ ecc' = [ecc EXCEPT !.ssid = c.ssid]

\* The CONFIG command: memory and slot 8 take the offer before it is checked;
\* a failing write of slot 8 is not noticed.
StoreOffer(c) ==
  /\ cred' = [c EXCEPT !.auth = IF ValidCred(c) THEN @ ELSE cred.auth]
  /\ \/ ecc' = Slot8(c)
     \/ "ecc_write" \in Faults /\ ecc' = ecc

----------------------------------------------------------------------------
(* Switching roles. *)

Halt == pc' = "halted"   \* while (1) { }

\* Mutants: the server is left open, the soft AP is left on the air, the
\* association is not started again, the task's state is not reset.
CloseAppSocket_Skipped(w) == w
SwitchApOff_Skipped(w) == w
Reconnects_Forgotten(w) == {Disconnect(w)}
StationStarted_StateKept(st) ==
  gu8WiFiMode' = "STA" /\ wifi_states' = st /\ prov_state' = "STA_INIT"

\* close_app_socket.
CloseAppSocket(w) == CloseServer(w)

\* The soft AP is disabled only while the host believes it is enabled.
SwitchApOff(w) == IF gAPEnabled THEN DisableAp(w) ELSE w

\* m2m_wifi_disconnect, then m2m_wifi_connect; nobody looks at what they
\* return, so a request that fails is not made again.
Reconnects(w) ==
  {Connect(Disconnect(w))} \cup (IF "connect" \in Faults THEN {Disconnect(w)} ELSE {})

\* The end of wifiSwitchtoSTA, called with wifi_states = st.
StationStarted(st) ==
  gu8WiFiMode' = "STA" /\ wifi_states' = "IDLE" /\ prov_state' = "STA_INIT"

\* wifiSwitchtoSTA, called with wifi_states = st and prov_state = ps.
WifiSwitchtoSTA(w, st, ps) ==
  LET closed == CloseAppSocket(w)
      off    == SwitchApOff(closed)
  IN \/ /\ gAPEnabled /\ "disable_ap" \in Faults
        /\ winc' = closed
        /\ wifi_states' = st /\ prov_state' = ps
        /\ UNCHANGED << pc, gAPEnabled, gu8WiFiMode >>
     \/ /\ st = "AP_CONNECTED"
        /\ winc' = off
        /\ gAPEnabled' = FALSE
        /\ wifi_states' = "SWITCHING_TO_STA" /\ prov_state' = ps
        /\ UNCHANGED << pc, gu8WiFiMode >>
     \/ /\ st # "AP_CONNECTED"
        /\ winc' = Connect(off)
        /\ gAPEnabled' = FALSE
        /\ StationStarted(st)
        /\ UNCHANGED pc
     \/ /\ st # "AP_CONNECTED" /\ "connect" \in Faults
        /\ winc' = off
        /\ gAPEnabled' = FALSE
        /\ wifi_states' = st /\ prov_state' = ps
        /\ Halt
        /\ UNCHANGED gu8WiFiMode

----------------------------------------------------------------------------
(* wifi_cb. *)

\* A client that leaves, or the end of the station's link.
CbDisconnected ==
  \/ /\ gu8WiFiMode = "AP" /\ wifi_states = "SWITCHING_TO_STA"
     /\ WifiSwitchtoSTA(winc, "STA_DISCONNECTED", prov_state)
     /\ UNCHANGED << gbConnectedWifi, receivedTime, sockCb, mqtt, storeVars >>
  \/ /\ gu8WiFiMode = "AP" /\ wifi_states # "SWITCHING_TO_STA"
     /\ UNCHANGED << pc, wifi_states, taskVars, sockCb, mqtt, storeVars, winc >>
  \/ /\ gu8WiFiMode = "STA"
     /\ gbConnectedWifi' = FALSE
     /\ winc' \in Reconnects(winc)
     /\ UNCHANGED << pc, wifi_states, gu8WiFiMode, gAPEnabled, receivedTime,
                     prov_state, sockCb, mqtt, storeVars >>

\* An address was obtained (station) or given to a client (soft AP, where the
\* provisioning server is started unless it is open).
CbDhcpConf ==
  /\ gbConnectedWifi' = TRUE
  /\ \/ /\ gu8WiFiMode = "AP"
        /\ wifi_states' = "AP_CONNECTED"
        /\ \/ winc.srv = "closed" /\ winc' = OpenServer(winc)
           \/ winc.srv = "closed" /\ "bind" \in Faults /\ winc' = winc
           \/ winc.srv # "closed" /\ winc' = winc
     \/ /\ gu8WiFiMode = "STA"
        /\ winc' = GetSystemTime(winc)
        /\ UNCHANGED wifi_states
  /\ UNCHANGED << pc, gu8WiFiMode, gAPEnabled, receivedTime, prov_state,
                  sockCb, mqtt, storeVars >>

\* The time arrived, in whatever mode and state the board now is.
CbSysTime ==
  /\ receivedTime' = TRUE
  /\ wifi_states' = "CONNECT_CLOUD"
  /\ UNCHANGED << pc, gu8WiFiMode, gAPEnabled, gbConnectedWifi, prov_state,
                  sockCb, mqtt, storeVars, winc >>

----------------------------------------------------------------------------
(* m2m_wifi_socket_handler and parse_iot_cmd. *)

\* The server socket is bound: listen, unless the bind failed.
SockBind ==
  /\ winc' \in {Listen(winc)} \cup (IF "bind" \in Faults THEN {winc} ELSE {})
  /\ UNCHANGED << pc, wifi_states, taskVars, sockCb, mqtt, storeVars >>

SockAccept ==
  /\ winc' = Recv(winc)
  /\ UNCHANGED << pc, wifi_states, taskVars, sockCb, mqtt, storeVars >>

\* The state parse_iot_cmd leaves in prov_state.
NextProvState(e) ==
  CASE e.kind = "DISCOVER" ->
         IF prov_state = "PROV_WAITING" THEN "PROV_INIT" ELSE prov_state
    [] e.kind = "CONFIG" ->
         IF prov_state = "PROV_INIT" /\ ValidCred(e.offer)
         THEN "PROV_CONFIG" ELSE "PROV_INIT"
    [] e.kind = "CONDONE" ->
         IF prov_state = "PROV_CONFIG" THEN "PROV_DONE" ELSE "PROV_INIT"
    [] e.kind = "INVALID" -> "PROV_INIT"
    [] OTHER -> prov_state

\* A frame from the phone.  PROV_DONE is looked at after every frame, whatever
\* the frame said: the credentials in memory go to flash and the board
\* switches roles.  Reading from the socket is resumed in every case.
SockRecv(e) ==
  LET ps == NextProvState(e) IN
  /\ \/ e.kind = "CONFIG" /\ prov_state = "PROV_INIT" /\ StoreOffer(e.offer)
     \/ ~(e.kind = "CONFIG" /\ prov_state = "PROV_INIT") /\ UNCHANGED << cred, ecc >>
  /\ \/ /\ ps = "PROV_DONE"
        /\ nvm' = cred'
        /\ WifiSwitchtoSTA(Recv(winc), wifi_states, ps)
     \/ /\ ps # "PROV_DONE"
        /\ prov_state' = ps
        /\ winc' = Recv(winc)
        /\ UNCHANGED << pc, wifi_states, gu8WiFiMode, gAPEnabled, nvm >>
  /\ UNCHANGED << gbConnectedWifi, receivedTime, sockCb, mqtt >>

\* Socket events reach the provisioning server only while its handler is the
\* registered one; the handler of the TLS port ignores them.
SocketEvent(e) ==
  \/ /\ sockCb = "ap" /\ e.kind = "BIND" /\ winc.srv # "closed"
     /\ SockBind
  \/ /\ sockCb = "ap" /\ e.kind = "ACCEPT" /\ winc.srv # "closed"
     /\ SockAccept
  \/ /\ sockCb = "ap" /\ e.kind \in Commands
     /\ SockRecv(e)
  \/ /\ \/ sockCb # "ap"
        \/ e.kind \in {"BIND", "ACCEPT"} /\ winc.srv = "closed"
     /\ UNCHANGED << pc, wifi_states, taskVars, sockCb, mqtt, storeVars, winc >>

\* Where m2m_wifi_handle_events runs: in the poll, in a blocking operation of
\* the MQTT client, and when a button publishes over an open connection.
HandlesEvents ==
  \/ pc \in {"poll"} \cup Waiting
  \/ pc = "buttons" /\ mqtt = "up"

\* One event handled by m2m_wifi_handle_events.
Dispatch ==
  /\ HandlesEvents
  /\ hifq # << >>
  /\ hifq' = Tail(hifq)
  /\ LET e == Head(hifq) IN
       \/ e.kind = "DISCONNECTED" /\ CbDisconnected
       \/ e.kind = "DHCP_CONF" /\ CbDhcpConf
       \/ e.kind = "SYS_TIME" /\ CbSysTime
       \/ e.kind \in {"BIND", "ACCEPT"} \cup Commands /\ SocketEvent(e)

----------------------------------------------------------------------------
(* zero_touch_provisioning_task: setWifi writes slot 8, behind the back of the *)
(* Wi-Fi task; when its read or its write fails, nothing changes.             *)

ZeroTouch ==
  /\ pc = "usb"
  /\ pc' = "poll"
  /\ ecc' \in {ecc} \cup UsbOffers
  /\ UNCHANGED << wifi_states, taskVars, sockCb, mqtt, cred, nvm, hifq, winc >>

----------------------------------------------------------------------------
(* wifiTaskExecute. *)

\* m2m_wifi_handle_events returns when no event is left.
PollDone ==
  /\ pc = "poll" /\ hifq = << >>
  /\ pc' = "task"
  /\ UNCHANGED << wifi_states, taskVars, sockCb, mqtt, storeVars, hifq, winc >>

\* WIFI_TASK_SWITCH_TO_AP, with wifiSwitchtoAP.
TaskSwitchToAp ==
  /\ pc = "task" /\ wifi_states = "SWITCH_TO_AP"
  /\ \/ /\ winc' = EnableAp(winc)
        /\ sockCb' = "ap"
        /\ gAPEnabled' = TRUE
        /\ gu8WiFiMode' = "AP"
        /\ wifi_states' = "SWITCHING_TO_AP"
        /\ pc' = "buttons"
     \/ /\ "enable_ap" \in Faults
        /\ Halt
        /\ UNCHANGED << winc, sockCb, gAPEnabled, gu8WiFiMode, wifi_states >>
  /\ UNCHANGED << gbConnectedWifi, receivedTime, prov_state, mqtt, storeVars, hifq >>

TaskNothing ==
  /\ pc = "task"
  /\ wifi_states \in {"IDLE", "SWITCHING_TO_AP", "AP_CONNECTED", "STA_DISCONNECTED"}
  /\ pc' = "buttons"
  /\ UNCHANGED << wifi_states, taskVars, sockCb, mqtt, storeVars, hifq, winc >>

TaskSwitchingToSta ==
  /\ pc = "task" /\ wifi_states = "SWITCHING_TO_STA"
  /\ ReadWiFiSettingFromMemory
  /\ gu8WiFiMode' = "STA"
  /\ winc' \in Reconnects(winc)
  /\ wifi_states' = "IDLE"
  /\ pc' = "buttons"
  /\ UNCHANGED << gAPEnabled, gbConnectedWifi, receivedTime, prov_state,
                  sockCb, mqtt, ecc, nvm, hifq >>

\* WIFI_TASK_CONNECT_CLOUD: cloud_connect reports success without having
\* connected when there is no link or no time.
TaskConnectCloud ==
  /\ pc = "task" /\ wifi_states = "CONNECT_CLOUD"
  /\ \/ /\ gbConnectedWifi /\ receivedTime
        /\ pc' = "connect"
        /\ sockCb' = "tls"
        /\ mqtt' = "none"
        /\ UNCHANGED wifi_states
     \/ /\ ~(gbConnectedWifi /\ receivedTime)
        /\ wifi_states' = "MQTT_SUBSCRIBE"
        /\ pc' = "buttons"
        /\ UNCHANGED << sockCb, mqtt >>
  /\ UNCHANGED << taskVars, storeVars, hifq, winc >>

\* A connection is only ever made over an association.
ConnectReturns ==
  /\ pc = "connect"
  /\ pc' = "buttons"
  /\ \/ winc.sta = "joined" /\ mqtt' = "up" /\ wifi_states' = "MQTT_SUBSCRIBE"
     \/ UNCHANGED << mqtt, wifi_states >>
  /\ UNCHANGED << taskVars, sockCb, storeVars, hifq, winc >>

\* WIFI_TASK_MQTT_SUBSCRIBE: two subscriptions and a publication, at once
\* refused without a connection; what they return is not looked at.
TaskSubscribe ==
  /\ pc = "task" /\ wifi_states = "MQTT_SUBSCRIBE"
  /\ \/ mqtt = "up" /\ pc' = "subscribe" /\ UNCHANGED wifi_states
     \/ mqtt # "up" /\ pc' = "buttons" /\ wifi_states' = "MQTT_RUNNING"
  /\ UNCHANGED << taskVars, sockCb, mqtt, storeVars, hifq, winc >>

SubscribeReturns ==
  /\ pc = "subscribe"
  /\ pc' = "buttons"
  /\ wifi_states' = "MQTT_RUNNING"
  /\ UNCHANGED << taskVars, sockCb, mqtt, storeVars, hifq, winc >>

\* WIFI_TASK_MQTT_RUNNING: cloud_mqtt_yield reads, keeps the connection alive
\* and, when it was lost, may try to connect again.
TaskYield ==
  /\ pc = "task" /\ wifi_states = "MQTT_RUNNING"
  /\ \/ mqtt = "none" /\ pc' = "buttons" /\ UNCHANGED sockCb
     \/ mqtt # "none" /\ pc' = "yield" /\ UNCHANGED sockCb
     \/ mqtt = "lost" /\ pc' = "yield" /\ sockCb' = "tls"
  /\ UNCHANGED << wifi_states, taskVars, mqtt, storeVars, hifq, winc >>

YieldReturns ==
  /\ pc = "yield"
  /\ pc' = "buttons"
  /\ \/ mqtt' = "lost"
     \/ mqtt' = "up" /\ (mqtt = "up" \/ winc.sta = "joined")
  /\ UNCHANGED << wifi_states, taskVars, sockCb, storeVars, hifq, winc >>

----------------------------------------------------------------------------
(* buttonTaskExecute: button SW3 held for five seconds, or not. *)

NoLongPress ==
  /\ pc = "buttons"
  /\ pc' = "usb"
  /\ UNCHANGED << wifi_states, taskVars, sockCb, mqtt, storeVars, hifq, winc >>

\* buttonSW3LongPressHandle; with a connection, cloud_disconnect waits first.
LongPress ==
  /\ pc = "buttons"
  /\ \/ /\ wifi_states \in {"MQTT_RUNNING", "MQTT_SUBSCRIBE"} /\ mqtt = "up"
        /\ pc' = "disconnect"
        /\ UNCHANGED << winc, wifi_states >>
     \/ /\ \/ wifi_states \in {"CONNECT_CLOUD", "SWITCHING_TO_STA", "IDLE"}
           \/ wifi_states \in {"MQTT_RUNNING", "MQTT_SUBSCRIBE"} /\ mqtt # "up"
        /\ winc' = Disconnect(winc)
        /\ wifi_states' = "SWITCH_TO_AP"
        /\ pc' = "usb"
  /\ UNCHANGED << taskVars, sockCb, mqtt, storeVars, hifq >>

\* The DISCONNECT packet was sent, or could not be sent and the client still
\* believes it is connected.
DisconnectReturns ==
  /\ pc = "disconnect"
  /\ pc' = "usb"
  /\ mqtt' \in {"none", "up"}
  /\ winc' = Disconnect(winc)
  /\ wifi_states' = "SWITCH_TO_AP"
  /\ UNCHANGED << taskVars, sockCb, storeVars, hifq >>

----------------------------------------------------------------------------
(* The controller, the phone and the power supply. *)

Raise(k) ==
  /\ Len(hifq) < MaxEvents
  /\ Raises(winc, k, winc')
  /\ hifq' = Append(hifq, [kind |-> k, offer |-> NoCred])

PhoneSends ==
  /\ Len(hifq) < MaxEvents
  /\ ClientSends(winc, winc')
  /\ \E k \in Commands, c \in Offers :
       hifq' = Append(hifq, [kind |-> k, offer |-> IF k = "CONFIG" THEN c ELSE NoCred])

Radio ==
  /\ \/ JoinSucceeds(winc, winc') \/ JoinFails(winc, winc')
     \/ LinkLost(winc, winc')     \/ LeaseRenewed(winc, winc')
     \/ ClientJoins(winc, winc')  \/ ClientLeaves(winc, winc')
     \/ ClientOpensTcp(winc, winc')
  /\ UNCHANGED hifq

boardVars == << pc, wifi_states, taskVars, sockCb, mqtt, storeVars >>

ControllerRaises(k) == Raise(k) /\ UNCHANGED boardVars

Environment ==
  \/ \E k \in Notice : ControllerRaises(k)
  \/ (PhoneSends \/ Radio) /\ UNCHANGED boardVars

\* Power lost and restored: slot 8 and the flash survive, wifiInit puts the
\* defaults in memory and the controller is reset by m2m_wifi_init.
PowerCycle ==
  /\ "power" \in Faults
  /\ pc' = "usb" /\ wifi_states' = "SWITCHING_TO_STA" /\ gu8WiFiMode' = "STA"
  /\ gAPEnabled' = FALSE /\ gbConnectedWifi' = FALSE /\ receivedTime' = FALSE
  /\ prov_state' = "PROV_WAITING" /\ sockCb' = "none" /\ mqtt' = "none"
  /\ cred' = Default /\ hifq' = << >> /\ winc' = WincReset
  /\ UNCHANGED << ecc, nvm >>

\* The steps the loop takes by itself.
Turn ==
  \/ ZeroTouch \/ PollDone
  \/ TaskSwitchToAp \/ TaskNothing \/ TaskSwitchingToSta
  \/ TaskConnectCloud \/ TaskSubscribe \/ TaskYield
  \/ NoLongPress \/ LongPress

\* The ends of blocking operations, which depend on the network.
Returns ==
  ConnectReturns \/ SubscribeReturns \/ YieldReturns \/ DisconnectReturns

Next == Turn \/ Dispatch \/ Returns \/ Environment \/ PowerCycle

Spec == Init /\ [][Next]_vars

\* The loop never pauses, events are handled while a blocking operation waits,
\* and the controller raises every notice it owes (again and again enabled,
\* because the queue drains).  Nothing says that a blocking operation ends,
\* that a join succeeds or that anyone presses a button.
Fairness ==
  /\ WF_vars(Turn)
  /\ WF_vars(Dispatch)
  /\ \A k \in Notice : SF_vars(ControllerRaises(k))

FairSpec == Spec /\ Fairness

----------------------------------------------------------------------------
(* Properties. *)

\* Every variable has its type, and an event carries an offer only when the
\* phone sent one.
TypeOK ==
  /\ pc \in {"usb", "poll", "task", "buttons", "halted"} \cup Waiting
  /\ wifi_states \in WifiStates
  /\ gu8WiFiMode \in {"STA", "AP"}
  /\ gAPEnabled \in BOOLEAN
  /\ gbConnectedWifi \in BOOLEAN
  /\ receivedTime \in BOOLEAN
  /\ prov_state \in ProvStates
  /\ sockCb \in {"none", "ap", "tls"}
  /\ mqtt \in {"none", "up", "lost"}
  /\ cred \in Creds
  /\ ecc \in [ssid : Ssids, key : Keys]
  /\ nvm \in Creds
  /\ hifq \in Seq(Event)
  /\ winc \in WincState

\* The radio has one role at a time, the host's flag says which, and the soft
\* AP is on the air only while the task believes it is in AP mode, whatever
\* callbacks ran between the request to leave a role and its completion.
OneRole ==
  /\ winc.ap => gu8WiFiMode = "AP" /\ winc.sta = "idle"
  /\ gAPEnabled = winc.ap

\* The unauthenticated provisioning server never outlives AP mode, even when
\* its socket is opened, bound or accepted on after the role was given up.
ServerOnlyInApMode == winc.srv # "closed" => gu8WiFiMode = "AP"

\* A station that is off the air has a reason to try again: the controller
\* still owes it a DISCONNECTED, or the event is waiting to be dispatched.
\* The code has no timer, so without one it would stay off the air for good.
Pending(k) == k \in winc.due \/ \E i \in 1..Len(hifq) : hifq[i].kind = k
NoLostReconnect ==
  /\ "connect" \notin Faults
  /\ gu8WiFiMode = "STA" /\ winc.sta = "idle"
  /\ wifi_states # "SWITCHING_TO_STA"
  => Pending("DISCONNECTED")

\* The flash holds no network, or one that passed the check of CONFIG, although
\* CONFIG overwrites the record in memory before checking it and the flash is
\* written later, at a frame that need not follow it.
StoredCredentialsValid ==
  nvm.ssid # "" => ((nvm.auth = "OPEN") <=> (nvm.key = ""))

\* The states of one role are not reached in the other: nothing in
\* wifiTaskExecute leads out of them.
StateFitsMode ==
  gu8WiFiMode = "STA" =>
    wifi_states \notin {"SWITCHING_TO_AP", "AP_CONNECTED", "STA_DISCONNECTED"}

\* When a provisioning is committed to flash, slot 8 holds the same network
\* and pass phrase: the two stores are written at different frames, and the
\* board may have read its settings back in between.  (A USB host, or an access
\* to slot 8 that fails, can part them.)
SlotReliable == UsbOffers = {} /\ Faults \cap {"ecc_read", "ecc_write"} = {}
StoresAgree == [][ SlotReliable /\ nvm' # nvm => Slot8(nvm') = ecc' ]_vars

\* A station that lost its association asks for a new one, whatever blocking
\* operation of the MQTT client the loss fell into, unless the user takes the
\* board to AP mode first.
StationComesBack ==
  (gu8WiFiMode = "STA" /\ winc.sta = "idle")
    ~> (gu8WiFiMode = "AP" \/ winc.sta # "idle")

\* What parse_cmd_frame says it does ("Switch to STA mode after NVM store"):
\* once the credentials are stored and the soft AP is off, the board becomes a
\* station, unless the user asks for AP mode again.
CommitLeadsToStation ==
  (gu8WiFiMode = "AP" /\ wifi_states = "SWITCHING_TO_STA")
    ~> (gu8WiFiMode = "STA" \/ wifi_states = "SWITCH_TO_AP")
=============================================================================
