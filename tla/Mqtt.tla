-------------------------------- MODULE Mqtt --------------------------------
(***************************************************************************)
(* The MQTT client (MQTTClient.c) as the Wi-Fi task drives it through      *)
(* cloud_wrapper.c, over one broker and a link that may fail.              *)
(*                                                                         *)
(* The client has one thread: every call blocks in waitfor or in the yield *)
(* loop, and pc says where.  wifi_cb may run in any wait and set the task  *)
(* back to CONNECT_CLOUD.  Packets travel in order; the port may hold      *)
(* packets of one receive event that were not read yet (rx), which survive *)
(* the end of their connection.                                            *)
(*                                                                         *)
(* Abstracted: payloads; QoS 0 publications of the board, which leave the  *)
(* client as it is; packet identifiers, which the client never compares;   *)
(* MQTTUnsubscribe, which the firmware does not call.                      *)
(***************************************************************************)
EXTENDS Naturals, SequencesExt

CONSTANTS
  AppTopics,    \* the topics the task subscribes to, in order
  MaxHandlers,  \* MAX_MESSAGE_HANDLERS
  MaxSockets,   \* TCP_SOCK_MAX
  MaxInFlight,  \* bound: packets on the way to the client
  MaxRefusals,  \* bound: attempts to connect that fail in a row
  FaultSets     \* the sets of faults to consider, see FaultAssumption

MinWait == 1   \* MIN_RECONNECT_WAIT_INTERVAL, in seconds
MaxWait == 8   \* MAX_RECONNECT_WAIT_INTERVAL

ASSUME BoundAssumption ==
  /\ MaxHandlers \in Nat /\ MaxSockets \in Nat \ {0}
  /\ MaxInFlight \in Nat /\ MaxRefusals \in Nat
  /\ AppTopics \in Seq(Range(AppTopics)) /\ IsInjective(AppTopics)
\* link: the connection may be lost; early: even before its CONNACK; dns,
\* refused: no address is found, or the server refuses; send: a send may fail;
\* slow: an answer may come too late; away: the user may put the board in AP
\* mode; again: the board may associate again under the client; offline: it
\* may lose the station connection before the client connects.
ASSUME FaultAssumption ==
  FaultSets \subseteq
    SUBSET {"link", "early", "dns", "refused", "send", "slow", "away", "again", "offline"}

VARIABLES
  pc,              \* where the thread is
  task,            \* wifi_states; "AWAY" stands for the states off the cloud
  caller,          \* who called MQTTConnect
  itr,             \* topic being subscribed or subscribed again
  isConnected, isAutoReconnectEnabled, wasManuallyDisconnected,
  isPingOutstanding,
  pingTimer, reconnectDelayTimer,
  interval,        \* currentReconnectWaitInterval
  messageHandlers, \* the topics of the table
  sockets, mine,   \* sockets the driver holds; whether my_socket is one
  refusals,        \* failed attempts to connect since the last success
  peer,            \* the other end of the connection
  toBroker, toClient, rx,
  subs,            \* what the broker has subscribed in this session
  faults           \* what may go wrong in this behaviour; never changes

flags    == << isConnected, isAutoReconnectEnabled, wasManuallyDisconnected,
               isPingOutstanding, pingTimer >>
retry    == << reconnectDelayTimer, interval >>
socks    == << sockets, mine, refusals >>
network  == << peer, toBroker, toClient, subs >>
vars == << pc, task, caller, itr, flags, retry, messageHandlers, socks,
           network, rx, faults >>

Topics == Range(AppTopics)
Packet == [type : {"CONNECT", "SUBSCRIBE", "PINGREQ", "CONNACK", "SUBACK",
                   "PINGRESP", "PUBLISH"}, topic : Topics \cup {"none"}]
Pkt(t) == [type |-> t, topic |-> "none"]
Pcs == {"app", "tls", "connack", "subscribe", "suback", "resub", "resuback",
        "loop", "keepalive"}
Waits == {"connack", "suback", "resuback"}

Init ==
  /\ pc = "app" /\ task = "CONNECT_CLOUD" /\ caller = "cloud" /\ itr = 1
  /\ isConnected = FALSE /\ isAutoReconnectEnabled = FALSE
  /\ wasManuallyDisconnected = FALSE /\ isPingOutstanding = FALSE
  /\ pingTimer = "unset" /\ reconnectDelayTimer = "unset" /\ interval = 0
  /\ messageHandlers = << >>
  /\ sockets = 0 /\ mine = FALSE /\ refusals = 0
  /\ peer = "none" /\ toBroker = << >> /\ toClient = << >> /\ rx = << >>
  /\ subs = {}
  /\ faults \in FaultSets

----------------------------------------------------------------------------
(* Sending and receiving. *)

\* sendPacket: a packet sent to a peer that is gone is lost without an error.
Sends(p) ==
  /\ toBroker' = IF peer = "up" THEN Append(toBroker, p) ELSE toBroker
  /\ UNCHANGED << peer, toClient, subs >>

SendFails == "send" \in faults \/ peer # "up"

\* readPacket: the packets of an earlier event first, else a new event, which
\* holds one packet or several.
Receives(p) ==
  \/ /\ rx # << >> /\ p = Head(rx)
     /\ rx' = Tail(rx) /\ UNCHANGED network
  \/ /\ rx = << >> /\ toClient # << >> /\ p = Head(toClient)
     /\ \E k \in 1 .. Len(toClient) :
          /\ rx' = SubSeq(toClient, 2, k)
          /\ toClient' = SubSeq(toClient, k + 1, Len(toClient))
     /\ UNCHANGED << peer, toBroker, subs >>

NothingToRead ==
  /\ rx = << >>
  /\ toClient = << >> \/ "slow" \in faults
  /\ UNCHANGED << rx, network >>

\* What cycle does with a packet; its failure is not of interest to waitfor.
Handles(p) ==
  /\ isPingOutstanding' = (isPingOutstanding /\ p.type # "PINGRESP")
  /\ pingTimer' = IF p.type = "PINGRESP" THEN "running" ELSE pingTimer
  /\ UNCHANGED << isConnected, isAutoReconnectEnabled, wasManuallyDisconnected >>

\* deliverMessage finds no handler.
Unclaimed(p) == p.type = "PUBLISH" /\ p.topic \notin Range(messageHandlers)

\* iot_tls_disconnect and iot_tls_destroy.
ClosesSocket ==
  /\ sockets' = IF mine THEN sockets - 1 ELSE sockets
  /\ mine' = FALSE
  /\ peer' = "none" /\ toBroker' = << >> /\ toClient' = << >> /\ subs' = {}
  /\ UNCHANGED refusals

----------------------------------------------------------------------------
(* Connecting. *)

\* Mutant: the table of handlers survives.
Reset_TableKept ==
  /\ UNCHANGED messageHandlers
  /\ isConnected' = FALSE /\ isAutoReconnectEnabled' = FALSE
  /\ wasManuallyDisconnected' = FALSE /\ isPingOutstanding' = FALSE
  /\ pingTimer' = "unset" /\ reconnectDelayTimer' = "unset"

\* MQTTClient: the structure is made anew, whatever it held.
Reset ==
  /\ messageHandlers' = << >>
  /\ isConnected' = FALSE /\ isAutoReconnectEnabled' = FALSE
  /\ wasManuallyDisconnected' = FALSE /\ isPingOutstanding' = FALSE
  /\ pingTimer' = "unset" /\ reconnectDelayTimer' = "unset"

\* Without a station connection cloud_connect does nothing, and returns no
\* error.
CloudOffline ==
  /\ "offline" \in faults /\ peer # "up"
  /\ pc = "app" /\ task = "CONNECT_CLOUD" /\ task' = "MQTT_SUBSCRIBE"
  /\ UNCHANGED << pc, caller, itr, flags, retry, messageHandlers, socks, network, rx >>

\* cloud_connect, aws_iot_mqtt_connect.
CloudConnect ==
  /\ pc = "app" /\ task = "CONNECT_CLOUD"
  /\ Reset
  /\ pc' = "tls" /\ caller' = "cloud"
  /\ UNCHANGED << task, itr, interval, socks, network, rx >>

\* The end of handleReconnect after an attempt that did not succeed.
BackOff ==
  /\ interval' = 2 * interval
  /\ reconnectDelayTimer' = IF interval' > MaxWait THEN reconnectDelayTimer ELSE "running"

\* MQTTConnect returns an error to cloud_connect, which leaves the task where
\* it is, or to handleReconnect.
ConnectFails ==
  \/ caller = "cloud" /\ pc' = "app" /\ UNCHANGED retry
  \/ caller = "yield" /\ pc' = "loop" /\ BackOff

\* iot_tls_init forgets the old socket; iot_tls_connect then finds no address
\* or no free socket ...
NoSocket ==
  /\ sockets = MaxSockets \/ ("dns" \in faults /\ refusals < MaxRefusals)
  /\ mine' = FALSE /\ UNCHANGED sockets
  /\ refusals' = IF refusals < MaxRefusals THEN refusals + 1 ELSE refusals
  /\ peer' = "none" /\ toBroker' = << >> /\ toClient' = << >> /\ subs' = {}
  /\ ConnectFails

\* ... or the server cannot be reached, and the new socket is not closed ...
Refused ==
  /\ "refused" \in faults /\ sockets < MaxSockets /\ refusals < MaxRefusals
  /\ mine' = FALSE /\ sockets' = sockets + 1
  /\ refusals' = refusals + 1
  /\ peer' = "none" /\ toBroker' = << >> /\ toClient' = << >> /\ subs' = {}
  /\ ConnectFails

\* Mutant: the connection is made with no socket left.
TlsUp_NoLimit ==
  /\ mine' = TRUE /\ sockets' = sockets + 1 /\ UNCHANGED refusals
  /\ peer' = "up" /\ toClient' = << >> /\ subs' = {}
  /\ \/ toBroker' = << Pkt("CONNECT") >> /\ pc' = "connack" /\ UNCHANGED retry
     \/ "send" \in faults /\ toBroker' = << >> /\ ConnectFails

\* ... or the connection stands, and CONNECT is sent.
TlsUp ==
  /\ sockets < MaxSockets
  /\ mine' = TRUE /\ sockets' = sockets + 1 /\ UNCHANGED refusals
  /\ peer' = "up" /\ toClient' = << >> /\ subs' = {}
  /\ \/ toBroker' = << Pkt("CONNECT") >> /\ pc' = "connack" /\ UNCHANGED retry
     \/ "send" \in faults /\ toBroker' = << >> /\ ConnectFails

TlsConnect ==
  /\ pc = "tls"
  /\ NoSocket \/ Refused \/ TlsUp
  /\ UNCHANGED << task, caller, itr, flags, messageHandlers, rx >>

\* Mutant: a ping of the old connection stays outstanding.
Connected_PingKept ==
  /\ isConnected' = TRUE /\ wasManuallyDisconnected' = FALSE
  /\ UNCHANGED isPingOutstanding /\ pingTimer' = "running"

Connected ==
  /\ isConnected' = TRUE /\ wasManuallyDisconnected' = FALSE
  /\ isPingOutstanding' = FALSE /\ pingTimer' = "running"

\* waitfor(CONNACK), the end of MQTTConnect and what its caller does next:
\* cloud_connect enables reconnection and the task goes on to subscribe,
\* MQTTAttemptReconnect subscribes again.
Connack ==
  /\ pc = "connack"
  /\ \E p \in Packet :
       /\ Receives(p)
       /\ \/ /\ p.type = "CONNACK" /\ Connected
             /\ refusals' = 0
             /\ \/ /\ caller = "cloud" /\ isAutoReconnectEnabled' = TRUE
                   /\ pc' = "app" /\ task' = "MQTT_SUBSCRIBE" /\ UNCHANGED itr
                \/ /\ caller = "yield" /\ UNCHANGED << isAutoReconnectEnabled, task >>
                   /\ pc' = "resub" /\ itr' = 1
          \/ /\ p.type # "CONNACK" /\ Handles(p)
             /\ UNCHANGED << pc, task, itr, refusals >>
  /\ UNCHANGED << caller, retry, messageHandlers, sockets, mine >>

\* The command timer ends a wait: the peer is gone or too slow.
TimesOut == peer # "up" \/ "slow" \in faults

\* The socket of the attempt stays open.
ConnackTimesOut ==
  /\ pc = "connack" /\ rx = << >> /\ TimesOut
  /\ ConnectFails
  /\ UNCHANGED << task, caller, itr, flags, messageHandlers, socks, network, rx >>

----------------------------------------------------------------------------
(* Subscribing. *)

BeginSubscribe ==
  /\ pc = "app" /\ task = "MQTT_SUBSCRIBE"
  /\ pc' = "subscribe" /\ itr' = 1
  /\ UNCHANGED << task, caller, flags, retry, messageHandlers, socks, network, rx >>

\* The task does not look at what the calls return.
NextTopic == pc' = "subscribe" /\ itr' = itr + 1

\* MQTTSubscribe up to the wait.
Subscribe ==
  /\ pc = "subscribe" /\ itr <= Len(AppTopics)
  /\ \/ /\ isConnected /\ Len(messageHandlers) < MaxHandlers
        /\ Sends([type |-> "SUBSCRIBE", topic |-> AppTopics[itr]])
        /\ pc' = "suback" /\ UNCHANGED itr
     \/ /\ ~isConnected \/ Len(messageHandlers) >= MaxHandlers \/ SendFails
        /\ NextTopic /\ UNCHANGED network
  /\ UNCHANGED << task, caller, flags, retry, messageHandlers, socks, rx >>

\* waitfor(SUBACK) and the end of MQTTSubscribe: any SUBACK will do.
Suback ==
  /\ pc = "suback"
  /\ \E p \in Packet :
       /\ Receives(p) /\ Handles(p)
       /\ \/ /\ p.type = "SUBACK" /\ NextTopic
             /\ messageHandlers' = Append(messageHandlers, AppTopics[itr])
          \/ p.type # "SUBACK" /\ UNCHANGED << pc, itr, messageHandlers >>
  /\ UNCHANGED << task, caller, retry, socks >>

SubackTimesOut ==
  /\ pc = "suback" /\ rx = << >> /\ TimesOut
  /\ NextTopic
  /\ UNCHANGED << task, caller, flags, retry, messageHandlers, socks, network, rx >>

\* The task publishes and runs, whatever it was set to meanwhile.
EndSubscribe ==
  /\ pc = "subscribe" /\ itr > Len(AppTopics)
  /\ pc' = "app" /\ task' = "MQTT_RUNNING"
  /\ UNCHANGED << caller, itr, flags, retry, messageHandlers, socks, network, rx >>

\* MQTTResubscribe fails: handleReconnect backs off, but the client counts as
\* connected.
ResubscribeFails == pc' = "loop" /\ BackOff /\ UNCHANGED itr

\* Mutant: the last topic of the table is left out.
Resubscribe_LastLeftOut ==
  /\ pc = "resub"
  /\ \/ /\ itr >= Len(messageHandlers) /\ pc' = "loop"
        /\ UNCHANGED << itr, retry, network >>
     \/ /\ itr < Len(messageHandlers)
        /\ Sends([type |-> "SUBSCRIBE", topic |-> messageHandlers[itr]])
        /\ pc' = "resuback" /\ UNCHANGED << itr, retry >>
     \/ /\ itr < Len(messageHandlers) /\ SendFails
        /\ ResubscribeFails /\ UNCHANGED network
  /\ UNCHANGED << task, caller, flags, messageHandlers, socks, rx >>

\* MQTTResubscribe up to a wait, or its end.
Resubscribe ==
  /\ pc = "resub"
  /\ \/ /\ itr > Len(messageHandlers) /\ pc' = "loop"
        /\ UNCHANGED << itr, retry, network >>
     \/ /\ itr <= Len(messageHandlers)
        /\ Sends([type |-> "SUBSCRIBE", topic |-> messageHandlers[itr]])
        /\ pc' = "resuback" /\ UNCHANGED << itr, retry >>
     \/ /\ itr <= Len(messageHandlers) /\ SendFails
        /\ ResubscribeFails /\ UNCHANGED network
  /\ UNCHANGED << task, caller, flags, messageHandlers, socks, rx >>

Resuback ==
  /\ pc = "resuback"
  /\ \E p \in Packet :
       /\ Receives(p) /\ Handles(p)
       /\ \/ p.type = "SUBACK" /\ pc' = "resub" /\ itr' = itr + 1
          \/ p.type # "SUBACK" /\ UNCHANGED << pc, itr >>
  /\ UNCHANGED << task, caller, retry, messageHandlers, socks >>

\* Mutant: a topic whose SUBACK does not come is passed over.
ResubackTimesOut_PassedOver ==
  /\ pc = "resuback" /\ rx = << >> /\ TimesOut
  /\ pc' = "resub" /\ itr' = itr + 1
  /\ UNCHANGED << task, caller, flags, retry, messageHandlers, socks, network, rx >>

ResubackTimesOut ==
  /\ pc = "resuback" /\ rx = << >> /\ TimesOut
  /\ ResubscribeFails
  /\ UNCHANGED << task, caller, flags, messageHandlers, socks, network, rx >>

----------------------------------------------------------------------------
(* MQTTYield. *)

\* Yield refuses a client that was disconnected by hand or may not reconnect.
MayYield == isConnected \/ (~wasManuallyDisconnected /\ isAutoReconnectEnabled)

BeginYield ==
  /\ pc = "app" /\ task = "MQTT_RUNNING"
  /\ pc' = IF MayYield THEN "loop" ELSE "app"
  /\ UNCHANGED << task, caller, itr, flags, retry, messageHandlers, socks, network, rx >>

\* A turn of the loop: cycle, unless the client is disconnected.
Cycle ==
  /\ pc = "loop" /\ isConnected
  /\ \/ \E p \in Packet :
          /\ Receives(p) /\ Handles(p)
          /\ pc' = IF Unclaimed(p) THEN "app" ELSE "keepalive"
     \/ NothingToRead /\ pc' = "keepalive" /\ UNCHANGED flags
  /\ UNCHANGED << task, caller, itr, retry, messageHandlers, socks >>

\* Mutant: the flag survives when DISCONNECT could not be sent.
Disconnected_FlagKept ==
  \/ /\ isConnected' = FALSE /\ ClosesSocket
  \/ /\ SendFails /\ UNCHANGED isConnected /\ ClosesSocket

\* MQTTDisconnect, or MQTTForceDisconnect when it cannot send: either way the
\* socket is closed.
Disconnected ==
  \/ /\ isConnected' = FALSE /\ ClosesSocket
  \/ /\ SendFails /\ isConnected' = FALSE /\ ClosesSocket

\* Mutant: the back-off starts at its end.
HandleDisconnect_AtMax ==
  /\ Disconnected
  /\ wasManuallyDisconnected' = FALSE
  /\ interval' = MaxWait /\ reconnectDelayTimer' = "running"
  /\ UNCHANGED << isAutoReconnectEnabled, isPingOutstanding, pingTimer >>

\* handleDisconnect, and what MQTTYield does of its result: reconnection is
\* enabled whenever the client is connected.
HandleDisconnect ==
  /\ Disconnected
  /\ wasManuallyDisconnected' = FALSE
  /\ interval' = MinWait /\ reconnectDelayTimer' = "running"
  /\ UNCHANGED << isAutoReconnectEnabled, isPingOutstanding, pingTimer >>

SendsPing ==
  /\ Sends(Pkt("PINGREQ"))
  /\ isPingOutstanding' = TRUE /\ pingTimer' = "running"
  /\ UNCHANGED << isConnected, isAutoReconnectEnabled, wasManuallyDisconnected,
                  retry, socks >>

\* Mutant: an unanswered ping is sent again.
Keepalive_SendsAgain ==
  /\ pc = "keepalive" /\ pc' \in {"loop", "app"}
  /\ \/ pingTimer # "expired" /\ UNCHANGED << flags, retry, socks, network >>
     \/ pingTimer = "expired" /\ SendsPing
  /\ UNCHANGED << task, caller, itr, messageHandlers, rx >>

\* keepalive; then the yield timer is looked at.
Keepalive ==
  /\ pc = "keepalive" /\ pc' \in {"loop", "app"}
  /\ \/ pingTimer # "expired" /\ UNCHANGED << flags, retry, socks, network >>
     \/ pingTimer = "expired" /\ ~isPingOutstanding /\ SendsPing
     \/ /\ pingTimer = "expired" /\ (isPingOutstanding \/ SendFails)
        /\ HandleDisconnect
  /\ UNCHANGED << task, caller, itr, messageHandlers, rx >>

\* A turn of a client that is disconnected: it has given up, waits or tries.
Reconnect ==
  /\ pc = "loop" /\ ~isConnected
  /\ \/ interval > MaxWait /\ pc' = "app" /\ UNCHANGED caller
     \/ interval <= MaxWait /\ reconnectDelayTimer # "expired" /\ pc' = "app" /\ UNCHANGED caller
     \/ interval <= MaxWait /\ reconnectDelayTimer = "expired" /\ pc' = "tls" /\ caller' = "yield"
  /\ UNCHANGED << task, itr, flags, retry, messageHandlers, socks, network, rx >>

----------------------------------------------------------------------------
(* The rest of the task, and the environment. *)

\* buttonSW3LongPressHandle: cloud_disconnect when it is on the cloud.  A
\* DISCONNECT that cannot be sent leaves the client connected.
LongPress ==
  /\ "away" \in faults
  /\ pc = "app" /\ task # "AWAY"
  /\ task' = "AWAY"
  /\ \/ /\ task # "CONNECT_CLOUD" /\ isConnected
        /\ isConnected' = FALSE /\ wasManuallyDisconnected' = TRUE /\ ClosesSocket
     \/ /\ task = "CONNECT_CLOUD" \/ ~isConnected \/ SendFails
        /\ UNCHANGED << isConnected, wasManuallyDisconnected, socks, network >>
  /\ UNCHANGED << pc, caller, itr, isAutoReconnectEnabled, isPingOutstanding,
                  pingTimer, retry, messageHandlers, rx, faults >>

\* wifi_cb, GET_SYS_TIME: in any wait, or while the task is idle.
SysTime ==
  /\ task = "AWAY" \/ "again" \in faults
  /\ pc \in Waits \cup {"app", "tls", "loop"}
  /\ task' = "CONNECT_CLOUD"
  /\ UNCHANGED << pc, caller, itr, flags, retry, messageHandlers, socks, network, rx, faults >>

LinkLost ==
  /\ peer = "up" /\ "link" \in faults
  /\ isConnected \/ ("early" \in faults /\ refusals < MaxRefusals)
  /\ refusals' = IF isConnected THEN refusals ELSE refusals + 1
  /\ peer' = "gone" /\ toBroker' = << >> /\ toClient' = << >>
  /\ UNCHANGED << pc, task, caller, itr, flags, retry, messageHandlers, sockets, mine, subs, rx, faults >>

Answer(p) ==
  CASE p.type = "CONNECT"   -> Pkt("CONNACK")
    [] p.type = "PINGREQ"   -> Pkt("PINGRESP")
    [] p.type = "SUBSCRIBE" -> [type |-> "SUBACK", topic |-> p.topic]

BrokerHandles ==
  /\ peer = "up" /\ toBroker # << >>
  /\ toBroker' = Tail(toBroker)
  /\ toClient' = Append(toClient, Answer(Head(toBroker)))
  /\ subs' = IF Head(toBroker).type = "SUBSCRIBE" THEN subs \cup {Head(toBroker).topic} ELSE subs
  /\ UNCHANGED << pc, task, caller, itr, flags, retry, messageHandlers, socks, peer, rx, faults >>

BrokerPublishes(t) ==
  /\ peer = "up" /\ t \in subs /\ Len(toClient) < MaxInFlight
  /\ toClient' = Append(toClient, [type |-> "PUBLISH", topic |-> t])
  /\ UNCHANGED << pc, task, caller, itr, flags, retry, messageHandlers, socks, peer,
                  toBroker, subs, rx, faults >>

PingTimerExpires ==
  /\ pingTimer = "running" /\ pingTimer' = "expired"
  /\ UNCHANGED << pc, task, caller, itr, isConnected, isAutoReconnectEnabled,
                  wasManuallyDisconnected, isPingOutstanding, retry,
                  messageHandlers, socks, network, rx, faults >>

ReconnectTimerExpires ==
  /\ reconnectDelayTimer = "running" /\ reconnectDelayTimer' = "expired"
  /\ UNCHANGED << pc, task, caller, itr, flags, interval, messageHandlers, socks, network, rx, faults >>

Client ==
  /\ UNCHANGED faults
  /\ \/ CloudOffline \/ CloudConnect \/ TlsConnect \/ Connack \/ ConnackTimesOut
     \/ BeginSubscribe \/ Subscribe \/ Suback \/ SubackTimesOut \/ EndSubscribe
     \/ Resubscribe \/ Resuback \/ ResubackTimesOut
     \/ BeginYield \/ Cycle \/ Keepalive \/ Reconnect

Next ==
  \/ Client
  \/ LongPress \/ SysTime \/ LinkLost
  \/ BrokerHandles \/ \E t \in Topics : BrokerPublishes(t)
  \/ PingTimerExpires \/ ReconnectTimerExpires

Spec == Init /\ [][Next]_vars

\* The loop runs, time passes, and the broker answers.
FairSpec ==
  Spec /\ WF_vars(Client) /\ WF_vars(PingTimerExpires)
       /\ WF_vars(ReconnectTimerExpires) /\ WF_vars(BrokerHandles)

----------------------------------------------------------------------------
(* Properties. *)

TypeOK ==
  /\ pc \in Pcs /\ caller \in {"cloud", "yield"}
  /\ task \in {"CONNECT_CLOUD", "MQTT_SUBSCRIBE", "MQTT_RUNNING", "AWAY"}
  /\ itr \in Nat
  /\ isConnected \in BOOLEAN /\ isAutoReconnectEnabled \in BOOLEAN
  /\ wasManuallyDisconnected \in BOOLEAN /\ isPingOutstanding \in BOOLEAN
  /\ pingTimer \in {"unset", "running", "expired"}
  /\ reconnectDelayTimer \in {"unset", "running", "expired"}
  /\ interval \in Nat
  /\ messageHandlers \in Seq(Topics)
  /\ sockets \in 0 .. MaxSockets /\ mine \in BOOLEAN
  /\ refusals \in 0 .. MaxRefusals
  /\ peer \in {"none", "up", "gone"}
  /\ toBroker \in Seq(Packet) /\ toClient \in Seq(Packet) /\ rx \in Seq(Packet)
  /\ subs \subseteq Topics /\ faults \in FaultSets

\* A client that counts as connected has a socket, and may reconnect should it
\* lose it: otherwise nobody would.
ConnectedMayReconnect ==
  isConnected => mine /\ sockets > 0 /\ isAutoReconnectEnabled

\* No packet of s is of one of the types; exactly one is.
None(types, s) == \A i \in DOMAIN s : s[i].type \notin types
One(types, s) ==
  \E i \in DOMAIN s :
    s[i].type \in types /\ \A j \in DOMAIN s : s[j].type \in types => j = i

\* None, or exactly one, of the packets on the way to the client is.
NoneComing(types) == None(types, toClient) /\ None(types, rx)
OneComing(types) ==
  \/ One(types, toClient)  /\ None(types, rx)
  \/ None(types, toClient) /\ One(types, rx)

\* A ping counts as outstanding exactly while it or its answer is on the way:
\* the client neither drops a connection over a ping it has not sent nor misses
\* one that is lost, even with packets of an older connection in the buffer.
PingAccounted ==
  isConnected /\ peer = "up" =>
    IF isPingOutstanding
    THEN \/ One({"PINGREQ"}, toBroker)  /\ NoneComing({"PINGRESP"})
         \/ None({"PINGREQ"}, toBroker) /\ OneComing({"PINGRESP"})
    ELSE None({"PINGREQ"}, toBroker) /\ NoneComing({"PINGRESP"})

\* The three faults that together enter a topic twice: a late SUBACK stays in the
\* buffer, the task returns to CONNECT_CLOUD, and cloud_connect finds no station
\* connection and leaves the table as it is.
Orderly ==
  ~({"slow", "offline"} \subseteq faults /\ faults \cap {"away", "again"} # {})

\* Unless these come together, the table keeps each topic once and never
\* overflows, over reconnections, role switches and re-associations, failing
\* sends and SUBACKs that answer another SUBSCRIBE (MQTTClient.c:594).
TableHasNoTwins ==
  Orderly => IsInjective(messageHandlers) /\ Len(messageHandlers) <= MaxHandlers

\* While it subscribes again, the topics MQTTResubscribe is done with are
\* subscribed at the broker: a reconnection reported as such is complete.
ResubscribedSoFar ==
  pc \in {"resub", "resuback"} /\ peer = "up" =>
    \A i \in 1 .. itr - 1 : i <= Len(messageHandlers) => messageHandlers[i] \in subs

\* Where no call fails and no answer comes too late, a client that is connected
\* hears of every topic in its table: each is subscribed at the broker, over lost
\* links, reconnections, re-associations and role switches.  Nothing would ever
\* subscribe one again that was not.
Unfailing == faults \cap {"send", "slow"} = {}
TableIsSubscribed ==
  Unfailing /\ isConnected /\ peer = "up" /\ pc \notin {"resub", "resuback"} =>
    Range(messageHandlers) \subseteq subs

\* socket.h:1473-1477, of a connection that is closed or aborted: "The
\* application code is expected to close the socket".
NoSocketAbandoned == sockets = IF mine THEN 1 ELSE 0

\* Liveness is asked of the behaviours in which calls do not fail for ever:
\* connections are lost and addresses not found, nothing more.
Fair == faults \subseteq {"link", "dns", "offline"}

\* A connection that is gone is noticed, without any error to tell of it.
DeadConnectionNoticed == Fair /\ isConnected /\ peer = "gone" ~> ~isConnected \/ peer = "up"

\* The client reconnects after every loss, if no more than MaxRefusals
\* attempts in a row fail.
Recovers == Fair /\ isConnected /\ peer = "gone" ~> isConnected /\ peer = "up"
=============================================================================
