---------------------------- MODULE Mqtt_proofs ----------------------------
(***************************************************************************)
(* Proofs about Mqtt for every sequence of topics, size of the table,      *)
(* number of sockets and set of faults.                                    *)
(***************************************************************************)
EXTENDS Mqtt, SequenceTheorems, TLAPS

----------------------------------------------------------------------------
(* The inductive invariant. *)

\* The broker is only sent requests, nothing is on the way without a peer.
Requests == {"CONNECT", "SUBSCRIBE", "PINGREQ"}
Network ==
  /\ \A i \in DOMAIN toBroker :
       /\ toBroker[i].type \in Requests
       /\ toBroker[i].type = "SUBSCRIBE" => toBroker[i].topic \in Topics
  /\ peer # "up" => toBroker = << >> /\ toClient = << >>

\* The topic being subscribed exists.
Position ==
  /\ pc \in {"subscribe", "suback", "resub", "resuback"} => itr # 0
  /\ pc = "suback" => itr <= Len(AppTopics)
  /\ pc = "resuback" => itr <= Len(messageHandlers)

\* A socket of one's own is open, and stays so until the client disconnects;
\* where the thread may come to reconnect, reconnection is enabled.
Connection ==
  /\ mine => sockets > 0
  /\ pc \in {"tls", "connack"} => ~isConnected
  /\ pc = "connack" => mine
  /\ pc \in {"suback", "resub", "resuback", "keepalive"} => isConnected
  /\ \/ pc \in {"loop", "keepalive", "resub", "resuback"}
     \/ pc \in {"tls", "connack"} /\ caller = "yield"
     => isAutoReconnectEnabled

\* CONNECT and CONNACK are alone on a new connection; neither is on the way on
\* one that is in use, nor left in the buffer.
Handshake ==
  /\ pc = "connack" /\ peer = "up" =>
       /\ subs = {}
       /\ \/ toBroker = << Pkt("CONNECT") >> /\ toClient = << >>
          \/ toBroker = << >> /\ toClient = << Pkt("CONNACK") >>
  /\ isConnected => None({"CONNECT"}, toBroker) /\ None({"CONNACK"}, toClient)
  /\ None({"CONNACK"}, rx)

\* A SUBACK that MQTTResubscribe finds is the one of the topic it waits for.
Subacks == {"SUBACK"}
Resubscription ==
  pc \in {"resub", "resuback"} /\ peer = "up" =>
    /\ pc = "resub" => toBroker = << >> /\ NoneComing(Subacks)
    /\ pc = "resuback" =>
         \/ /\ toBroker = << [type |-> "SUBSCRIBE", topic |-> messageHandlers[itr]] >>
            /\ NoneComing(Subacks)
         \/ /\ toBroker = << >> /\ messageHandlers[itr] \in subs
            /\ OneComing(Subacks)

IInv ==
  /\ TypeOK /\ Network /\ Position /\ Connection /\ ConnectedMayReconnect
  /\ Handshake /\ PingAccounted /\ Resubscription /\ ResubscribedSoFar

----------------------------------------------------------------------------
(* Sequences of packets. *)

\* Appending a packet of another type keeps what is said of the types, and
\* appending one of the types to none of them makes one.
LEMMA Appended ==
  ASSUME NEW types, NEW s \in Seq(Packet), NEW p \in Packet
  PROVE  /\ None(types, s) /\ p.type \notin types => None(types, Append(s, p))
         /\ One(types, s) /\ p.type \notin types => One(types, Append(s, p))
         /\ None(types, s) /\ p.type \in types => One(types, Append(s, p))
<1> DEFINE t == Append(s, p)
<1>1. /\ DOMAIN s = 1 .. Len(s) /\ DOMAIN t = 1 .. Len(s) + 1 /\ Len(s) \in Nat
      /\ \A i \in 1 .. Len(s) : t[i] = s[i]
      /\ t[Len(s) + 1] = p
  BY AppendProperties, LenProperties
<1> HIDE DEF t
<1>2. None(types, s) /\ p.type \notin types => None(types, t)
  BY <1>1 DEF None
<1>3. One(types, s) /\ p.type \notin types => One(types, t)
  <2>1. SUFFICES ASSUME p.type \notin types, NEW i \in DOMAIN s, s[i].type \in types,
                        \A j \in DOMAIN s : s[j].type \in types => j = i
                 PROVE  One(types, t)
    BY DEF One
  <2>2. i \in DOMAIN t /\ t[i].type \in types
    BY <1>1, <2>1
  <2>3. \A j \in DOMAIN t : t[j].type \in types => j = i
    BY <1>1, <2>1
  <2> QED
    BY <2>2, <2>3 DEF One
<1>4. None(types, s) /\ p.type \in types => One(types, t)
  <2>1. SUFFICES ASSUME p.type \in types, None(types, s)
                 PROVE  One(types, t)
    OBVIOUS
  <2>2. Len(s) + 1 \in DOMAIN t /\ t[Len(s) + 1].type \in types
    BY <1>1, <2>1
  <2>3. \A j \in DOMAIN t : t[j].type \in types => j = Len(s) + 1
    BY <1>1, <2>1 DEF None
  <2> QED
    BY <2>2, <2>3 DEF One
<1> QED
  BY <1>2, <1>3, <1>4 DEF t

\* A part of a sequence of packets: its length and its packets.
LEMMA Part ==
  ASSUME NEW s \in Seq(Packet), NEW m \in Nat \ {0}, NEW n \in 0 .. Len(s)
  PROVE  /\ SubSeq(s, m, n) \in Seq(Packet)
         /\ DOMAIN SubSeq(s, m, n) = 1 .. n - m + 1
         /\ \A i \in 1 .. n - m + 1 : m + i - 1 \in DOMAIN s /\ SubSeq(s, m, n)[i] = s[m + i - 1]
<1>1. Len(s) \in Nat /\ DOMAIN s = 1 .. Len(s) /\ \A i \in 1 .. Len(s) : s[i] \in Packet
  BY LenProperties, ElementOfSeq
<1>2. m \in Int /\ n \in Int /\ \A i \in m .. n : s[i] \in Packet
  BY <1>1
<1>3. /\ SubSeq(s, m, n) \in Seq(Packet)
      /\ Len(SubSeq(s, m, n)) = IF m <= n THEN n - m + 1 ELSE 0
      /\ \A i \in 1 .. n - m + 1 : SubSeq(s, m, n)[i] = s[m + i - 1]
  BY <1>2, SubSeqProperties
<1>4. DOMAIN SubSeq(s, m, n) = 1 .. Len(SubSeq(s, m, n))
  BY <1>3, LenProperties
<1>5. 1 .. Len(SubSeq(s, m, n)) = 1 .. n - m + 1
  BY <1>3
<1> QED
  BY <1>1, <1>3, <1>4, <1>5

\* The packets of s after the first.
LEMMA Rest ==
  ASSUME NEW s \in Seq(Packet), s # << >>
  PROVE  /\ Head(s) \in Packet /\ Head(s) = s[1] /\ 1 \in DOMAIN s
         /\ Tail(s) = SubSeq(s, 2, Len(s)) /\ Len(s) \in Nat \ {0}
  BY HeadTailProperties, TailIsSubSeq, EmptySeq, LenProperties

\* A sequence of packets but its first, cut after packet k.
LEMMA Cut ==
  ASSUME NEW types, NEW s \in Seq(Packet), s # << >>, NEW k \in 1 .. Len(s)
  PROVE  LET a == SubSeq(s, 2, k)
             b == SubSeq(s, k + 1, Len(s))
         IN /\ a \in Seq(Packet) /\ b \in Seq(Packet)
            /\ None(types, s) => Head(s).type \notin types /\ None(types, a) /\ None(types, b)
            /\ One(types, s) /\ Head(s).type \in types => None(types, a) /\ None(types, b)
            /\ One(types, s) /\ Head(s).type \notin types =>
                 \/ One(types, a) /\ None(types, b)
                 \/ None(types, a) /\ One(types, b)
<1> DEFINE n == Len(s)
           a == SubSeq(s, 2, k)
           b == SubSeq(s, k + 1, n)
<1>1. n \in Nat \ {0} /\ 1 \in DOMAIN s /\ Head(s) = s[1] /\ k \in 0 .. n /\ k \in Nat
  BY Rest
<1>2. DOMAIN s = 1 .. n
  BY LenProperties
<1>3. /\ a \in Seq(Packet) /\ DOMAIN a = 1 .. k - 1
      /\ \A i \in 1 .. k - 1 : i + 1 \in DOMAIN s /\ a[i] = s[i + 1]
  <2>1. /\ a \in Seq(Packet) /\ DOMAIN a = 1 .. k - 2 + 1
        /\ \A i \in 1 .. k - 2 + 1 : 2 + i - 1 \in DOMAIN s /\ a[i] = s[2 + i - 1]
    <3>1. 2 \in Nat \ {0}
      OBVIOUS
    <3> QED
      BY <1>1, <3>1, Part
  <2> HIDE DEF a
  <2>2. k - 2 + 1 = k - 1 /\ \A i \in 1 .. k - 1 : 2 + i - 1 = i + 1
    BY <1>1
  <2> QED
    BY <2>1, <2>2
<1>4. /\ b \in Seq(Packet) /\ DOMAIN b = 1 .. n - k
      /\ \A i \in 1 .. n - k : i + k \in DOMAIN s /\ b[i] = s[i + k]
  <2>1. /\ b \in Seq(Packet) /\ DOMAIN b = 1 .. n - (k + 1) + 1
        /\ \A i \in 1 .. n - (k + 1) + 1 : (k + 1) + i - 1 \in DOMAIN s /\ b[i] = s[(k + 1) + i - 1]
    <3>1. k + 1 \in Nat \ {0} /\ n \in 0 .. Len(s)
      BY <1>1
    <3> QED
      BY <3>1, Part
  <2> HIDE DEF b
  <2>2. n - (k + 1) + 1 = n - k /\ \A i \in 1 .. n - k : (k + 1) + i - 1 = i + k
    BY <1>1
  <2> QED
    BY <2>1, <2>2
<1> HIDE DEF n, a, b
<1>5. None(types, s) => Head(s).type \notin types /\ None(types, a) /\ None(types, b)
  BY <1>1, <1>2, <1>3, <1>4 DEF None
<1>6. ASSUME NEW i \in DOMAIN s, s[i].type \in types,
             \A j \in DOMAIN s : s[j].type \in types => j = i
      PROVE  /\ i = 1 => None(types, a) /\ None(types, b)
             /\ i # 1 => \/ One(types, a) /\ None(types, b)
                         \/ None(types, a) /\ One(types, b)
  <2>1. CASE i = 1
    <3>1. \A j \in 1 .. k - 1 : j + 1 # 1
      BY <1>1
    <3>2. \A j \in 1 .. n - k : j + k # 1
      BY <1>1
    <3>3. None(types, a)
      BY <1>3, <1>6, <2>1, <3>1 DEF None
    <3>4. None(types, b)
      BY <1>4, <1>6, <2>1, <3>2 DEF None
    <3> QED
      BY <2>1, <3>3, <3>4
  <2>2. CASE i # 1 /\ i <= k
    <3>1. i - 1 \in 1 .. k - 1 /\ (i - 1) + 1 = i
      BY <1>1, <1>2, <1>6, <2>2
    <3>2. i - 1 \in DOMAIN a /\ a[i - 1].type \in types
      BY <1>3, <1>6, <3>1
    <3>3. \A j \in DOMAIN a : a[j].type \in types => j = i - 1
      <4>1. \A j \in DOMAIN a : a[j].type \in types => j + 1 = i
        BY <1>3, <1>6
      <4>2. \A j \in 1 .. k - 1 : j + 1 = i => j = i - 1
        BY <1>1, <1>2, <1>6
      <4> QED
        BY <1>3, <4>1, <4>2
    <3>4. \A j \in 1 .. n - k : j + k # i
      BY <1>1, <1>2, <1>6, <2>2
    <3>5. None(types, b)
      BY <1>4, <1>6, <3>4 DEF None
    <3> QED
      BY <2>2, <3>2, <3>3, <3>5 DEF One
  <2>3. CASE i # 1 /\ ~(i <= k)
    <3>1. i - k \in 1 .. n - k /\ (i - k) + k = i
      BY <1>1, <1>2, <1>6, <2>3
    <3>2. i - k \in DOMAIN b /\ b[i - k].type \in types
      BY <1>4, <1>6, <3>1
    <3>3. \A j \in DOMAIN b : b[j].type \in types => j = i - k
      <4>1. \A j \in DOMAIN b : b[j].type \in types => j + k = i
        BY <1>4, <1>6
      <4>2. \A j \in 1 .. n - k : j + k = i => j = i - k
        BY <1>1, <1>2, <1>6
      <4> QED
        BY <1>4, <4>1, <4>2
    <3>4. \A j \in 1 .. k - 1 : j + 1 # i
      BY <1>1, <1>2, <1>6, <2>3
    <3>5. None(types, a)
      BY <1>3, <1>6, <3>4 DEF None
    <3> QED
      BY <2>3, <3>2, <3>3, <3>5 DEF One
  <2> QED
    BY <2>1, <2>2, <2>3
<1>7. One(types, s) => \E i \in DOMAIN s :
                          /\ s[i].type \in types
                          /\ \A j \in DOMAIN s : s[j].type \in types => j = i
  BY DEF One
<1>8. One(types, s) /\ Head(s).type \in types => None(types, a) /\ None(types, b)
  BY <1>1, <1>6, <1>7
<1>9. One(types, s) /\ Head(s).type \notin types =>
        \/ One(types, a) /\ None(types, b)
        \/ None(types, a) /\ One(types, b)
  BY <1>1, <1>6, <1>7
<1> QED
  BY <1>3, <1>4, <1>5, <1>8, <1>9 DEF n, a, b

\* The packets of s after the first.
LEMMA OfTail ==
  ASSUME NEW types, NEW s \in Seq(Packet), s # << >>
  PROVE  /\ Tail(s) \in Seq(Packet)
         /\ None(types, s) => Head(s).type \notin types /\ None(types, Tail(s))
         /\ One(types, s) /\ Head(s).type \in types => None(types, Tail(s))
         /\ One(types, s) /\ Head(s).type \notin types => One(types, Tail(s))
<1> DEFINE n == Len(s)
           b == SubSeq(s, n + 1, n)
<1>1. n \in 1 .. n /\ n \in Nat \ {0} /\ Tail(s) = SubSeq(s, 2, n)
  BY Rest
<1>2. DOMAIN b = {}
  <2>1. n + 1 \in Nat \ {0} /\ n \in 0 .. Len(s)
    BY <1>1
  <2>2. DOMAIN b = 1 .. n - (n + 1) + 1
    BY <2>1, Part
  <2> QED
    BY <1>1, <2>2
<1>3. ~One(types, b)
  BY <1>2 DEF One
<1>4. LET a == SubSeq(s, 2, n)
      IN /\ a \in Seq(Packet)
         /\ None(types, s) => Head(s).type \notin types /\ None(types, a)
         /\ One(types, s) /\ Head(s).type \in types => None(types, a)
         /\ One(types, s) /\ Head(s).type \notin types => One(types, a) \/ One(types, b)
  BY <1>1, Cut
<1> QED
  BY <1>1, <1>3, <1>4

\* What is received, and what is on the way after it.
LEMMA Received ==
  ASSUME TypeOK, NEW types, NEW p \in Packet, Receives(p)
  PROVE  /\ rx' \in Seq(Packet) /\ toClient' \in Seq(Packet)
         /\ UNCHANGED << peer, toBroker, subs >>
         /\ None(types, rx) /\ None(types, toClient) =>
              p.type \notin types /\ None(types, rx') /\ None(types, toClient')
         /\ NoneComing(types) => p.type \notin types /\ NoneComing(types)'
         /\ OneComing(types) /\ p.type \in types => NoneComing(types)'
         /\ OneComing(types) /\ p.type \notin types => OneComing(types)'
         /\ toClient = << >> => rx # << >> /\ toClient' = << >>
<1>0. rx \in Seq(Packet) /\ toClient \in Seq(Packet)
  BY DEF TypeOK
<1>1. CASE rx # << >> /\ p = Head(rx) /\ rx' = Tail(rx) /\ UNCHANGED network
  <2>1. UNCHANGED << peer, toBroker, toClient, subs >>
    BY <1>1 DEF network
  <2>2. /\ rx' \in Seq(Packet)
        /\ None(types, rx) => p.type \notin types /\ None(types, rx')
        /\ One(types, rx) /\ p.type \in types => None(types, rx')
        /\ One(types, rx) /\ p.type \notin types => One(types, rx')
    BY <1>0, <1>1, OfTail
  <2>3. ~(None(types, rx) /\ p.type \in types)
    BY <2>2
  <2> QED
    BY <1>0, <1>1, <2>1, <2>2, <2>3 DEF NoneComing, OneComing
<1>2. ASSUME rx = << >>, toClient # << >>, p = Head(toClient),
             NEW k \in 1 .. Len(toClient), rx' = SubSeq(toClient, 2, k),
             toClient' = SubSeq(toClient, k + 1, Len(toClient)),
             UNCHANGED << peer, toBroker, subs >>
      PROVE  /\ rx' \in Seq(Packet) /\ toClient' \in Seq(Packet)
             /\ None(types, toClient) => p.type \notin types /\ NoneComing(types)'
             /\ One(types, toClient) /\ p.type \in types => NoneComing(types)'
             /\ One(types, toClient) /\ p.type \notin types => OneComing(types)'
             /\ ~One(types, rx)
  <2>1. ~One(types, rx)
    <3>1. DOMAIN rx = {}
      BY <1>2, <1>0, LenProperties, EmptySeq
    <3> QED
      BY <3>1 DEF One
  <2> QED
    BY <1>0, <1>2, <2>1, Cut DEF NoneComing, OneComing
<1>3. CASE /\ rx = << >> /\ toClient # << >> /\ p = Head(toClient)
           /\ \E k \in 1 .. Len(toClient) :
                /\ rx' = SubSeq(toClient, 2, k)
                /\ toClient' = SubSeq(toClient, k + 1, Len(toClient))
           /\ UNCHANGED << peer, toBroker, subs >>
  BY <1>2, <1>3 DEF NoneComing, OneComing
<1> QED
  BY <1>1, <1>3 DEF Receives

----------------------------------------------------------------------------
(* Types. *)

LEMMA SentType ==
  ASSUME TypeOK, NEW p \in Packet, Sends(p)
  PROVE  /\ toBroker' \in Seq(Packet)
         /\ UNCHANGED << peer, toClient, subs >>
  BY AppendProperties DEF TypeOK, Sends

LEMMA Packets ==
  /\ \A t \in {"CONNECT", "SUBSCRIBE", "PINGREQ", "CONNACK", "SUBACK", "PINGRESP", "PUBLISH"} :
       Pkt(t) \in Packet
  /\ \A t \in Topics : /\ [type |-> "SUBSCRIBE", topic |-> t] \in Packet
                       /\ [type |-> "PUBLISH", topic |-> t] \in Packet
  BY DEF Pkt, Packet

\* The broker answers every request.
LEMMA Answered ==
  ASSUME NEW p \in Packet, p.type \in Requests
  PROVE  /\ Answer(p) \in Packet
         /\ p.type = "CONNECT" => Answer(p) = Pkt("CONNACK")
         /\ p.type = "PINGREQ" => Answer(p).type = "PINGRESP"
         /\ p.type = "SUBSCRIBE" => Answer(p).type = "SUBACK" /\ p.topic \in Topics \cup {"none"}
  BY DEF Requests, Answer, Pkt, Packet

LEMMA HandlesType ==
  ASSUME TypeOK, NEW p \in Packet, Handles(p)
  PROVE  /\ isConnected' \in BOOLEAN /\ isAutoReconnectEnabled' \in BOOLEAN
         /\ wasManuallyDisconnected' \in BOOLEAN /\ isPingOutstanding' \in BOOLEAN
         /\ pingTimer' \in {"unset", "running", "expired"}
  BY DEF TypeOK, Handles

LEMMA BackOffType ==
  ASSUME TypeOK, BackOff
  PROVE  interval' \in Nat /\ reconnectDelayTimer' \in {"unset", "running", "expired"}
<1>1. interval' \in Nat
  BY DEF TypeOK, BackOff
<1>2. reconnectDelayTimer' \in {"unset", "running", "expired"}
  BY DEF TypeOK, BackOff
<1> QED
  BY <1>1, <1>2

LEMMA ClosesType ==
  ASSUME TypeOK, Connection, ClosesSocket
  PROVE  /\ sockets' \in 0 .. MaxSockets /\ mine' = FALSE /\ refusals' = refusals
         /\ peer' = "none" /\ toBroker' = << >> /\ toClient' = << >> /\ subs' = {}
         /\ mine' => sockets' > 0
<1>1. sockets' \in 0 .. MaxSockets
  BY BoundAssumption DEF TypeOK, Connection, ClosesSocket
<1> QED
  BY <1>1 DEF ClosesSocket

LEMMA TypeStep ==
  ASSUME TypeOK, Network, Position, Connection, Next
  PROVE  TypeOK'
<1> USE DEF TypeOK, Pcs, flags, retry, socks, network
<1>1. CASE UNCHANGED faults /\ (CloudOffline \/ BeginSubscribe \/ EndSubscribe)
  BY <1>1 DEF CloudOffline, BeginSubscribe, EndSubscribe
<1>2. CASE UNCHANGED faults /\ (BeginYield \/ Reconnect \/ SubackTimesOut)
  BY <1>2 DEF BeginYield, Reconnect, SubackTimesOut, NextTopic
<1>3. CASE SysTime \/ PingTimerExpires \/ ReconnectTimerExpires
  BY <1>3 DEF SysTime, PingTimerExpires, ReconnectTimerExpires
<1>4. CASE UNCHANGED faults /\ CloudConnect
  <2>1. messageHandlers' \in Seq(Topics)
    BY <1>4, EmptySeq DEF CloudConnect, Reset
  <2> QED
    BY <1>4, <2>1 DEF CloudConnect, Reset
<1>5. CASE UNCHANGED faults /\ TlsConnect
  <2>1. ASSUME NoSocket
        PROVE  /\ sockets' \in 0 .. MaxSockets /\ refusals' \in 0 .. MaxRefusals
               /\ mine' \in BOOLEAN
    <3>1. mine' \in BOOLEAN
      BY <2>1 DEF NoSocket
    <3>2. sockets' \in 0 .. MaxSockets
      BY <2>1, BoundAssumption DEF NoSocket
    <3>3. refusals' \in 0 .. MaxRefusals
      BY <2>1, BoundAssumption DEF NoSocket
    <3> QED
      BY <3>1, <3>2, <3>3
  <2>2. ASSUME Refused
        PROVE  /\ sockets' \in 0 .. MaxSockets /\ refusals' \in 0 .. MaxRefusals
               /\ mine' \in BOOLEAN
    <3>1. mine' \in BOOLEAN
      BY <2>2 DEF Refused
    <3>2. sockets' \in 0 .. MaxSockets
      BY <2>2, BoundAssumption DEF Refused
    <3>3. refusals' \in 0 .. MaxRefusals
      BY <2>2, BoundAssumption DEF Refused
    <3> QED
      BY <3>1, <3>2, <3>3
  <2>3. TlsUp => /\ sockets' \in 0 .. MaxSockets /\ refusals' \in 0 .. MaxRefusals
                 /\ mine' \in BOOLEAN
    BY BoundAssumption DEF TlsUp
  <2>4. ConnectFails => pc' \in Pcs /\ interval' \in Nat
                        /\ reconnectDelayTimer' \in {"unset", "running", "expired"}
    BY BackOffType DEF ConnectFails
  <2>5. << >> \in Seq(Packet) /\ << Pkt("CONNECT") >> \in Seq(Packet)
    BY Packets, EmptySeq
  <2>6. NoSocket \/ Refused => /\ pc' \in Pcs /\ interval' \in Nat /\ subs' = {}
                               /\ reconnectDelayTimer' \in {"unset", "running", "expired"}
                               /\ peer' = "none" /\ toBroker' = << >> /\ toClient' = << >>
    BY <2>4 DEF NoSocket, Refused
  <2>7. TlsUp => /\ pc' \in Pcs /\ interval' \in Nat /\ subs' = {}
                 /\ reconnectDelayTimer' \in {"unset", "running", "expired"}
                 /\ peer' = "up" /\ toBroker' \in Seq(Packet) /\ toClient' = << >>
    BY <2>4, <2>5 DEF TlsUp
  <2>8. UNCHANGED << task, caller, itr, flags, messageHandlers, rx >>
        /\ (NoSocket \/ Refused \/ TlsUp)
    BY <1>5 DEF TlsConnect
  <2> HIDE DEF Pcs
  <2>9. CASE NoSocket
    BY <1>5, <2>1, <2>5, <2>6, <2>8, <2>9
  <2>10. CASE Refused
    BY <1>5, <2>2, <2>5, <2>6, <2>8, <2>10
  <2>11. CASE TlsUp
    BY <1>5, <2>3, <2>5, <2>7, <2>8, <2>11
  <2> QED
    BY <2>8, <2>9, <2>10, <2>11
<1>6. CASE UNCHANGED faults /\ Connack
  <2>1. PICK p \in Packet :
          /\ Receives(p)
          /\ \/ /\ Connected /\ refusals' = 0
                /\ \/ isAutoReconnectEnabled' = TRUE /\ pc' = "app"
                      /\ task' = "MQTT_SUBSCRIBE" /\ UNCHANGED itr
                   \/ UNCHANGED << isAutoReconnectEnabled, task >> /\ pc' = "resub" /\ itr' = 1
             \/ Handles(p) /\ UNCHANGED << pc, task, itr, refusals >>
    BY <1>6 DEF Connack
  <2>2. rx' \in Seq(Packet) /\ toClient' \in Seq(Packet) /\ UNCHANGED << peer, toBroker, subs >>
    BY <2>1, Received
  <2>3. /\ isConnected' \in BOOLEAN /\ isAutoReconnectEnabled' \in BOOLEAN
        /\ wasManuallyDisconnected' \in BOOLEAN /\ isPingOutstanding' \in BOOLEAN
        /\ pingTimer' \in {"unset", "running", "expired"}
    BY <2>1, HandlesType DEF Connected
  <2>4. refusals' \in 0 .. MaxRefusals
    BY <2>1, BoundAssumption
  <2>5. UNCHANGED << caller, retry, messageHandlers, sockets, mine >>
    BY <1>6 DEF Connack
  <2>6. /\ pc' \in Pcs /\ itr' \in Nat
        /\ task' \in {"CONNECT_CLOUD", "MQTT_SUBSCRIBE", "MQTT_RUNNING", "AWAY"}
    BY <2>1
  <2> QED
    BY <1>6, <2>2, <2>3, <2>4, <2>5, <2>6
<1>7. CASE UNCHANGED faults /\ (ConnackTimesOut \/ ResubackTimesOut)
  <2>1. /\ interval' \in Nat /\ reconnectDelayTimer' \in {"unset", "running", "expired"}
        /\ pc' \in Pcs /\ itr' \in Nat
    BY <1>7, BackOffType DEF ConnackTimesOut, ResubackTimesOut, ResubscribeFails, ConnectFails
  <2>2. UNCHANGED << task, caller, flags, messageHandlers, socks, network, rx >>
    BY <1>7 DEF ConnackTimesOut, ResubackTimesOut
  <2> QED
    BY <1>7, <2>1, <2>2
<1>8. CASE UNCHANGED faults /\ Subscribe
  <2>1. UNCHANGED << task, caller, flags, retry, messageHandlers, socks, rx >>
    BY <1>8 DEF Subscribe
  <2>2. pc' \in Pcs /\ itr' \in Nat
    BY <1>8 DEF Subscribe, NextTopic
  <2>3. AppTopics[itr] \in Topics
    <3>1. itr \in 1 .. Len(AppTopics)
      BY <1>8 DEF Subscribe, Position
    <3> QED
      BY <3>1, BoundAssumption, ElementOfSeq DEF Topics
  <2>4. toBroker' \in Seq(Packet) /\ UNCHANGED << peer, toClient, subs >>
    BY <1>8, <2>3, Packets, SentType DEF Subscribe
  <2> QED
    BY <1>8, <2>1, <2>2, <2>4
<1>9. CASE UNCHANGED faults /\ (Suback \/ Resuback \/ Cycle)
  <2>1. PICK p \in Packet : (Receives(p) /\ Handles(p)) \/ (NothingToRead /\ UNCHANGED flags)
    <3>1. CASE NothingToRead /\ UNCHANGED flags
      BY <3>1, Packets
    <3>2. CASE \E p \in Packet : Receives(p) /\ Handles(p)
      BY <3>2
    <3> QED
      BY <1>9, <3>1, <3>2 DEF Suback, Resuback, Cycle
  <2>2. /\ rx' \in Seq(Packet) /\ toClient' \in Seq(Packet)
        /\ UNCHANGED << peer, toBroker, subs >>
    BY <2>1, Received DEF NothingToRead
  <2>3. /\ isConnected' \in BOOLEAN /\ isAutoReconnectEnabled' \in BOOLEAN
        /\ wasManuallyDisconnected' \in BOOLEAN /\ isPingOutstanding' \in BOOLEAN
        /\ pingTimer' \in {"unset", "running", "expired"}
    BY <2>1, HandlesType
  <2>4. UNCHANGED << task, caller, retry, socks >> /\ pc' \in Pcs /\ itr' \in Nat
    BY <1>9 DEF Suback, Resuback, Cycle, NextTopic
  <2>5. messageHandlers' \in Seq(Topics)
    <3>1. CASE Suback
      <4>1. itr \in 1 .. Len(AppTopics)
        BY <3>1, BoundAssumption, LenProperties DEF Suback, Position
      <4>2. AppTopics[itr] \in Topics
        BY <4>1, BoundAssumption, ElementOfSeq DEF Topics
      <4> QED
        BY ONLY <3>1, <4>2, AppendProperties, messageHandlers \in Seq(Topics) DEF Suback
    <3> QED
      BY <1>9, <3>1 DEF Resuback, Cycle
  <2> QED
    BY <1>9, <2>2, <2>3, <2>4, <2>5
<1>10. CASE UNCHANGED faults /\ Resubscribe
  <2>1. UNCHANGED << task, caller, flags, messageHandlers, socks, rx, itr >> /\ pc' \in Pcs
    BY <1>10 DEF Resubscribe, ResubscribeFails
  <2>2. itr <= Len(messageHandlers) => messageHandlers[itr] \in Topics
    <3>1. itr <= Len(messageHandlers) => itr \in 1 .. Len(messageHandlers)
      BY <1>10, LenProperties DEF Resubscribe, Position
    <3> QED
      BY <3>1, ElementOfSeq
  <2>3. toBroker' \in Seq(Packet) /\ UNCHANGED << peer, toClient, subs >>
    BY <1>10, <2>2, Packets, SentType DEF Resubscribe
  <2>4. interval' \in Nat /\ reconnectDelayTimer' \in {"unset", "running", "expired"}
    BY <1>10, BackOffType DEF Resubscribe, ResubscribeFails
  <2> QED
    BY <1>10, <2>1, <2>3, <2>4
<1>11. CASE UNCHANGED faults /\ Keepalive
  <2>1. UNCHANGED << task, caller, itr, messageHandlers, rx, faults >> /\ pc' \in Pcs
    BY <1>11 DEF Keepalive
  <2>2. CASE UNCHANGED << flags, retry, socks, network >>
    BY <2>1, <2>2
  <2>3. CASE SendsPing
    <3>1. toBroker' \in Seq(Packet) /\ UNCHANGED << peer, toClient, subs >>
      BY <2>3, Packets, SentType DEF SendsPing
    <3> QED
      BY <2>1, <2>3, <3>1 DEF SendsPing
  <2>4. CASE HandleDisconnect
    <3>1. /\ sockets' \in 0 .. MaxSockets /\ mine' = FALSE /\ refusals' = refusals
          /\ peer' = "none" /\ toBroker' = << >> /\ toClient' = << >> /\ subs' = {}
          /\ isConnected' = FALSE
      BY <2>4, ClosesType DEF HandleDisconnect, Disconnected
    <3>2. /\ interval' = MinWait /\ reconnectDelayTimer' = "running"
          /\ wasManuallyDisconnected' = FALSE
          /\ UNCHANGED << isAutoReconnectEnabled, isPingOutstanding, pingTimer >>
      BY <2>4 DEF HandleDisconnect
    <3> QED
      BY <2>1, <3>1, <3>2, EmptySeq DEF MinWait
  <2> QED
    BY <1>11, <2>2, <2>3, <2>4 DEF Keepalive
<1>12. CASE LongPress
  <2>1. /\ UNCHANGED << pc, caller, itr, isAutoReconnectEnabled, isPingOutstanding,
                        pingTimer, retry, messageHandlers, rx, faults >>
        /\ task' = "AWAY"
    BY <1>12 DEF LongPress
  <2>2. CASE isConnected' = FALSE /\ wasManuallyDisconnected' = TRUE /\ ClosesSocket
    <3>1. /\ sockets' \in 0 .. MaxSockets /\ mine' = FALSE /\ refusals' = refusals
          /\ peer' = "none" /\ toBroker' = << >> /\ toClient' = << >> /\ subs' = {}
      BY <2>2, ClosesType
    <3>2. << >> \in Seq(Packet)
      BY EmptySeq
    <3> QED
      BY <2>1, <2>2, <3>1, <3>2
  <2> QED
    BY <1>12, <2>1, <2>2 DEF LongPress
<1>13. CASE LinkLost
  <2>1. refusals' \in 0 .. MaxRefusals
    BY <1>13, BoundAssumption DEF LinkLost
  <2> QED
    BY <1>13, <2>1, EmptySeq DEF LinkLost
<1>14. CASE BrokerHandles
  <2> DEFINE p == Head(toBroker)
  <2>1. p \in Packet /\ p.type \in Requests
    BY <1>14, Rest DEF BrokerHandles, Network
  <2>2. toBroker' \in Seq(Packet)
    BY <1>14, HeadTailProperties DEF BrokerHandles
  <2>3. toClient' \in Seq(Packet)
    BY <1>14, <2>1, Answered, AppendProperties DEF BrokerHandles
  <2>4. subs' \subseteq Topics
    <3>1. p.type = "SUBSCRIBE" => p.topic \in Topics
      BY <1>14, Rest DEF BrokerHandles, Network
    <3> QED
      BY <1>14, <3>1 DEF BrokerHandles
  <2> QED
    BY <1>14, <2>2, <2>3, <2>4 DEF BrokerHandles
<1>15. ASSUME NEW t \in Topics, BrokerPublishes(t)
       PROVE  TypeOK'
  <2>1. toClient' \in Seq(Packet)
    BY <1>15, Packets, AppendProperties DEF BrokerPublishes
  <2> QED
    BY <1>15, <2>1 DEF BrokerPublishes
<1> QED
  BY <1>1, <1>2, <1>3, <1>4, <1>5, <1>6, <1>7, <1>8, <1>9, <1>10, <1>11, <1>12, <1>13, <1>14, <1>15
     DEF Next, Client

----------------------------------------------------------------------------
(* Where the thread is and what it has. *)

LEMMA PositionStep ==
  ASSUME TypeOK, Position, Next
  PROVE  Position'
<1> USE DEF Position
<1>1. CASE CloudOffline \/ BeginSubscribe \/ EndSubscribe \/ BeginYield \/ Reconnect
             \/ SysTime \/ PingTimerExpires \/ ReconnectTimerExpires
  BY <1>1 DEF CloudOffline, BeginSubscribe, EndSubscribe, BeginYield, Reconnect, SysTime,
              PingTimerExpires, ReconnectTimerExpires
<1>2. CASE CloudConnect \/ TlsConnect
  BY <1>2 DEF CloudConnect, TlsConnect, NoSocket, Refused, TlsUp, ConnectFails
<1>3. CASE Connack
  BY <1>3 DEF Connack
<1>4. CASE ConnackTimesOut \/ ResubackTimesOut
  BY <1>4 DEF ConnackTimesOut, ResubackTimesOut, ResubscribeFails, ConnectFails
<1>5. CASE Subscribe
  BY <1>5 DEF Subscribe, NextTopic, TypeOK
<1>6. CASE Suback \/ SubackTimesOut
  <2>1. \/ pc' = "subscribe" /\ itr' = itr + 1
        \/ pc' = pc /\ pc = "suback" /\ UNCHANGED << itr, messageHandlers >>
    BY <1>6 DEF Suback, SubackTimesOut, NextTopic
  <2> QED
    BY <2>1 DEF TypeOK
<1>7. CASE Resubscribe
  BY <1>7 DEF Resubscribe, ResubscribeFails
<1>8. CASE Resuback
  <2>1. \/ pc' = "resub" /\ itr' = itr + 1
        \/ pc' = pc /\ pc = "resuback" /\ UNCHANGED << itr, messageHandlers >>
    BY <1>8 DEF Resuback
  <2> QED
    BY <1>8, <2>1 DEF TypeOK, Resuback
<1>9. CASE Cycle \/ Keepalive
  BY <1>9 DEF Cycle, Keepalive
<1>10. CASE LongPress \/ LinkLost \/ BrokerHandles
  BY <1>10 DEF LongPress, LinkLost, BrokerHandles
<1>11. ASSUME NEW t \in Topics, BrokerPublishes(t)
       PROVE  Position'
  BY <1>11 DEF BrokerPublishes
<1> QED
  BY <1>1, <1>2, <1>3, <1>4, <1>5, <1>6, <1>7, <1>8, <1>9, <1>10, <1>11 DEF Next, Client

\* Being connected, having a socket and being allowed to reconnect go together.
LEMMA ConnectionStep ==
  ASSUME TypeOK, Connection, ConnectedMayReconnect, Next
  PROVE  Connection' /\ ConnectedMayReconnect'
<1> USE DEF Connection, ConnectedMayReconnect
<1>1. CASE CloudOffline \/ BeginSubscribe \/ EndSubscribe \/ SubackTimesOut
             \/ SysTime \/ PingTimerExpires \/ ReconnectTimerExpires
  BY <1>1 DEF CloudOffline, BeginSubscribe, EndSubscribe, SubackTimesOut, NextTopic, SysTime,
              PingTimerExpires, ReconnectTimerExpires, flags, socks
<1>2. CASE BeginYield \/ Reconnect
  BY <1>2 DEF BeginYield, MayYield, Reconnect, flags, socks
<1>3. CASE CloudConnect
  BY <1>3 DEF CloudConnect, Reset, socks
<1>4. CASE TlsConnect
  <2>1. mine' => sockets' > 0
    BY <1>4 DEF TlsConnect, NoSocket, Refused, TlsUp, TypeOK
  <2>2. pc' = "connack" => mine'
    BY <1>4 DEF TlsConnect, NoSocket, Refused, TlsUp, ConnectFails
  <2>3. UNCHANGED << caller, isConnected, isAutoReconnectEnabled >> /\ pc = "tls"
    BY <1>4 DEF TlsConnect, flags
  <2>4. ConnectFails => \/ caller = "cloud" /\ pc' = "app"
                        \/ caller = "yield" /\ pc' = "loop"
    BY DEF ConnectFails
  <2>5. pc' = "connack" \/ ConnectFails
    BY <1>4 DEF TlsConnect, NoSocket, Refused, TlsUp
  <2> QED
    BY <2>1, <2>2, <2>3, <2>4, <2>5
<1>5. CASE Connack
  BY <1>5 DEF Connack, Connected, Handles
<1>6. CASE ConnackTimesOut \/ ResubackTimesOut
  BY <1>6 DEF ConnackTimesOut, ResubackTimesOut, ResubscribeFails, ConnectFails, flags, socks
<1>7. CASE Subscribe \/ Resubscribe
  BY <1>7 DEF Subscribe, Resubscribe, NextTopic, ResubscribeFails, flags, socks
<1>8. CASE Suback \/ Resuback \/ Cycle
  BY <1>8 DEF Suback, Resuback, Cycle, Handles, NextTopic, flags, socks
<1>9. CASE Keepalive
  <2>1. CASE UNCHANGED << flags, retry, socks, network >>
    BY <1>9, <2>1 DEF Keepalive, flags, socks
  <2>2. CASE SendsPing
    BY <1>9, <2>2 DEF Keepalive, SendsPing, socks
  <2>3. CASE HandleDisconnect
    BY <1>9, <2>3, ClosesType DEF Keepalive, HandleDisconnect, Disconnected
  <2> QED
    BY <1>9, <2>1, <2>2, <2>3 DEF Keepalive
<1>10. CASE LongPress
  <2>1. pc = "app" /\ UNCHANGED << pc, caller, isAutoReconnectEnabled >>
    BY <1>10 DEF LongPress
  <2>2. CASE isConnected' = FALSE /\ ClosesSocket
    BY <2>1, <2>2, ClosesType
  <2>3. CASE UNCHANGED << isConnected, socks >>
    BY <2>1, <2>3 DEF socks
  <2> QED
    BY <1>10, <2>2, <2>3 DEF LongPress
<1>11. CASE LinkLost \/ BrokerHandles
  BY <1>11 DEF LinkLost, BrokerHandles, flags, socks
<1>12. ASSUME NEW t \in Topics, BrokerPublishes(t)
       PROVE  Connection' /\ ConnectedMayReconnect'
  BY <1>12 DEF BrokerPublishes, flags, socks
<1> QED
  BY <1>1, <1>2, <1>3, <1>4, <1>5, <1>6, <1>7, <1>8, <1>9, <1>10, <1>11, <1>12 DEF Next, Client

----------------------------------------------------------------------------
(* What is on the way. *)

LEMMA NoneOfNothing ==
  ASSUME NEW types
  PROVE  None(types, << >>)
  BY EmptySeq, LenProperties DEF None

\* The topics that are subscribed.
LEMMA TopicAt ==
  ASSUME TypeOK, Position
  PROVE  /\ Subscribe => AppTopics[itr] \in Topics
         /\ Suback => AppTopics[itr] \in Topics
         /\ Resubscribe /\ itr <= Len(messageHandlers) => messageHandlers[itr] \in Topics
<1>1. Subscribe \/ Suback => itr \in 1 .. Len(AppTopics)
  BY DEF Subscribe, Suback, TypeOK, Position
<1>2. Resubscribe /\ itr <= Len(messageHandlers) => itr \in 1 .. Len(messageHandlers)
  BY DEF Resubscribe, TypeOK, Position
<1>3. messageHandlers \in Seq(Topics)
  BY DEF TypeOK
<1> QED
  BY <1>1, <1>2, <1>3, BoundAssumption, ElementOfSeq DEF Topics

LEMMA SentKeeps ==
  ASSUME TypeOK, Network, NEW p \in Packet, Sends(p), p.type \in Requests,
         p.type = "SUBSCRIBE" => p.topic \in Topics
  PROVE  Network'
<1>1. CASE peer = "up"
  <2>1. /\ DOMAIN toBroker' = 1 .. Len(toBroker) + 1 /\ Len(toBroker) \in Nat
        /\ \A i \in 1 .. Len(toBroker) : i \in DOMAIN toBroker /\ toBroker'[i] = toBroker[i]
        /\ toBroker'[Len(toBroker) + 1] = p
    BY <1>1, AppendProperties, LenProperties DEF Sends, TypeOK
  <2>2. peer' = "up"
    BY <1>1 DEF Sends
  <2> QED
    BY <2>1, <2>2 DEF Network
<1>2. CASE peer # "up"
  BY <1>2 DEF Sends, Network
<1> QED
  BY <1>1, <1>2

LEMMA NetworkStep ==
  ASSUME TypeOK, Network, Position, Connection, Next
  PROVE  Network'
<1>0. ASSUME UNCHANGED << peer, toBroker, toClient >>
      PROVE  Network'
  BY <1>0 DEF Network
<1>1. ASSUME toBroker' = << >>, peer' = "up" \/ toClient' = << >>
      PROVE  Network'
  <2>1. DOMAIN toBroker' = {}
    BY <1>1, EmptySeq, LenProperties
  <2> QED
    BY <1>1, <2>1 DEF Network
<1>2. CASE UNCHANGED network
  BY <1>0, <1>2 DEF network
<1>3. CASE TlsConnect
  <2>1. CASE NoSocket \/ Refused
    BY <1>1, <2>1 DEF NoSocket, Refused
  <2>2. CASE TlsUp /\ toBroker' = << Pkt("CONNECT") >>
    <3>1. DOMAIN toBroker' = {1} /\ toBroker'[1] = Pkt("CONNECT") /\ peer' = "up"
      BY <2>2 DEF TlsUp
    <3> QED
      BY <3>1 DEF Network, Pkt, Requests
  <2>3. CASE TlsUp /\ toBroker' = << >>
    BY <1>1, <2>3 DEF TlsUp
  <2> QED
    BY <1>3, <2>1, <2>2, <2>3 DEF TlsConnect, TlsUp
<1>4. CASE Connack \/ Suback \/ Resuback \/ Cycle
  <2>1. CASE NothingToRead
    BY <1>2, <2>1 DEF NothingToRead
  <2>2. ASSUME NEW p \in Packet, Receives(p)
        PROVE  Network'
    BY <2>2, Received DEF Network
  <2> QED
    BY <1>4, <2>1, <2>2 DEF Connack, Suback, Resuback, Cycle
<1>5. CASE Subscribe
  <2>1. CASE Sends([type |-> "SUBSCRIBE", topic |-> AppTopics[itr]])
    BY <1>5, <2>1, TopicAt, Packets, SentKeeps DEF Requests
  <2> QED
    BY <1>2, <1>5, <2>1 DEF Subscribe
<1>6. CASE Resubscribe
  <2>1. CASE /\ itr <= Len(messageHandlers)
             /\ Sends([type |-> "SUBSCRIBE", topic |-> messageHandlers[itr]])
    BY <1>6, <2>1, TopicAt, Packets, SentKeeps DEF Requests
  <2> QED
    BY <1>2, <1>6, <2>1 DEF Resubscribe
<1>7. CASE Keepalive
  <2>1. CASE SendsPing
    <3>1. Pkt("PINGREQ") \in Packet /\ Pkt("PINGREQ").type = "PINGREQ"
      BY Packets DEF Pkt
    <3> QED
      BY <2>1, <3>1, SentKeeps DEF SendsPing, Requests
  <2>2. CASE HandleDisconnect
    BY <1>1, <2>2, ClosesType DEF HandleDisconnect, Disconnected
  <2> QED
    BY <1>2, <1>7, <2>1, <2>2 DEF Keepalive
<1>8. CASE LongPress
  <2>1. CASE ClosesSocket
    BY <1>1, <2>1, ClosesType
  <2> QED
    BY <1>2, <1>8, <2>1 DEF LongPress
<1>9. CASE LinkLost
  BY <1>1, <1>9 DEF LinkLost
<1>10. CASE BrokerHandles
  <2>1. /\ toBroker' = Tail(toBroker) /\ peer' = "up" /\ toBroker # << >>
        /\ toBroker \in Seq(Packet)
    BY <1>10 DEF BrokerHandles, TypeOK
  <2>2. /\ Tail(toBroker) \in Seq(Packet) /\ Len(Tail(toBroker)) = Len(toBroker) - 1
        /\ \A i \in 1 .. Len(Tail(toBroker)) : Tail(toBroker)[i] = toBroker[i + 1]
    BY <2>1, HeadTailProperties
  <2>3. DOMAIN toBroker' = 1 .. Len(toBroker) - 1 /\ DOMAIN toBroker = 1 .. Len(toBroker)
        /\ Len(toBroker) \in Nat
    BY <2>1, <2>2, LenProperties
  <2>4. \A i \in DOMAIN toBroker' : i + 1 \in DOMAIN toBroker
    BY <2>3
  <2> QED
    BY <2>1, <2>2, <2>3, <2>4 DEF Network
<1>11. ASSUME NEW t \in Topics, BrokerPublishes(t)
       PROVE  Network'
  BY <1>11 DEF BrokerPublishes, Network
<1>12. CASE CloudOffline \/ CloudConnect \/ ConnackTimesOut \/ BeginSubscribe \/ SubackTimesOut
            \/ EndSubscribe \/ ResubackTimesOut \/ BeginYield \/ Reconnect
            \/ SysTime \/ PingTimerExpires \/ ReconnectTimerExpires
  BY <1>2, <1>12 DEF CloudOffline, CloudConnect, ConnackTimesOut, BeginSubscribe, SubackTimesOut,
       EndSubscribe, ResubackTimesOut, BeginYield, Reconnect, SysTime, PingTimerExpires,
       ReconnectTimerExpires
<1> QED
  BY <1>3, <1>4, <1>5, <1>6, <1>7, <1>8, <1>9, <1>10, <1>11, <1>12 DEF Next, Client

\* When CONNACK is read, nothing else is on the way.
LEMMA Greeted ==
  ASSUME TypeOK, Network, Handshake, pc = "connack",
         NEW p \in Packet, Receives(p), p.type = "CONNACK"
  PROVE  /\ peer = "up" /\ toBroker = << >> /\ subs = {}
         /\ rx' = << >> /\ toClient' = << >> /\ UNCHANGED << peer, toBroker, subs >>
<1>1. rx \in Seq(Packet) /\ toClient \in Seq(Packet)
  BY DEF TypeOK
<1>2. rx # << >> => Head(rx).type # "CONNACK"
  BY <1>1, Rest DEF Handshake, None
<1>3. rx = << >> /\ toClient # << >>
  BY <1>2 DEF Receives
<1>4. peer = "up"
  BY <1>3 DEF Network
<1>5. toBroker = << >> /\ subs = {} /\ toClient = << Pkt("CONNACK") >>
  BY <1>3, <1>4 DEF Handshake
<1>6. UNCHANGED << peer, toBroker, subs >>
  BY Received
<1>7. PICK k \in 1 .. Len(toClient) :
        /\ rx' = SubSeq(toClient, 2, k)
        /\ toClient' = SubSeq(toClient, k + 1, Len(toClient))
  BY <1>3 DEF Receives
<1>8. Len(toClient) = 1 /\ k = 1
  BY <1>5, <1>7
<1>9. SubSeq(toClient, 2, 1) = << >>
  <2>1. 2 \in Int /\ 1 \in Int /\ 1 < 2
    OBVIOUS
  <2> QED
    BY <2>1, SubSeqEmpty
<1> QED
  BY <1>4, <1>5, <1>6, <1>7, <1>8, <1>9

\* Before it, the client reads only what an earlier connection left.
LEMMA NotGreeted ==
  ASSUME TypeOK, Network, Handshake, pc = "connack",
         NEW p \in Packet, Receives(p), p.type # "CONNACK"
  PROVE  /\ UNCHANGED network
         /\ None({"CONNACK"}, rx')
<1>1. rx \in Seq(Packet) /\ toClient \in Seq(Packet)
  BY DEF TypeOK
<1>2. ~(rx = << >> /\ toClient # << >> /\ p = Head(toClient))
  <2>1. SUFFICES ASSUME toClient # << >>, p = Head(toClient)
                 PROVE  FALSE
    OBVIOUS
  <2>2. peer = "up"
    BY <2>1 DEF Network
  <2>3. toClient = << Pkt("CONNACK") >>
    BY <2>1, <2>2 DEF Handshake
  <2>4. p = Pkt("CONNACK")
    BY <2>1, <2>3
  <2> QED
    BY <2>4 DEF Pkt
<1>3. UNCHANGED network
  BY <1>2 DEF Receives
<1>4. rx # << >> /\ rx' = Tail(rx)
  BY <1>2 DEF Receives
<1>5. None({"CONNACK"}, rx)
  BY DEF Handshake
<1> QED
  BY <1>1, <1>3, <1>4, <1>5, OfTail

LEMMA HandshakeStep ==
  ASSUME TypeOK, Network, Position, Connection, Handshake, Next
  PROVE  Handshake'
<1> DEFINE Shaking ==
             pc = "connack" /\ peer = "up" =>
               /\ subs = {}
               /\ \/ toBroker = << Pkt("CONNECT") >> /\ toClient = << >>
                  \/ toBroker = << >> /\ toClient = << Pkt("CONNACK") >>
           Settled ==
             isConnected => None({"CONNECT"}, toBroker) /\ None({"CONNACK"}, toClient)
           Clean == None({"CONNACK"}, rx)
<1>0. /\ Handshake <=> Shaking /\ Settled /\ Clean
      /\ Handshake' <=> Shaking' /\ Settled' /\ Clean'
  BY DEF Handshake
<1>1. ASSUME UNCHANGED << network, rx >>, isConnected' => isConnected, pc' = "connack" => pc = "connack"
      PROVE  Handshake'
  BY <1>1 DEF Handshake, network
<1>2. CASE UNCHANGED << network, rx, flags >> /\ pc' # "connack"
  BY <1>1, <1>2 DEF flags
<1>3. CASE TlsConnect
  <2>1. rx' = rx /\ isConnected' = FALSE /\ pc = "tls"
    BY <1>3 DEF TlsConnect, Connection, flags
  <2>2. CASE peer' = "none"
    BY <1>0, <2>1, <2>2
  <2>3. CASE TlsUp
    <3>1. ConnectFails => pc' # "connack"
      BY DEF ConnectFails
    <3>2. Shaking'
      BY <2>3, <3>1 DEF TlsUp
    <3> QED
      BY <1>0, <2>1, <3>2
  <2> QED
    BY <1>3, <2>2, <2>3 DEF TlsConnect, NoSocket, Refused
<1>4. CASE Connack
  <2>1. PICK p \in Packet :
          /\ Receives(p)
          /\ \/ p.type = "CONNACK" /\ pc' # "connack"
             \/ p.type # "CONNACK" /\ Handles(p) /\ pc' = pc
    BY <1>4 DEF Connack
  <2>2. pc = "connack"
    BY <1>4 DEF Connack
  <2>3. CASE p.type = "CONNACK"
    <3>1. rx' = << >> /\ toClient' = << >> /\ toBroker' = << >>
      BY <2>1, <2>2, <2>3, Greeted
    <3>2. None({"CONNACK"}, rx') /\ None({"CONNACK"}, toClient') /\ None({"CONNECT"}, toBroker')
      BY <3>1, NoneOfNothing
    <3> QED
      BY <1>0, <2>1, <2>3, <3>2
  <2>4. CASE p.type # "CONNACK"
    <3>1. UNCHANGED network /\ None({"CONNACK"}, rx')
      BY <2>1, <2>2, <2>4, NotGreeted
    <3>2. UNCHANGED << pc, isConnected >>
      BY <2>1, <2>4 DEF Handles
    <3> QED
      BY <1>0, <3>1, <3>2 DEF network
  <2> QED
    BY <2>3, <2>4
<1>5. CASE Subscribe \/ Resubscribe
  <2>1. rx' = rx /\ isConnected' = isConnected /\ pc' # "connack"
    BY <1>5 DEF Subscribe, Resubscribe, NextTopic, ResubscribeFails, flags
  <2>2. CASE UNCHANGED network
    BY <1>1, <2>1, <2>2
  <2>3. ASSUME NEW t \in Topics, Sends([type |-> "SUBSCRIBE", topic |-> t])
        PROVE  Handshake'
    <3>1. [type |-> "SUBSCRIBE", topic |-> t] \in Packet
          /\ [type |-> "SUBSCRIBE", topic |-> t].type \notin {"CONNECT"}
      BY Packets
    <3>2. toBroker \in Seq(Packet)
      BY DEF TypeOK
    <3>3. None({"CONNECT"}, toBroker) => None({"CONNECT"}, toBroker')
      BY <2>3, <3>1, <3>2, Appended DEF Sends
    <3>4. toClient' = toClient
      BY <2>3 DEF Sends
    <3> QED
      BY <1>0, <2>1, <3>3, <3>4
  <2> QED
    BY <1>5, <2>2, <2>3, TopicAt DEF Subscribe, Resubscribe
<1>6. CASE Suback \/ Resuback \/ Cycle
  <2>1. isConnected /\ pc' # "connack"
    BY <1>6 DEF Suback, Resuback, Cycle, NextTopic, Connection
  <2>2. ASSUME NEW p \in Packet, Receives(p)
        PROVE  Handshake'
    <3>1. None({"CONNECT"}, toBroker) /\ None({"CONNACK"}, toClient) /\ None({"CONNACK"}, rx)
      BY <2>1 DEF Handshake
    <3>2. None({"CONNACK"}, toClient') /\ None({"CONNACK"}, rx') /\ toBroker' = toBroker
      BY <2>2, <3>1, Received
    <3> QED
      BY <1>0, <2>1, <3>1, <3>2
  <2>3. CASE NothingToRead
    BY <1>1, <2>1, <2>3 DEF NothingToRead
  <2> QED
    BY <1>6, <2>2, <2>3 DEF Suback, Resuback, Cycle
<1>7. CASE Keepalive
  <2>1. pc' # "connack" /\ rx' = rx /\ isConnected
    BY <1>7 DEF Keepalive, Connection
  <2>2. CASE UNCHANGED << flags, retry, socks, network >>
    BY <1>2, <2>1, <2>2
  <2>3. CASE SendsPing
    <3>1. Pkt("PINGREQ") \in Packet /\ Pkt("PINGREQ").type \notin {"CONNECT"}
      BY Packets DEF Pkt
    <3>2. toBroker \in Seq(Packet)
      BY DEF TypeOK
    <3>3. None({"CONNECT"}, toBroker) => None({"CONNECT"}, toBroker')
      BY <2>3, <3>1, <3>2, Appended DEF Sends, SendsPing
    <3>4. toClient' = toClient
      BY <2>3 DEF Sends, SendsPing
    <3> QED
      BY <1>0, <2>1, <3>3, <3>4
  <2>4. CASE HandleDisconnect
    <3>1. isConnected' = FALSE
      BY <2>4 DEF HandleDisconnect, Disconnected
    <3> QED
      BY <1>0, <2>1, <3>1
  <2> QED
    BY <1>7, <2>2, <2>3, <2>4 DEF Keepalive
<1>8. CASE LongPress
  <2>1. pc' = "app" /\ rx' = rx
    BY <1>8 DEF LongPress
  <2>2. CASE isConnected' = FALSE
    BY <1>0, <2>1, <2>2
  <2>3. CASE UNCHANGED << isConnected, network >>
    BY <1>1, <2>1, <2>3
  <2> QED
    BY <1>8, <2>2, <2>3 DEF LongPress
<1>9. CASE LinkLost
  <2>1. peer' = "gone" /\ toBroker' = << >> /\ toClient' = << >> /\ rx' = rx
    BY <1>9 DEF LinkLost
  <2> QED
    BY <1>0, <2>1, NoneOfNothing
<1>10. CASE BrokerHandles
  <2> DEFINE p == Head(toBroker)
  <2>1. /\ peer = "up" /\ toBroker # << >> /\ toBroker' = Tail(toBroker)
        /\ toClient' = Append(toClient, Answer(p)) /\ UNCHANGED << pc, flags, rx, peer >>
        /\ subs' = IF p.type = "SUBSCRIBE" THEN subs \cup {p.topic} ELSE subs
        /\ toBroker \in Seq(Packet) /\ toClient \in Seq(Packet)
    BY <1>10 DEF BrokerHandles, TypeOK
  <2>2. p \in Packet /\ p.type \in Requests
    BY <2>1, Rest DEF Network
  <2>3. /\ Answer(p) \in Packet
        /\ p.type = "CONNECT" => Answer(p) = Pkt("CONNACK")
        /\ p.type = "PINGREQ" => Answer(p).type = "PINGRESP"
        /\ p.type = "SUBSCRIBE" => Answer(p).type = "SUBACK"
    BY <2>2, Answered
  <2> HIDE DEF p
  <2>4. Shaking'
    <3>1. SUFFICES ASSUME pc = "connack"
                   PROVE  /\ subs' = {}
                          /\ toBroker' = << >> /\ toClient' = << Pkt("CONNACK") >>
      BY <2>1 DEF flags
    <3>2. subs = {} /\ toBroker = << Pkt("CONNECT") >> /\ toClient = << >>
      BY <1>0, <2>1, <3>1
    <3>3. p = Pkt("CONNECT")
      BY <3>2 DEF p
    <3>4. p.type = "CONNECT"
      BY <3>3 DEF Pkt
    <3>5. subs' = {}
      BY <2>1, <3>2, <3>4
    <3>6. Answer(p) = Pkt("CONNACK")
      BY <2>3, <3>4
    <3>7. toClient' = << Pkt("CONNACK") >>
      BY <2>1, <3>2, <3>6
    <3>8. toBroker' = << >>
      BY <2>1, <3>2
    <3> QED
      BY <3>5, <3>7, <3>8
  <2>5. Settled'
    <3>1. SUFFICES ASSUME isConnected
                   PROVE  None({"CONNECT"}, toBroker') /\ None({"CONNACK"}, toClient')
      BY <2>1 DEF flags
    <3>2. None({"CONNECT"}, toBroker) /\ None({"CONNACK"}, toClient)
      BY <1>0, <3>1
    <3>3. p.type # "CONNECT" /\ None({"CONNECT"}, toBroker')
      BY <2>1, <3>2, OfTail DEF p
    <3>4. Answer(p).type \notin {"CONNACK"}
      BY <2>2, <2>3, <3>3 DEF Requests
    <3>5. None({"CONNACK"}, Append(toClient, Answer(p)))
      BY <2>1, <2>3, <3>2, <3>4, Appended
    <3> QED
      BY <2>1, <3>3, <3>5
  <2> QED
    BY <1>0, <2>1, <2>4, <2>5
<1>11. ASSUME NEW t \in Topics, BrokerPublishes(t)
       PROVE  Handshake'
  <2> DEFINE q == [type |-> "PUBLISH", topic |-> t]
  <2>1. /\ peer = "up" /\ t \in subs /\ toClient' = Append(toClient, q)
        /\ UNCHANGED << pc, flags, rx, peer, toBroker, subs >>
        /\ toClient \in Seq(Packet) /\ q \in Packet /\ q.type \notin {"CONNACK"}
    BY <1>11, Packets DEF BrokerPublishes, TypeOK
  <2> HIDE DEF q
  <2>2. pc # "connack"
    BY <1>0, <2>1
  <2>3. None({"CONNACK"}, toClient) => None({"CONNACK"}, toClient')
    BY <2>1, Appended
  <2> QED
    BY <1>0, <2>1, <2>2, <2>3 DEF flags
<1>12. CASE ConnackTimesOut \/ ResubackTimesOut
  BY <1>2, <1>12 DEF ConnackTimesOut, ResubackTimesOut, ResubscribeFails, ConnectFails
<1>13. CASE CloudOffline \/ BeginSubscribe \/ SubackTimesOut \/ EndSubscribe \/ BeginYield \/ Reconnect
  BY <1>2, <1>13 DEF CloudOffline, BeginSubscribe, SubackTimesOut, NextTopic, EndSubscribe,
                     BeginYield, Reconnect
<1>14. CASE CloudConnect \/ SysTime \/ PingTimerExpires \/ ReconnectTimerExpires
  BY <1>1, <1>14 DEF CloudConnect, Reset, SysTime, PingTimerExpires, ReconnectTimerExpires, flags
<1> QED
  BY <1>3, <1>4, <1>5, <1>6, <1>7, <1>8, <1>9, <1>10, <1>11, <1>12, <1>13, <1>14 DEF Next, Client

----------------------------------------------------------------------------
(* The ping. *)

LEMMA PingStep ==
  ASSUME TypeOK, Network, Position, Connection, Handshake, PingAccounted, Next
  PROVE  PingAccounted'
<1> DEFINE Asked == One({"PINGREQ"}, toBroker)
           NotAsked == None({"PINGREQ"}, toBroker)
           Coming == OneComing({"PINGRESP"})
           NotComing == NoneComing({"PINGRESP"})
           Accounted ==
             IF isPingOutstanding
             THEN (Asked /\ NotComing) \/ (NotAsked /\ Coming)
             ELSE NotAsked /\ NotComing
<1>0. /\ PingAccounted <=> (isConnected /\ peer = "up" => Accounted)
      /\ PingAccounted' <=> (isConnected' /\ peer' = "up" => Accounted')
  BY DEF PingAccounted
<1>t. toBroker \in Seq(Packet) /\ toClient \in Seq(Packet) /\ rx \in Seq(Packet)
      /\ isPingOutstanding \in BOOLEAN
  BY DEF TypeOK
<1>1. ASSUME UNCHANGED << network, rx, isPingOutstanding >>, isConnected' => isConnected
      PROVE  PingAccounted'
  <2>1. UNCHANGED << Asked, NotAsked, Coming, NotComing, peer >>
    BY <1>1 DEF network, One, None, OneComing, NoneComing
  <2> HIDE DEF Asked, NotAsked, Coming, NotComing
  <2> QED
    BY <1>0, <1>1, <2>1
<1>2. CASE isConnected' = FALSE \/ peer' # "up"
  BY <1>0, <1>2
<1>3. CASE UNCHANGED << network, rx, flags >>
  BY <1>1, <1>3 DEF flags
<1>4. CASE Connack
  <2>1. PICK p \in Packet :
          /\ Receives(p)
          /\ \/ p.type = "CONNACK" /\ Connected
             \/ p.type # "CONNACK" /\ Handles(p)
    BY <1>4 DEF Connack
  <2>2. pc = "connack" /\ ~isConnected
    BY <1>4 DEF Connack, Connection
  <2>3. CASE p.type = "CONNACK"
    <3>1. rx' = << >> /\ toClient' = << >> /\ toBroker' = << >> /\ isPingOutstanding' = FALSE
      BY <2>1, <2>2, <2>3, Greeted DEF Connected
    <3>2. NotAsked' /\ NotComing'
      BY <3>1, NoneOfNothing DEF NoneComing
    <3> QED
      BY <1>0, <3>1, <3>2
  <2>4. CASE p.type # "CONNACK"
    <3>1. isConnected' = isConnected
      BY <2>1, <2>4 DEF Handles
    <3> QED
      BY <1>0, <2>2, <3>1
  <2> QED
    BY <2>3, <2>4
<1>5. ASSUME NEW q \in Packet, q.type # "PINGREQ", Sends(q), UNCHANGED << flags, rx >>
      PROVE  PingAccounted'
  <2>1. peer' = peer /\ toClient' = toClient
    BY <1>5 DEF Sends
  <2>2. Coming' = Coming /\ NotComing' = NotComing
    BY <1>5, <2>1 DEF OneComing, NoneComing, One, None
  <2>3. (Asked => Asked') /\ (NotAsked => NotAsked')
    <3>1. q.type \notin {"PINGREQ"}
      BY <1>5
    <3> QED
      BY <1>5, <1>t, <3>1, Appended DEF Sends
  <2> HIDE DEF Asked, NotAsked, Coming, NotComing
  <2> QED
    BY <1>0, <1>5, <2>1, <2>2, <2>3 DEF flags
<1>6. CASE Subscribe \/ Resubscribe
  <2>1. UNCHANGED << flags, rx >>
    BY <1>6 DEF Subscribe, Resubscribe
  <2>2. CASE UNCHANGED network
    BY <1>3, <2>1, <2>2
  <2>3. ASSUME NEW t \in Topics, Sends([type |-> "SUBSCRIBE", topic |-> t])
        PROVE  PingAccounted'
    BY <1>5, <2>1, <2>3, Packets
  <2> QED
    BY <1>6, <2>2, <2>3, TopicAt DEF Subscribe, Resubscribe
<1>7. CASE Suback \/ Resuback \/ Cycle
  <2>1. isConnected
    BY <1>7 DEF Suback, Resuback, Cycle, Connection
  <2>2. ASSUME NEW p \in Packet, Receives(p), Handles(p)
        PROVE  PingAccounted'
    <3>1. /\ UNCHANGED << peer, toBroker >>
          /\ NotComing => p.type \notin {"PINGRESP"} /\ NotComing'
          /\ Coming /\ p.type \in {"PINGRESP"} => NotComing'
          /\ Coming /\ p.type \notin {"PINGRESP"} => Coming'
      BY <2>2, Received
    <3>2. /\ isConnected' = isConnected
          /\ isPingOutstanding' = (isPingOutstanding /\ p.type # "PINGRESP")
      BY <2>2 DEF Handles
    <3>3. Asked' = Asked /\ NotAsked' = NotAsked
      BY <3>1 DEF One, None
    <3> HIDE DEF Asked, NotAsked, Coming, NotComing
    <3>4. CASE p.type = "PINGRESP"
      BY <1>0, <1>t, <3>1, <3>2, <3>3, <3>4
    <3>5. CASE p.type # "PINGRESP"
      <4>1. isPingOutstanding' = isPingOutstanding
        BY <1>t, <3>2, <3>5
      <4> QED
        BY <1>0, <3>1, <3>2, <3>3, <3>5, <4>1
    <3> QED
      BY <3>4, <3>5
  <2>3. CASE NothingToRead /\ UNCHANGED flags
    BY <1>3, <2>3 DEF NothingToRead
  <2> QED
    BY <1>7, <2>2, <2>3 DEF Suback, Resuback, Cycle
<1>8. CASE Keepalive
  <2>1. rx' = rx /\ isConnected
    BY <1>8 DEF Keepalive, Connection
  <2>2. CASE UNCHANGED << flags, retry, socks, network >>
    BY <1>3, <2>1, <2>2
  <2>3. CASE ~isPingOutstanding /\ SendsPing
    <3>1. SUFFICES ASSUME peer' = "up"
                   PROVE  Accounted'
      BY <1>0
    <3>2. /\ peer = "up" /\ toBroker' = Append(toBroker, Pkt("PINGREQ"))
          /\ toClient' = toClient /\ isPingOutstanding' = TRUE
      BY <2>3, <3>1 DEF SendsPing, Sends
    <3>3. NotAsked /\ NotComing
      BY <1>0, <2>1, <2>3, <3>2
    <3>4. Pkt("PINGREQ") \in Packet /\ Pkt("PINGREQ").type \in {"PINGREQ"}
      BY Packets DEF Pkt
    <3>5. Asked'
      BY <1>t, <3>2, <3>3, <3>4, Appended
    <3>6. NotComing'
      BY <2>1, <3>2, <3>3 DEF NoneComing, None
    <3> QED
      BY <3>2, <3>5, <3>6
  <2>4. CASE HandleDisconnect
    <3>1. isConnected' = FALSE
      BY <2>4 DEF HandleDisconnect, Disconnected
    <3> QED
      BY <1>2, <3>1
  <2> QED
    BY <1>8, <2>2, <2>3, <2>4 DEF Keepalive
<1>9. CASE LongPress
  <2>1. UNCHANGED << isPingOutstanding, rx >>
    BY <1>9 DEF LongPress
  <2>2. CASE UNCHANGED << isConnected, network >>
    BY <1>1, <2>1, <2>2
  <2> QED
    BY <1>2, <1>9, <2>2 DEF LongPress
<1>10. CASE BrokerHandles
  <2> DEFINE p == Head(toBroker)
             r == Answer(p)
  <2>1. /\ toBroker # << >> /\ toBroker' = Tail(toBroker)
        /\ toClient' = Append(toClient, r) /\ UNCHANGED << flags, rx, peer >>
    BY <1>10 DEF BrokerHandles
  <2>2. p \in Packet /\ p.type \in Requests
    BY <1>t, <2>1, Rest DEF Network
  <2>3. /\ r \in Packet
        /\ p.type = "PINGREQ" => r.type \in {"PINGRESP"}
        /\ p.type # "PINGREQ" => r.type \notin {"PINGRESP"}
    <3>1. Pkt("CONNACK").type = "CONNACK"
      BY DEF Pkt
    <3> QED
      BY <2>2, <3>1, Answered DEF Requests
  <2>4. /\ NotAsked => p.type # "PINGREQ" /\ NotAsked'
        /\ Asked /\ p.type = "PINGREQ" => NotAsked'
        /\ Asked /\ p.type # "PINGREQ" => Asked'
    BY <1>t, <2>1, OfTail
  <2> HIDE DEF p, r
  <2>5. NotComing /\ p.type = "PINGREQ" => Coming'
    <3>1. NotComing /\ p.type = "PINGREQ" =>
            One({"PINGRESP"}, toClient') /\ None({"PINGRESP"}, rx')
      BY <1>t, <2>1, <2>3, Appended DEF NoneComing
    <3> QED
      BY <3>1 DEF OneComing
  <2>6. NotComing /\ p.type # "PINGREQ" => NotComing'
    BY <1>t, <2>1, <2>3, Appended DEF NoneComing
  <2>7. Coming /\ p.type # "PINGREQ" => Coming'
    BY <1>t, <2>1, <2>3, Appended DEF OneComing
  <2>8. UNCHANGED << isConnected, isPingOutstanding, peer >>
    BY <2>1 DEF flags
  <2> HIDE DEF Asked, NotAsked, Coming, NotComing
  <2> QED
    BY <1>0, <2>4, <2>5, <2>6, <2>7, <2>8
<1>11. ASSUME NEW t \in Topics, BrokerPublishes(t)
       PROVE  PingAccounted'
  <2> DEFINE q == [type |-> "PUBLISH", topic |-> t]
  <2>1. /\ toClient' = Append(toClient, q) /\ q \in Packet /\ q.type \notin {"PINGRESP"}
        /\ UNCHANGED << flags, rx, peer, toBroker >>
    BY <1>11, Packets DEF BrokerPublishes
  <2> HIDE DEF q
  <2>2. Asked' = Asked /\ NotAsked' = NotAsked
    BY <2>1 DEF One, None
  <2>3. NotComing => NotComing'
    BY <1>t, <2>1, Appended DEF NoneComing
  <2>4. Coming => Coming'
    BY <1>t, <2>1, Appended DEF OneComing
  <2>5. UNCHANGED << isConnected, isPingOutstanding, peer >>
    BY <2>1 DEF flags
  <2> HIDE DEF Asked, NotAsked, Coming, NotComing
  <2> QED
    BY <1>0, <2>2, <2>3, <2>4, <2>5
<1>12. CASE CloudConnect \/ TlsConnect \/ LinkLost
  <2>1. isConnected' = FALSE \/ peer' # "up"
    BY <1>12 DEF CloudConnect, Reset, TlsConnect, flags, Connection, LinkLost
  <2> QED
    BY <1>2, <2>1
<1>13. CASE CloudOffline \/ ConnackTimesOut \/ BeginSubscribe \/ SubackTimesOut \/ EndSubscribe
            \/ ResubackTimesOut \/ BeginYield \/ Reconnect \/ SysTime \/ ReconnectTimerExpires
  BY <1>3, <1>13 DEF CloudOffline, ConnackTimesOut, BeginSubscribe, SubackTimesOut, EndSubscribe,
                     ResubackTimesOut, BeginYield, Reconnect, SysTime, ReconnectTimerExpires
<1>14. CASE PingTimerExpires
  BY <1>1, <1>14 DEF PingTimerExpires
<1> QED
  BY <1>4, <1>6, <1>7, <1>8, <1>9, <1>10, <1>11, <1>12, <1>13, <1>14 DEF Next, Client

----------------------------------------------------------------------------
(* Subscribing again. *)

LEMMA ResubscriptionStep ==
  ASSUME IInv, Next
  PROVE  Resubscription' /\ ResubscribedSoFar'
<1> DEFINE Coming == OneComing(Subacks)
           NotComing == NoneComing(Subacks)
           Awaited ==
             \/ /\ toBroker = << [type |-> "SUBSCRIBE", topic |-> messageHandlers[itr]] >>
                /\ NotComing
             \/ toBroker = << >> /\ messageHandlers[itr] \in subs /\ Coming
           Done == \A i \in 1 .. itr - 1 : i <= Len(messageHandlers) => messageHandlers[i] \in subs
<1>0. /\ Resubscription <=>
           (pc \in {"resub", "resuback"} /\ peer = "up" =>
             (pc = "resub" => toBroker = << >> /\ NotComing) /\ (pc = "resuback" => Awaited))
      /\ Resubscription' <=>
           (pc' \in {"resub", "resuback"} /\ peer' = "up" =>
             (pc' = "resub" => toBroker' = << >> /\ NotComing') /\ (pc' = "resuback" => Awaited'))
      /\ ResubscribedSoFar <=> (pc \in {"resub", "resuback"} /\ peer = "up" => Done)
      /\ ResubscribedSoFar' <=> (pc' \in {"resub", "resuback"} /\ peer' = "up" => Done')
  BY DEF Resubscription, ResubscribedSoFar
<1>t. /\ TypeOK /\ Network /\ Position /\ Connection /\ Handshake
      /\ Resubscription /\ ResubscribedSoFar
      /\ toBroker \in Seq(Packet) /\ toClient \in Seq(Packet) /\ rx \in Seq(Packet)
      /\ itr \in Nat
  BY DEF IInv, TypeOK
<1>1. CASE UNCHANGED << pc, itr, messageHandlers, network, rx >>
  <2>1. /\ NotComing' = NotComing /\ Coming' = Coming
        /\ UNCHANGED << pc, itr, messageHandlers, peer, toBroker, subs >>
    BY <1>1 DEF network, NoneComing, OneComing, None, One, Subacks
  <2>2. Done' = Done /\ Awaited' = Awaited
    BY <2>1
  <2> HIDE DEF NotComing, Coming, Done, Awaited
  <2> QED
    BY <1>0, <1>t, <2>1, <2>2
<1>2. CASE pc' \notin {"resub", "resuback"} \/ peer' # "up"
  BY <1>0, <1>2
<1>3. CASE Connack
  <2>1. SUFFICES ASSUME pc' \in {"resub", "resuback"}
                 PROVE  Resubscription' /\ ResubscribedSoFar'
    BY <1>2
  <2>2. PICK p \in Packet : Receives(p) /\ p.type = "CONNACK" /\ pc' = "resub" /\ itr' = 1
    BY <1>3, <2>1 DEF Connack
  <2>3. rx' = << >> /\ toClient' = << >> /\ toBroker' = << >>
    BY <1>3, <1>t, <2>2, Greeted DEF Connack
  <2>4. NotComing'
    BY <2>3, NoneOfNothing DEF NoneComing
  <2>5. Done'
    BY <2>2
  <2> HIDE DEF NotComing, Done, Awaited
  <2> QED
    BY <1>0, <2>2, <2>3, <2>4, <2>5
<1>4. CASE Resubscribe
  <2>1. SUFFICES ASSUME pc' \in {"resub", "resuback"}, peer' = "up"
                 PROVE  Resubscription' /\ ResubscribedSoFar'
    BY <1>2
  <2> DEFINE q == [type |-> "SUBSCRIBE", topic |-> messageHandlers[itr]]
  <2>2. /\ pc = "resub" /\ pc' = "resuback" /\ Sends(q)
        /\ UNCHANGED << itr, rx, messageHandlers >>
    BY <1>4, <2>1 DEF Resubscribe, ResubscribeFails
  <2>3. peer = "up" /\ toBroker' = Append(toBroker, q) /\ UNCHANGED << toClient, subs >>
    BY <2>1, <2>2 DEF Sends
  <2>4. toBroker = << >> /\ NotComing /\ Done
    BY <1>0, <1>t, <2>2, <2>3
  <2>5. toBroker' = << q >>
    BY <2>3, <2>4
  <2>6. NotComing'
    BY <2>2, <2>3, <2>4 DEF NoneComing, None
  <2>7. Done'
    BY <2>2, <2>3, <2>4
  <2>8. Awaited'
    BY <2>2, <2>5, <2>6
  <2> HIDE DEF NotComing, Done, Awaited
  <2> QED
    BY <1>0, <2>2, <2>7, <2>8
<1>5. CASE Resuback
  <2>1. PICK p \in Packet :
          /\ Receives(p)
          /\ \/ p.type = "SUBACK" /\ pc' = "resub" /\ itr' = itr + 1
             \/ p.type # "SUBACK" /\ UNCHANGED << pc, itr >>
    BY <1>5 DEF Resuback
  <2>2. pc = "resuback" /\ messageHandlers' = messageHandlers
    BY <1>5 DEF Resuback
  <2>3. /\ UNCHANGED << peer, toBroker, subs >>
        /\ NotComing => p.type \notin Subacks /\ NotComing'
        /\ Coming /\ p.type \in Subacks => NotComing'
        /\ Coming /\ p.type \notin Subacks => Coming'
    BY <1>t, <2>1, Received
  <2>4. SUFFICES ASSUME peer = "up"
                 PROVE  Resubscription' /\ ResubscribedSoFar'
    BY <1>2, <2>3
  <2>5. Awaited /\ Done
    BY <1>0, <1>t, <2>2, <2>4
  <2>6. CASE p.type = "SUBACK"
    <3>1. toBroker = << >> /\ messageHandlers[itr] \in subs /\ NotComing'
      BY <2>3, <2>5, <2>6 DEF Subacks
    <3>2. Done'
      <4>1. itr' = itr + 1
        BY <2>1, <2>6
      <4>2. \A i \in 1 .. itr' - 1 : i \in 1 .. itr - 1 \/ i = itr
        BY <1>t, <4>1
      <4> QED
        BY <2>2, <2>3, <2>5, <3>1, <4>2
    <3>3. pc' = "resub" /\ toBroker' = << >>
      BY <2>1, <2>3, <2>6, <3>1
    <3> HIDE DEF NotComing, Done, Awaited
    <3> QED
      BY <1>0, <3>1, <3>2, <3>3
  <2>7. CASE p.type # "SUBACK"
    <3>1. UNCHANGED << pc, itr >>
      BY <2>1, <2>7
    <3>2. Done'
      BY <2>2, <2>3, <2>5, <3>1
    <3>3. Awaited'
      BY <2>2, <2>3, <2>5, <2>7, <3>1 DEF Subacks
    <3> HIDE DEF NotComing, Done, Awaited
    <3> QED
      BY <1>0, <2>2, <3>1, <3>2, <3>3
  <2> QED
    BY <2>6, <2>7
<1>6. CASE BrokerHandles
  <2> DEFINE p == Head(toBroker)
  <2>1. /\ toBroker # << >> /\ toBroker' = Tail(toBroker) /\ peer = "up"
        /\ toClient' = Append(toClient, Answer(p))
        /\ UNCHANGED << pc, itr, messageHandlers, rx, peer >>
        /\ subs' = IF p.type = "SUBSCRIBE" THEN subs \cup {p.topic} ELSE subs
    BY <1>6 DEF BrokerHandles
  <2>2. SUFFICES ASSUME pc \in {"resub", "resuback"}
                 PROVE  Resubscription' /\ ResubscribedSoFar'
    BY <1>2, <2>1
  <2>3. pc = "resuback" /\ Awaited /\ Done
    BY <1>0, <1>t, <2>1, <2>2
  <2>4. /\ toBroker = << [type |-> "SUBSCRIBE", topic |-> messageHandlers[itr]] >>
        /\ NotComing
    BY <2>1, <2>3
  <2>5. p = [type |-> "SUBSCRIBE", topic |-> messageHandlers[itr]] /\ toBroker' = << >>
    BY <2>1, <2>4
  <2>6. subs' = subs \cup {messageHandlers[itr]}
    BY <2>1, <2>5
  <2>7. p \in Packet /\ p.type \in Requests /\ p.type = "SUBSCRIBE"
    BY <1>t, <2>1, <2>5, Rest DEF Requests
  <2>8. Answer(p) \in Packet /\ Answer(p).type \in Subacks
    BY <2>7, Answered DEF Subacks
  <2> HIDE DEF p
  <2>9. One(Subacks, toClient') /\ None(Subacks, rx')
    BY <1>t, <2>1, <2>4, <2>8, Appended DEF NoneComing
  <2>10. Coming'
    BY <2>9 DEF OneComing, Subacks
  <2>11. messageHandlers'[itr'] \in subs'
    BY <2>1, <2>6
  <2>12. Done'
    BY <2>1, <2>3, <2>6
  <2>13. Awaited'
    BY <2>5, <2>10, <2>11
  <2> HIDE DEF Coming, NotComing, Done, Awaited
  <2> QED
    BY <1>0, <2>1, <2>3, <2>12, <2>13
<1>7. ASSUME NEW t \in Topics, BrokerPublishes(t)
      PROVE  Resubscription' /\ ResubscribedSoFar'
  <2> DEFINE q == [type |-> "PUBLISH", topic |-> t]
  <2>1. /\ toClient' = Append(toClient, q) /\ q \in Packet /\ q.type \notin Subacks
        /\ UNCHANGED << pc, itr, messageHandlers, rx, peer, toBroker, subs >>
    BY <1>7, Packets DEF BrokerPublishes, Subacks
  <2> HIDE DEF q
  <2>2. NotComing => NotComing'
    BY <1>t, <2>1, Appended DEF NoneComing, Subacks
  <2>3. Coming => Coming'
    BY <1>t, <2>1, Appended DEF OneComing, Subacks
  <2>4. (Done => Done') /\ (Awaited => Awaited')
    BY <2>1, <2>2, <2>3
  <2> HIDE DEF Coming, NotComing, Done, Awaited
  <2> QED
    BY <1>0, <1>t, <2>1, <2>2, <2>4
<1>8. CASE Suback \/ SubackTimesOut \/ Subscribe \/ Cycle \/ Keepalive
  <2>1. pc' \notin {"resub", "resuback"}
    BY <1>8 DEF Suback, SubackTimesOut, Subscribe, NextTopic, Cycle, Keepalive
  <2> QED
    BY <1>2, <2>1
<1>9. CASE TlsConnect \/ ConnackTimesOut \/ ResubackTimesOut
  <2>1. pc' \notin {"resub", "resuback"}
    BY <1>9 DEF TlsConnect, NoSocket, Refused, TlsUp, ConnackTimesOut, ResubackTimesOut,
                ConnectFails, ResubscribeFails
  <2> QED
    BY <1>2, <2>1
<1>10. CASE LongPress \/ LinkLost
  <2>1. pc' \notin {"resub", "resuback"} \/ peer' # "up"
    BY <1>10 DEF LongPress, LinkLost
  <2> QED
    BY <1>2, <2>1
<1>11. CASE CloudOffline \/ CloudConnect \/ BeginSubscribe \/ EndSubscribe \/ BeginYield \/ Reconnect
  <2>1. pc' \notin {"resub", "resuback"}
    BY <1>11 DEF CloudOffline, CloudConnect, BeginSubscribe, EndSubscribe, BeginYield, Reconnect
  <2> QED
    BY <1>2, <2>1
<1>12. CASE SysTime \/ PingTimerExpires \/ ReconnectTimerExpires
  BY <1>1, <1>12 DEF SysTime, PingTimerExpires, ReconnectTimerExpires
<1> QED
  BY <1>3, <1>4, <1>5, <1>6, <1>7, <1>8, <1>9, <1>10, <1>11, <1>12 DEF Next, Client

LEMMA InvariantStep ==
  ASSUME IInv, [Next]_vars
  PROVE  IInv'
<1>1. CASE Next
  <2>1. TypeOK /\ Network /\ Position /\ Connection /\ ConnectedMayReconnect
        /\ Handshake /\ PingAccounted
    BY DEF IInv
  <2>2. TypeOK' /\ Network' /\ Position' /\ Handshake'
    BY <1>1, <2>1, TypeStep, NetworkStep, PositionStep, HandshakeStep
  <2>3. Connection' /\ ConnectedMayReconnect' /\ PingAccounted'
    BY <1>1, <2>1, ConnectionStep, PingStep
  <2>4. Resubscription' /\ ResubscribedSoFar'
    BY <1>1, ResubscriptionStep
  <2> QED
    BY <2>2, <2>3, <2>4 DEF IInv
<1>2. CASE UNCHANGED vars
  <2>1. UNCHANGED << pc, task, caller, itr, isConnected, isAutoReconnectEnabled,
                     wasManuallyDisconnected, isPingOutstanding, pingTimer,
                     reconnectDelayTimer, interval, messageHandlers, sockets, mine,
                     refusals, peer, toBroker, toClient, rx, subs, faults >>
    BY <1>2 DEF vars, flags, retry, socks, network
  <2>2. TypeOK' /\ Network' /\ Position' /\ Connection' /\ ConnectedMayReconnect'
    BY <2>1 DEF IInv, TypeOK, Network, Position, Connection, ConnectedMayReconnect
  <2>3. Handshake' /\ PingAccounted'
    BY <2>1 DEF IInv, Handshake, PingAccounted, NoneComing, OneComing, None, One
  <2>4. Resubscription' /\ ResubscribedSoFar'
    BY <2>1 DEF IInv, Resubscription, ResubscribedSoFar, NoneComing, OneComing, None, One, Subacks
  <2> QED
    BY <2>2, <2>3, <2>4 DEF IInv
<1> QED
  BY <1>1, <1>2

LEMMA InvariantInit ==
  ASSUME Init
  PROVE  IInv
<1> USE DEF Init
<1>1. TypeOK
  <2>1. << >> \in Seq(Packet) /\ << >> \in Seq(Topics)
    BY EmptySeq
  <2>2. 0 \in 0 .. MaxSockets /\ 0 \in 0 .. MaxRefusals
    BY BoundAssumption
  <2> QED
    BY <2>1, <2>2 DEF TypeOK, Pcs
<1>2. Network
  <2>1. DOMAIN toBroker = {}
    BY EmptySeq, LenProperties
  <2> QED
    BY <2>1 DEF Network
<1>3. Handshake
  BY NoneOfNothing DEF Handshake
<1>4. Position /\ Connection /\ ConnectedMayReconnect
  BY DEF Position, Connection, ConnectedMayReconnect
<1>5. PingAccounted /\ Resubscription /\ ResubscribedSoFar
  BY DEF PingAccounted, Resubscription, ResubscribedSoFar
<1> QED
  BY <1>1, <1>2, <1>3, <1>4, <1>5 DEF IInv

\* Whatever the faults, every reachable state of the client satisfies IInv.
THEOREM Invariance == Spec => []IInv
<1>1. Init => IInv
  BY InvariantInit
<1>2. IInv /\ [Next]_vars => IInv'
  BY InvariantStep
<1> QED
  BY <1>1, <1>2, PTL DEF Spec

\* The client's variables keep their types; in particular the driver never
\* holds more than TCP_SOCK_MAX sockets for it.
THEOREM TypeCorrect == Spec => []TypeOK
<1>1. IInv => TypeOK
  BY DEF IInv
<1> QED
  BY <1>1, Invariance, PTL

\* A client that counts as connected has a socket, and MQTTYield may reconnect it.
THEOREM ConnectedMayAlwaysReconnect == Spec => []ConnectedMayReconnect
<1>1. IInv => ConnectedMayReconnect
  BY DEF IInv
<1> QED
  BY <1>1, Invariance, PTL

\* keepalive drops a connection only over a ping that it sent on it and that is
\* not answered yet.
THEOREM PingAlwaysAccounted == Spec => []PingAccounted
<1>1. IInv => PingAccounted
  BY DEF IInv
<1> QED
  BY <1>1, Invariance, PTL

\* The SUBACKs MQTTResubscribe takes are those of the topics it asks for, though
\* it compares neither topics nor packet identifiers.
THEOREM ResubscriptionIsComplete == Spec => []ResubscribedSoFar
<1>1. IInv => ResubscribedSoFar
  BY DEF IInv
<1> QED
  BY <1>1, Invariance, PTL

----------------------------------------------------------------------------
(* The topics of the table. *)

\* A client that is about to connect for the task has an empty table.
Fresh == pc \in {"tls", "connack"} /\ caller = "cloud" => messageHandlers = << >>

\* Every topic of the table is subscribed; while MQTTSubscribe waits, its SUBSCRIBE
\* is on the way, or the SUBACK of one that is handled.  There is none otherwise.
Unasked == None({"SUBSCRIBE"}, toBroker) /\ NoneComing(Subacks)
Sent ==
  /\ One({"SUBSCRIBE"}, toBroker) /\ NoneComing(Subacks)
  /\ \A i \in DOMAIN toBroker : toBroker[i].type = "SUBSCRIBE" => toBroker[i].topic = AppTopics[itr]
Granted == None({"SUBSCRIBE"}, toBroker) /\ OneComing(Subacks) /\ AppTopics[itr] \in subs
Subscribed ==
  isConnected /\ peer = "up" =>
    /\ pc \notin {"resub", "resuback"} => Range(messageHandlers) \subseteq subs
    /\ pc \notin {"suback", "resub", "resuback"} => Unasked
    /\ pc = "suback" => Sent \/ Granted

Heard == Unfailing => Fresh /\ Subscribed

LEMMA FreshStep ==
  ASSUME TypeOK, Fresh, Next
  PROVE  Fresh'
<1>1. CASE CloudConnect
  BY <1>1 DEF CloudConnect, Reset, Fresh
<1>2. CASE TlsConnect \/ Connack \/ ConnackTimesOut
  <2>1. pc \in {"tls", "connack"} /\ UNCHANGED << caller, messageHandlers >>
    BY <1>2 DEF TlsConnect, Connack, ConnackTimesOut
  <2> QED
    BY <2>1 DEF Fresh
<1>3. CASE \/ BeginSubscribe \/ Subscribe \/ Suback \/ SubackTimesOut \/ EndSubscribe
           \/ Resubscribe \/ Resuback \/ ResubackTimesOut \/ BeginYield \/ Cycle \/ Keepalive
  <2>1. pc' \notin {"tls", "connack"}
    BY <1>3 DEF BeginSubscribe, Subscribe, Suback, SubackTimesOut, EndSubscribe, NextTopic,
         Resubscribe, Resuback, ResubackTimesOut, ResubscribeFails, BeginYield, Cycle, Keepalive
  <2> QED
    BY <2>1 DEF Fresh
<1>4. CASE Reconnect
  BY <1>4 DEF Reconnect, Fresh
<1>5. CASE \/ CloudOffline \/ LongPress \/ SysTime \/ LinkLost \/ BrokerHandles
           \/ PingTimerExpires \/ ReconnectTimerExpires \/ \E t \in Topics : BrokerPublishes(t)
  <2>1. UNCHANGED << pc, caller, messageHandlers >>
    BY <1>5 DEF CloudOffline, LongPress, SysTime, LinkLost, BrokerHandles, BrokerPublishes,
         PingTimerExpires, ReconnectTimerExpires
  <2> QED
    BY <2>1 DEF Fresh
<1> QED
  BY <1>1, <1>2, <1>3, <1>4, <1>5 DEF Next, Client

\* A topic that is added to the table.
LEMMA TopicAdded ==
  ASSUME NEW h \in Seq(Topics), NEW t \in Topics
  PROVE  Range(Append(h, t)) = Range(h) \cup {t}
<1>1. /\ DOMAIN Append(h, t) = 1 .. Len(h) + 1 /\ DOMAIN h = 1 .. Len(h) /\ Len(h) \in Nat
      /\ \A i \in 1 .. Len(h) : Append(h, t)[i] = h[i]
      /\ Append(h, t)[Len(h) + 1] = t
  BY AppendProperties, LenProperties
<1>2. 1 .. Len(h) + 1 = (1 .. Len(h)) \cup {Len(h) + 1}
  BY <1>1
<1> QED
  BY <1>1, <1>2 DEF Range

\* A request is taken from the broker's end, one is added at the client's.
LEMMA RestNamed ==
  ASSUME TypeOK, toBroker # << >>, NEW t,
         \A i \in DOMAIN toBroker : toBroker[i].type = "SUBSCRIBE" => toBroker[i].topic = t
  PROVE  LET s == Tail(toBroker)
         IN  \A i \in DOMAIN s : s[i].type = "SUBSCRIBE" => s[i].topic = t
<1>1. toBroker \in Seq(Packet)
  BY DEF TypeOK
<1>2. Tail(toBroker) = SubSeq(toBroker, 2, Len(toBroker)) /\ Len(toBroker) \in Nat \ {0}
  BY <1>1, Rest
<1>3. 2 \in Nat \ {0} /\ Len(toBroker) \in 0 .. Len(toBroker)
  BY <1>2
<1>4. \A i \in DOMAIN Tail(toBroker) : 2 + i - 1 \in DOMAIN toBroker /\ Tail(toBroker)[i] = toBroker[2 + i - 1]
  BY <1>1, <1>2, <1>3, Part
<1> QED
  BY <1>4

LEMMA AppendNamed ==
  ASSUME TypeOK, None({"SUBSCRIBE"}, toBroker), NEW t \in Topics
  PROVE  LET s == Append(toBroker, [type |-> "SUBSCRIBE", topic |-> t])
         IN  \A i \in DOMAIN s : s[i].type = "SUBSCRIBE" => s[i].topic = t
<1> DEFINE q == [type |-> "SUBSCRIBE", topic |-> t]
<1>1. toBroker \in Seq(Packet) /\ q \in Packet
  BY Packets DEF TypeOK
<1>2. /\ DOMAIN Append(toBroker, q) = 1 .. Len(toBroker) + 1 /\ DOMAIN toBroker = 1 .. Len(toBroker)
      /\ Len(toBroker) \in Nat
      /\ \A i \in 1 .. Len(toBroker) : Append(toBroker, q)[i] = toBroker[i]
      /\ Append(toBroker, q)[Len(toBroker) + 1] = q
  BY <1>1, AppendProperties, LenProperties
<1>3. ASSUME NEW i \in 1 .. Len(toBroker) + 1, Append(toBroker, q)[i].type = "SUBSCRIBE"
      PROVE  Append(toBroker, q)[i].topic = t
  <2>1. CASE i = Len(toBroker) + 1
    BY <1>2, <2>1
  <2>2. CASE i \in 1 .. Len(toBroker)
    BY <1>2, <1>3, <2>2 DEF None
  <2> QED
    BY <1>2, <2>1, <2>2
<1> QED
  BY <1>2, <1>3

LEMMA SubscribedStep ==
  ASSUME IInv, Fresh, Subscribed, Unfailing, Next
  PROVE  Subscribed'
<1> DEFINE Asking == One({"SUBSCRIBE"}, toBroker)
           NotAsking == None({"SUBSCRIBE"}, toBroker)
           Coming == OneComing(Subacks)
           NotComing == NoneComing(Subacks)
           Named == \A i \in DOMAIN toBroker :
                      toBroker[i].type = "SUBSCRIBE" => toBroker[i].topic = AppTopics[itr]
           Waited == (Asking /\ NotComing /\ Named) \/ (NotAsking /\ Coming /\ AppTopics[itr] \in subs)
           All == Range(messageHandlers) \subseteq subs
           Body ==
             /\ pc \notin {"resub", "resuback"} => All
             /\ pc \notin {"suback", "resub", "resuback"} => NotAsking /\ NotComing
             /\ pc = "suback" => Waited
<1>0. /\ Subscribed <=> (isConnected /\ peer = "up" => Body)
      /\ Subscribed' <=> (isConnected' /\ peer' = "up" => Body')
  BY DEF Subscribed, Unasked, Sent, Granted
<1>t. /\ TypeOK /\ Network /\ Position /\ Connection /\ Handshake
      /\ toBroker \in Seq(Packet) /\ toClient \in Seq(Packet) /\ rx \in Seq(Packet)
      /\ messageHandlers \in Seq(Topics)
  BY DEF IInv, TypeOK
<1>1. ASSUME UNCHANGED << network, rx, messageHandlers >>, isConnected' => isConnected,
             pc' # pc => pc \notin {"suback", "resub", "resuback"},
             pc' = "suback" => pc = "suback" /\ UNCHANGED itr
      PROVE  Subscribed'
  <2>1. UNCHANGED << Asking, NotAsking, Coming, NotComing, All, peer >>
    BY <1>1 DEF network, One, None, OneComing, NoneComing
  <2>2. pc' = "suback" => Named' = Named /\ (AppTopics[itr] \in subs)' = (AppTopics[itr] \in subs)
    BY <1>1 DEF network
  <2> HIDE DEF Asking, NotAsking, Coming, NotComing, Named, All
  <2> QED
    BY <1>0, <1>1, <2>1, <2>2
<1>2. CASE isConnected' = FALSE \/ peer' # "up" \/ pc' \in {"resub", "resuback"}
  BY <1>0, <1>2
<1>3. CASE Connack
  <2>1. PICK p \in Packet :
          /\ Receives(p)
          /\ \/ /\ p.type = "CONNACK" /\ ((caller = "cloud" /\ pc' = "app") \/ pc' = "resub")
             \/ p.type # "CONNACK" /\ Handles(p)
    BY <1>3 DEF Connack
  <2>2. pc = "connack" /\ ~isConnected /\ UNCHANGED messageHandlers
    BY <1>3, <1>t DEF Connack, Connection
  <2>3. CASE p.type = "CONNACK" /\ caller = "cloud" /\ pc' = "app"
    <3>1. rx' = << >> /\ toClient' = << >> /\ toBroker' = << >>
      BY <1>t, <2>1, <2>2, <2>3, Greeted
    <3>2. NotAsking' /\ NotComing'
      BY <3>1, NoneOfNothing DEF NoneComing
    <3>3. messageHandlers' = << >>
      BY <2>2, <2>3 DEF Fresh
    <3>4. All'
      BY <3>3 DEF Range
    <3> QED
      BY <1>0, <2>3, <3>2, <3>4
  <2>4. CASE p.type # "CONNACK"
    <3>1. isConnected' = isConnected
      BY <2>1, <2>4 DEF Handles
    <3> QED
      BY <1>0, <2>2, <3>1
  <2> QED
    BY <1>2, <2>1, <2>3, <2>4
<1>4. CASE Subscribe
  <2>1. pc = "subscribe" /\ UNCHANGED << isConnected, rx, messageHandlers >>
    BY <1>4 DEF Subscribe, flags
  <2>2. CASE NextTopic /\ UNCHANGED network
    BY <1>1, <2>1, <2>2 DEF NextTopic
  <2> DEFINE t == AppTopics[itr]
             q == [type |-> "SUBSCRIBE", topic |-> t]
  <2>3. CASE Sends(q) /\ pc' = "suback" /\ UNCHANGED itr
    <3>1. SUFFICES ASSUME isConnected', peer' = "up"
                   PROVE  Body'
      BY <1>0
    <3>2. /\ peer = "up" /\ toBroker' = Append(toBroker, q) /\ UNCHANGED << toClient, subs >>
      BY <2>3, <3>1 DEF Sends
    <3>3. All /\ NotAsking /\ NotComing
      BY <1>0, <2>1, <3>1, <3>2
    <3>4. t \in Topics /\ q \in Packet /\ q.type \in {"SUBSCRIBE"}
      BY <1>4, <1>t, TopicAt, Packets
    <3>5. Asking'
      BY <1>t, <3>2, <3>3, <3>4, Appended
    <3>6. NotComing'
      BY <2>1, <3>2, <3>3 DEF NoneComing, None
    <3>7. Named'
      BY <1>t, <2>3, <3>2, <3>3, <3>4, AppendNamed
    <3>8. All'
      BY <2>1, <3>2, <3>3
    <3> HIDE DEF Asking, NotAsking, Coming, NotComing, Named, All
    <3> QED
      BY <2>3, <3>5, <3>6, <3>7, <3>8
  <2> QED
    BY <1>4, <2>2, <2>3 DEF Subscribe
<1>5. CASE Suback
  <2>1. PICK p \in Packet :
          /\ Receives(p) /\ Handles(p)
          /\ \/ /\ p.type = "SUBACK" /\ pc' = "subscribe"
                /\ messageHandlers' = Append(messageHandlers, AppTopics[itr])
             \/ p.type # "SUBACK" /\ UNCHANGED << pc, itr, messageHandlers >>
    BY <1>5 DEF Suback, NextTopic
  <2>2. pc = "suback" /\ UNCHANGED isConnected /\ AppTopics[itr] \in Topics
    BY <1>5, <1>t, <2>1, TopicAt DEF Suback, Handles
  <2>3. /\ UNCHANGED << peer, toBroker, subs >>
        /\ NotComing => p.type \notin Subacks /\ NotComing'
        /\ Coming /\ p.type \in Subacks => NotComing'
        /\ Coming /\ p.type \notin Subacks => Coming'
    BY <1>t, <2>1, Received
  <2>4. NotAsking' = NotAsking /\ Asking' = Asking
    BY <2>3 DEF One, None
  <2>5. SUFFICES ASSUME isConnected', peer' = "up"
                 PROVE  Body'
    BY <1>0
  <2>6. All /\ Waited
    BY <1>0, <2>2, <2>3, <2>5
  <2>7. CASE p.type = "SUBACK"
    <3>1. NotAsking' /\ NotComing' /\ AppTopics[itr] \in subs
      BY <2>3, <2>4, <2>6, <2>7 DEF Subacks
    <3>2. pc' = "subscribe" /\ messageHandlers' = Append(messageHandlers, AppTopics[itr]) /\ subs' = subs
      BY <2>1, <2>3, <2>7
    <3>3. Range(Append(messageHandlers, AppTopics[itr])) = Range(messageHandlers) \cup {AppTopics[itr]}
      BY <1>t, <2>2, TopicAdded
    <3>4. All'
      BY <2>6, <3>1, <3>2, <3>3
    <3> HIDE DEF Asking, NotAsking, Coming, NotComing, Named, All
    <3> QED
      BY <3>1, <3>2, <3>4
  <2>8. CASE p.type # "SUBACK"
    <3>1. UNCHANGED << pc, itr, messageHandlers >> /\ p.type \notin Subacks
      BY <2>1, <2>8 DEF Subacks
    <3>2. All' /\ Named' = Named /\ (AppTopics[itr] \in subs)' = (AppTopics[itr] \in subs)
      BY <2>3, <2>6, <3>1
    <3>3. Waited'
      BY <2>3, <2>4, <2>6, <3>1, <3>2
    <3> HIDE DEF Asking, NotAsking, Coming, NotComing, Named, All, Waited
    <3> QED
      BY <2>2, <3>1, <3>2, <3>3
  <2> QED
    BY <2>7, <2>8
<1>6. CASE SubackTimesOut \/ ResubackTimesOut
  <2>1. peer # "up" /\ UNCHANGED network
    BY <1>6 DEF SubackTimesOut, ResubackTimesOut, TimesOut, Unfailing
  <2> QED
    BY <1>2, <2>1 DEF network
<1>7. CASE Resubscribe
  <2>1. pc = "resub" /\ UNCHANGED << isConnected, messageHandlers, rx >>
    BY <1>7 DEF Resubscribe, flags
  <2>2. CASE SendFails /\ UNCHANGED network
    BY <1>2, <2>2 DEF SendFails, Unfailing, network
  <2>3. CASE itr > Len(messageHandlers) /\ pc' = "loop" /\ UNCHANGED network
    <3>1. SUFFICES ASSUME peer = "up"
                   PROVE  Body'
      BY <1>0, <2>3 DEF network
    <3>2. toBroker = << >> /\ NotComing
      BY <2>1, <3>1 DEF IInv, Resubscription
    <3>3. \A i \in 1 .. itr - 1 : i <= Len(messageHandlers) => messageHandlers[i] \in subs
      BY <2>1, <3>1 DEF IInv, ResubscribedSoFar
    <3>4. itr \in Nat /\ Len(messageHandlers) \in Nat /\ DOMAIN messageHandlers = 1 .. Len(messageHandlers)
      BY <1>t, LenProperties DEF TypeOK
    <3>5. All
      BY <2>3, <3>3, <3>4 DEF Range
    <3>6. NotAsking
      BY <3>2, NoneOfNothing
    <3>7. All' /\ NotAsking' /\ NotComing'
      BY <2>1, <2>3, <3>2, <3>5, <3>6 DEF network, NoneComing, None
    <3> HIDE DEF Asking, NotAsking, Coming, NotComing, Named, All
    <3> QED
      BY <2>3, <3>7
  <2>4. CASE pc' = "resuback"
    BY <1>2, <2>4
  <2> QED
    BY <1>7, <2>2, <2>3, <2>4 DEF Resubscribe
<1>8. CASE Resuback
  <2>1. pc' \in {"resub", "resuback"}
    BY <1>8 DEF Resuback
  <2> QED
    BY <1>2, <2>1
<1>9. CASE Cycle
  <2>1. pc = "loop" /\ pc' \in {"app", "keepalive"} /\ UNCHANGED messageHandlers
    BY <1>9 DEF Cycle
  <2>2. CASE NothingToRead /\ UNCHANGED flags
    BY <1>1, <2>1, <2>2 DEF NothingToRead, flags
  <2>3. ASSUME NEW p \in Packet, Receives(p), Handles(p)
        PROVE  Subscribed'
    <3>1. UNCHANGED << isConnected, peer, toBroker, subs >> /\ (NotComing => NotComing')
      BY <1>t, <2>3, Received DEF Handles
    <3>2. NotAsking' = NotAsking /\ All' = All
      BY <2>1, <3>1 DEF None
    <3> HIDE DEF Asking, NotAsking, Coming, NotComing, Named, All
    <3> QED
      BY <1>0, <2>1, <3>1, <3>2
  <2> QED
    BY <1>9, <2>2, <2>3 DEF Cycle
<1>10. CASE Keepalive
  <2>1. pc = "keepalive" /\ pc' \in {"loop", "app"} /\ UNCHANGED << rx, messageHandlers >>
    BY <1>10 DEF Keepalive
  <2>2. CASE UNCHANGED << flags, retry, socks, network >>
    BY <1>1, <2>1, <2>2 DEF flags
  <2>3. CASE SendsPing
    <3>1. SUFFICES ASSUME isConnected', peer' = "up"
                   PROVE  Body'
      BY <1>0
    <3>2. /\ peer = "up" /\ toBroker' = Append(toBroker, Pkt("PINGREQ"))
          /\ UNCHANGED << toClient, subs, isConnected >>
      BY <2>3, <3>1 DEF SendsPing, Sends
    <3>3. All /\ NotAsking /\ NotComing
      BY <1>0, <2>1, <3>1, <3>2
    <3>4. Pkt("PINGREQ") \in Packet /\ Pkt("PINGREQ").type \notin {"SUBSCRIBE"}
      BY Packets DEF Pkt
    <3>5. NotAsking'
      BY <1>t, <3>2, <3>3, <3>4, Appended
    <3>6. NotComing' /\ All'
      BY <2>1, <3>2, <3>3 DEF NoneComing, None
    <3> HIDE DEF Asking, NotAsking, Coming, NotComing, Named, All
    <3> QED
      BY <2>1, <3>5, <3>6
  <2>4. CASE HandleDisconnect
    <3>1. isConnected' = FALSE
      BY <2>4 DEF HandleDisconnect, Disconnected
    <3> QED
      BY <1>2, <3>1
  <2> QED
    BY <1>10, <2>2, <2>3, <2>4 DEF Keepalive
<1>11. CASE LongPress
  <2>1. UNCHANGED << pc, itr, rx, messageHandlers >>
    BY <1>11 DEF LongPress
  <2>2. CASE UNCHANGED << isConnected, network >>
    BY <1>1, <2>1, <2>2
  <2> QED
    BY <1>2, <1>11, <2>2 DEF LongPress
<1>12. CASE BrokerHandles
  <2> DEFINE p == Head(toBroker)
             r == Answer(p)
  <2>1. /\ toBroker # << >> /\ toBroker' = Tail(toBroker) /\ peer = "up"
        /\ toClient' = Append(toClient, r)
        /\ UNCHANGED << pc, itr, isConnected, messageHandlers, rx, peer >>
        /\ subs' = IF p.type = "SUBSCRIBE" THEN subs \cup {p.topic} ELSE subs
    BY <1>12 DEF BrokerHandles, flags
  <2>2. p \in Packet /\ p.type \in Requests /\ p = toBroker[1] /\ 1 \in DOMAIN toBroker
    BY <1>t, <2>1, Rest DEF Network
  <2>3. /\ r \in Packet
        /\ p.type = "SUBSCRIBE" => r.type \in Subacks
        /\ p.type # "SUBSCRIBE" => r.type \notin Subacks
    <3>1. Pkt("CONNACK").type = "CONNACK"
      BY DEF Pkt
    <3> QED
      BY <2>2, <3>1, Answered DEF Requests, Subacks
  <2>4. /\ NotAsking => p.type # "SUBSCRIBE" /\ NotAsking'
        /\ Asking /\ p.type = "SUBSCRIBE" => NotAsking'
        /\ Asking /\ p.type # "SUBSCRIBE" => Asking'
    BY <1>t, <2>1, OfTail
  <2>5. Named => Named' /\ (p.type = "SUBSCRIBE" => AppTopics[itr] \in subs')
    BY <1>t, <2>1, <2>2, RestNamed
  <2>6. All => All'
    BY <2>1
  <2>7. AppTopics[itr] \in subs => (AppTopics[itr] \in subs)'
    BY <2>1
  <2> HIDE DEF p, r
  <2>8. NotComing /\ p.type = "SUBSCRIBE" => Coming'
    <3>1. NotComing /\ p.type = "SUBSCRIBE" => One(Subacks, toClient') /\ None(Subacks, rx')
      BY <1>t, <2>1, <2>3, Appended DEF NoneComing
    <3> QED
      BY <3>1 DEF OneComing, Subacks
  <2>9. NotComing /\ p.type # "SUBSCRIBE" => NotComing'
    BY <1>t, <2>1, <2>3, Appended DEF NoneComing, Subacks
  <2>10. Coming /\ p.type # "SUBSCRIBE" => Coming'
    BY <1>t, <2>1, <2>3, Appended DEF OneComing, Subacks
  <2>11. (AppTopics[itr] \in subs)' <=> AppTopics[itr] \in subs'
    BY <2>1
  <2> HIDE DEF Asking, NotAsking, Coming, NotComing, Named, All
  <2>12. Waited => Waited'
    BY <2>4, <2>5, <2>7, <2>8, <2>9, <2>10, <2>11
  <2> QED
    BY <1>0, <2>1, <2>4, <2>6, <2>9, <2>12
<1>13. ASSUME NEW t \in Topics, BrokerPublishes(t)
       PROVE  Subscribed'
  <2> DEFINE q == [type |-> "PUBLISH", topic |-> t]
  <2>1. /\ toClient' = Append(toClient, q) /\ q \in Packet /\ q.type \notin Subacks
        /\ UNCHANGED << pc, itr, isConnected, messageHandlers, rx, peer, toBroker, subs >>
    BY <1>13, Packets DEF BrokerPublishes, Subacks, flags
  <2> HIDE DEF q
  <2>2. NotComing => NotComing'
    BY <1>t, <2>1, Appended DEF NoneComing, Subacks
  <2>3. Coming => Coming'
    BY <1>t, <2>1, Appended DEF OneComing, Subacks
  <2>4. /\ Asking' = Asking /\ NotAsking' = NotAsking /\ All' = All /\ Named' = Named
        /\ (AppTopics[itr] \in subs)' = (AppTopics[itr] \in subs)
    BY <2>1 DEF One, None
  <2> HIDE DEF Asking, NotAsking, Coming, NotComing, Named, All
  <2>5. Waited => Waited'
    BY <2>2, <2>3, <2>4
  <2> QED
    BY <1>0, <2>1, <2>2, <2>4, <2>5
<1>14. CASE CloudConnect \/ TlsConnect \/ LinkLost \/ ConnackTimesOut \/ Reconnect
  <2>1. isConnected' = FALSE \/ peer' # "up"
    BY <1>14, <1>t DEF CloudConnect, Reset, TlsConnect, ConnackTimesOut, Reconnect, flags, Connection,
                       LinkLost, TypeOK
  <2> QED
    BY <1>2, <2>1
<1>15. CASE CloudOffline \/ BeginSubscribe \/ EndSubscribe \/ BeginYield \/ SysTime
            \/ PingTimerExpires \/ ReconnectTimerExpires
  <2>1. /\ UNCHANGED << network, rx, messageHandlers, isConnected >>
        /\ pc' # pc => pc \notin {"suback", "resub", "resuback"}
        /\ pc' = "suback" => pc = "suback" /\ UNCHANGED itr
    BY <1>15 DEF CloudOffline, BeginSubscribe, EndSubscribe, BeginYield, SysTime, PingTimerExpires,
                 ReconnectTimerExpires, flags
  <2> QED
    BY <1>1, <2>1
<1> QED
  BY <1>3, <1>4, <1>5, <1>6, <1>7, <1>8, <1>9, <1>10, <1>11, <1>12, <1>13, <1>14, <1>15 DEF Next, Client

\* While calls are answered in time, the board hears every topic it has a handler
\* for, whatever connections it lost and made on the way.
THEOREM TableIsAlwaysSubscribed == Spec => []TableIsSubscribed
<1>1. Init => Heard
  BY DEF Init, Heard, Fresh, Subscribed
<1>2. IInv /\ Heard /\ [Next]_vars => Heard'
  <2>1. SUFFICES ASSUME IInv, Heard, [Next]_vars, Unfailing'
                 PROVE  Fresh' /\ Subscribed'
    BY DEF Heard
  <2>2. CASE UNCHANGED vars
    <3>1. UNCHANGED << pc, caller, itr, isConnected, messageHandlers, peer, toBroker, toClient, rx,
                       subs, faults >>
      BY <2>2 DEF vars, flags, network
    <3>2. Unfailing
      BY <2>1, <3>1 DEF Unfailing
    <3>3. Fresh' /\ Subscribed'
      BY <2>1, <3>1, <3>2 DEF Heard, Fresh, Subscribed, Unasked, Sent, Granted, NoneComing, OneComing,
                              None, One, Subacks
    <3> QED
      BY <3>3
  <2>3. CASE Next
    <3>1. Unfailing
      BY <2>1, <2>3 DEF Unfailing, Next, Client, LongPress, SysTime, LinkLost, BrokerHandles,
                        BrokerPublishes, PingTimerExpires, ReconnectTimerExpires
    <3> QED
      BY <2>1, <2>3, <3>1, FreshStep, SubscribedStep DEF Heard, IInv
  <2> QED
    BY <2>1, <2>2, <2>3
<1>3. Heard => TableIsSubscribed
  BY DEF Heard, Subscribed, TableIsSubscribed
<1> QED
  BY <1>1, <1>2, <1>3, Invariance, PTL DEF Spec

----------------------------------------------------------------------------
(* SUBACKs that are late. *)

\* Where answers are never late, a SUBSCRIBE or its SUBACK is on the way only
\* while the client waits for it, and never more than one.
Asked ==
  \/ One({"SUBSCRIBE"}, toBroker) /\ NoneComing(Subacks)
  \/ None({"SUBSCRIBE"}, toBroker) /\ OneComing(Subacks)
Awaited == IF pc \in {"suback", "resuback"} THEN Asked \/ Unasked ELSE Unasked
Owed == "slow" \notin faults => Awaited

\* A connection ends: what was on the way is lost, what was read is not.
LEMMA OwedLost ==
  ASSUME Asked \/ Unasked, toBroker' = << >>, toClient' = << >>, rx' = rx
  PROVE  (Asked \/ Unasked)' /\ (Unasked => Unasked')
<1>1. None({"SUBSCRIBE"}, toBroker)' /\ None(Subacks, toClient)'
  BY NoneOfNothing DEF Subacks
<1>2. None(Subacks, rx) => Unasked'
  BY <1>1 DEF Unasked, NoneComing, None, Subacks
<1>3. One(Subacks, rx) => Asked'
  BY <1>1 DEF Asked, OneComing, None, One, Subacks
<1> QED
  BY <1>2, <1>3 DEF Asked, Unasked, NoneComing, OneComing

\* A packet is received: only a SUBACK settles what was asked.
LEMMA OwedReceived ==
  ASSUME TypeOK, Asked \/ Unasked, NEW p \in Packet, Receives(p)
  PROVE  /\ (Asked \/ Unasked)' /\ (Unasked => Unasked')
         /\ p.type = "SUBACK" => Unasked'
<1>1. /\ UNCHANGED toBroker
      /\ NoneComing(Subacks) => p.type \notin Subacks /\ NoneComing(Subacks)'
      /\ OneComing(Subacks) /\ p.type \in Subacks => NoneComing(Subacks)'
      /\ OneComing(Subacks) /\ p.type \notin Subacks => OneComing(Subacks)'
  BY Received
<1>2. /\ One({"SUBSCRIBE"}, toBroker)' = One({"SUBSCRIBE"}, toBroker)
      /\ None({"SUBSCRIBE"}, toBroker)' = None({"SUBSCRIBE"}, toBroker)
  BY <1>1 DEF One, None
<1>3. p.type = "SUBACK" <=> p.type \in Subacks
  BY DEF Subacks
<1> QED
  BY <1>1, <1>2, <1>3 DEF Asked, Unasked

\* The broker handles a request: a SUBSCRIBE becomes its SUBACK.
LEMMA OwedHandled ==
  ASSUME TypeOK, Network, Asked \/ Unasked, BrokerHandles
  PROVE  (Asked \/ Unasked)' /\ (Unasked => Unasked')
<1> DEFINE p == Head(toBroker)
           r == Answer(p)
           Asking == One({"SUBSCRIBE"}, toBroker)
           NotAsking == None({"SUBSCRIBE"}, toBroker)
           Coming == OneComing(Subacks)
           NotComing == NoneComing(Subacks)
<1>t. toBroker \in Seq(Packet) /\ toClient \in Seq(Packet) /\ rx \in Seq(Packet)
  BY DEF TypeOK
<1>1. /\ toBroker # << >> /\ toBroker' = Tail(toBroker) /\ toClient' = Append(toClient, r)
      /\ UNCHANGED rx
  BY DEF BrokerHandles
<1>2. p \in Packet /\ p.type \in Requests
  BY <1>t, <1>1, Rest DEF Network
<1>3. /\ r \in Packet
      /\ p.type = "SUBSCRIBE" => r.type \in Subacks
      /\ p.type # "SUBSCRIBE" => r.type \notin Subacks
  <2>1. Pkt("CONNACK").type = "CONNACK"
    BY DEF Pkt
  <2> QED
    BY <1>2, <2>1, Answered DEF Requests, Subacks
<1>4. /\ NotAsking => p.type # "SUBSCRIBE" /\ NotAsking'
      /\ Asking /\ p.type = "SUBSCRIBE" => NotAsking'
      /\ Asking /\ p.type # "SUBSCRIBE" => Asking'
  BY <1>t, <1>1, OfTail
<1> HIDE DEF p, r
<1>5. NotComing /\ p.type = "SUBSCRIBE" => Coming'
  <2>1. NotComing /\ p.type = "SUBSCRIBE" => One(Subacks, toClient') /\ None(Subacks, rx')
    BY <1>t, <1>1, <1>3, Appended DEF NoneComing
  <2> QED
    BY <2>1 DEF OneComing, Subacks
<1>6. NotComing /\ p.type # "SUBSCRIBE" => NotComing'
  BY <1>t, <1>1, <1>3, Appended DEF NoneComing, Subacks
<1>7. Coming /\ p.type # "SUBSCRIBE" => Coming'
  BY <1>t, <1>1, <1>3, Appended DEF OneComing, Subacks
<1>8. /\ Asked <=> (Asking /\ NotComing) \/ (NotAsking /\ Coming)
      /\ Unasked <=> NotAsking /\ NotComing
      /\ Asked' <=> (Asking' /\ NotComing') \/ (NotAsking' /\ Coming')
      /\ Unasked' <=> NotAsking' /\ NotComing'
  BY DEF Asked, Unasked
<1> HIDE DEF Asking, NotAsking, Coming, NotComing
<1> QED
  BY <1>4, <1>5, <1>6, <1>7, <1>8

LEMMA OwedStep ==
  ASSUME TypeOK, Network, Position, Owed, Next
  PROVE  Owed'
<1>f. UNCHANGED faults
  BY DEF Next, Client, LongPress, SysTime, LinkLost, BrokerHandles, BrokerPublishes,
         PingTimerExpires, ReconnectTimerExpires
<1> SUFFICES ASSUME "slow" \notin faults
             PROVE  Awaited'
  BY <1>f DEF Owed
<1>t. /\ toBroker \in Seq(Packet) /\ toClient \in Seq(Packet) /\ rx \in Seq(Packet)
      /\ Awaited /\ (Asked \/ Unasked)
      /\ pc \notin {"suback", "resuback"} => Unasked
  BY DEF TypeOK, Owed, Awaited
<1>1. ASSUME (Asked \/ Unasked)', Unasked => Unasked',
             pc' \in {"suback", "resuback"} \/ pc \notin {"suback", "resuback"}
      PROVE  Awaited'
  BY <1>1, <1>t DEF Awaited
<1>2. ASSUME UNCHANGED << toBroker, toClient, rx >>
      PROVE  (Asked \/ Unasked)' /\ (Unasked => Unasked')
  BY <1>2, <1>t DEF Asked, Unasked, NoneComing, OneComing, None, One
<1>3. CASE \/ CloudOffline \/ CloudConnect \/ ConnackTimesOut \/ BeginSubscribe \/ EndSubscribe
           \/ BeginYield \/ Reconnect \/ SysTime \/ PingTimerExpires \/ ReconnectTimerExpires
  <2>1. /\ UNCHANGED << toBroker, toClient, rx >>
        /\ UNCHANGED pc \/ pc \notin {"suback", "resuback"}
    BY <1>3 DEF CloudOffline, CloudConnect, ConnackTimesOut, BeginSubscribe, EndSubscribe,
         BeginYield, Reconnect, SysTime, PingTimerExpires, ReconnectTimerExpires, network
  <2> QED
    BY <1>1, <1>2, <2>1
<1>4. CASE TlsConnect
  <2>1. /\ pc = "tls" /\ toClient' = << >> /\ UNCHANGED rx
        /\ toBroker' \in {<< >>, << Pkt("CONNECT") >>}
    BY <1>4 DEF TlsConnect, NoSocket, Refused, TlsUp
  <2>2. Unasked
    BY <1>t, <2>1
  <2>3. None({"SUBSCRIBE"}, toBroker)'
    <3>1. CASE toBroker' = << >>
      BY <3>1, NoneOfNothing
    <3>2. CASE toBroker' = << Pkt("CONNECT") >>
      <4>1. Append(<< >>, Pkt("CONNECT")) = << Pkt("CONNECT") >>
        OBVIOUS
      <4>2. Pkt("CONNECT") \in Packet /\ Pkt("CONNECT").type \notin {"SUBSCRIBE"} /\ << >> \in Seq(Packet)
        BY Packets, EmptySeq DEF Pkt
      <4>3. None({"SUBSCRIBE"}, Append(<< >>, Pkt("CONNECT")))
        BY <4>2, NoneOfNothing, Appended
      <4> QED
        BY <3>2, <4>1, <4>3
    <3> QED
      BY <2>1, <3>1, <3>2
  <2>4. NoneComing(Subacks)'
    <3>1. None(Subacks, toClient')
      BY <2>1, NoneOfNothing
    <3> QED
      BY <2>1, <2>2, <3>1 DEF Unasked, NoneComing, None, Subacks
  <2> QED
    BY <1>1, <2>1, <2>3, <2>4 DEF Unasked
<1>5. CASE Connack
  <2>1. PICK p \in Packet : Receives(p)
    BY <1>5 DEF Connack
  <2>2. pc = "connack"
    BY <1>5 DEF Connack
  <2> QED
    BY <1>1, <1>t, <2>1, <2>2, OwedReceived
<1>6. CASE Suback \/ Resuback
  <2>1. PICK p \in Packet :
          Receives(p) /\ (p.type # "SUBACK" => UNCHANGED pc)
    BY <1>6 DEF Suback, Resuback
  <2>2. pc \in {"suback", "resuback"}
    BY <1>6 DEF Suback, Resuback
  <2>3. (Asked \/ Unasked)' /\ (Unasked => Unasked') /\ (p.type = "SUBACK" => Unasked')
    BY <1>t, <2>1, OwedReceived
  <2>4. CASE p.type = "SUBACK"
    BY <2>3, <2>4 DEF Awaited
  <2>5. CASE p.type # "SUBACK"
    BY <2>1, <2>2, <2>3, <2>5 DEF Awaited
  <2> QED
    BY <2>4, <2>5
<1>7. CASE Cycle
  <2>1. pc = "loop"
    BY <1>7 DEF Cycle
  <2>2. CASE NothingToRead
    BY <1>1, <1>2, <2>1, <2>2 DEF NothingToRead, network
  <2>3. ASSUME NEW p \in Packet, Receives(p)
        PROVE  Awaited'
    BY <1>1, <1>t, <2>1, <2>3, OwedReceived
  <2> QED
    BY <1>7, <2>2, <2>3 DEF Cycle
<1>8. CASE SubackTimesOut \/ ResubackTimesOut
  <2>1. peer # "up" /\ rx = << >> /\ UNCHANGED << toBroker, toClient, rx >>
    BY <1>8 DEF SubackTimesOut, ResubackTimesOut, TimesOut, network
  <2>2. toBroker' = << >> /\ toClient' = << >> /\ rx' = << >>
    BY <2>1 DEF Network
  <2>3. Unasked'
    BY <2>2, NoneOfNothing DEF Unasked, NoneComing
  <2> QED
    BY <2>3 DEF Awaited
<1>9. CASE Subscribe \/ Resubscribe
  <2>1. pc \in {"subscribe", "resub"} /\ UNCHANGED rx /\ Unasked
    BY <1>9, <1>t DEF Subscribe, Resubscribe
  <2>2. CASE UNCHANGED network
    BY <1>1, <1>2, <2>1, <2>2 DEF network
  <2>3. ASSUME NEW t \in Topics, Sends([type |-> "SUBSCRIBE", topic |-> t]),
               pc' \in {"suback", "resuback"}
        PROVE  Awaited'
    <3> DEFINE q == [type |-> "SUBSCRIBE", topic |-> t]
    <3>1. CASE peer # "up"
      BY <1>1, <1>2, <2>1, <2>3, <3>1 DEF Sends
    <3>2. CASE peer = "up"
      <4>1. toBroker' = Append(toBroker, q) /\ UNCHANGED toClient
        BY <2>3, <3>2 DEF Sends
      <4>2. q \in Packet /\ q.type \in {"SUBSCRIBE"}
        BY Packets
      <4>3. One({"SUBSCRIBE"}, toBroker)'
        BY <1>t, <2>1, <4>1, <4>2, Appended DEF Unasked
      <4>4. NoneComing(Subacks)'
        BY <2>1, <4>1 DEF Unasked, NoneComing, None, Subacks
      <4> QED
        BY <2>3, <4>3, <4>4 DEF Awaited, Asked
    <3> QED
      BY <3>1, <3>2
  <2>4. CASE Subscribe
    <3>1. AppTopics[itr] \in Topics
      BY <2>4, TopicAt
    <3> QED
      BY <2>2, <2>3, <2>4, <3>1 DEF Subscribe
  <2>5. CASE Resubscribe
    <3>1. itr <= Len(messageHandlers) => messageHandlers[itr] \in Topics
      BY <2>5, TopicAt
    <3> QED
      BY <2>2, <2>3, <2>5, <3>1 DEF Resubscribe
  <2> QED
    BY <1>9, <2>4, <2>5
<1>10. CASE Keepalive
  <2>1. pc = "keepalive" /\ pc' \in {"loop", "app"} /\ UNCHANGED rx /\ Unasked
    BY <1>10, <1>t DEF Keepalive
  <2>2. CASE UNCHANGED << flags, retry, socks, network >>
    BY <1>1, <1>2, <2>1, <2>2 DEF network
  <2>3. CASE SendsPing
    <3>1. CASE peer # "up"
      BY <1>1, <1>2, <2>1, <2>3, <3>1 DEF SendsPing, Sends
    <3>2. CASE peer = "up"
      <4>1. toBroker' = Append(toBroker, Pkt("PINGREQ")) /\ UNCHANGED toClient
        BY <2>3, <3>2 DEF SendsPing, Sends
      <4>2. Pkt("PINGREQ") \in Packet /\ Pkt("PINGREQ").type \notin {"SUBSCRIBE"}
        BY Packets DEF Pkt
      <4>3. None({"SUBSCRIBE"}, toBroker)'
        BY <1>t, <2>1, <4>1, <4>2, Appended DEF Unasked
      <4>4. NoneComing(Subacks)'
        BY <2>1, <4>1 DEF Unasked, NoneComing, None, Subacks
      <4> QED
        BY <2>1, <4>3, <4>4 DEF Awaited, Unasked
    <3> QED
      BY <3>1, <3>2
  <2>4. CASE HandleDisconnect
    <3>1. toBroker' = << >> /\ toClient' = << >>
      BY <2>4 DEF HandleDisconnect, Disconnected, ClosesSocket
    <3> QED
      BY <1>1, <1>t, <2>1, <3>1, OwedLost
  <2> QED
    BY <1>10, <2>2, <2>3, <2>4 DEF Keepalive
<1>11. CASE LongPress
  <2>1. pc = "app" /\ UNCHANGED rx
    BY <1>11 DEF LongPress
  <2>2. CASE UNCHANGED << isConnected, wasManuallyDisconnected, socks, network >>
    BY <1>1, <1>2, <2>1, <2>2 DEF network
  <2>3. CASE ClosesSocket
    <3>1. toBroker' = << >> /\ toClient' = << >>
      BY <2>3 DEF ClosesSocket
    <3> QED
      BY <1>1, <1>t, <2>1, <3>1, OwedLost
  <2> QED
    BY <1>11, <2>2, <2>3 DEF LongPress
<1>12. CASE LinkLost
  <2>1. toBroker' = << >> /\ toClient' = << >> /\ UNCHANGED << pc, rx >>
    BY <1>12 DEF LinkLost
  <2> QED
    BY <1>1, <1>t, <2>1, OwedLost
<1>13. CASE BrokerHandles
  <2>1. UNCHANGED pc
    BY <1>13 DEF BrokerHandles
  <2> QED
    BY <1>1, <1>t, <1>13, <2>1, OwedHandled
<1>14. ASSUME NEW t \in Topics, BrokerPublishes(t)
       PROVE  Awaited'
  <2> DEFINE q == [type |-> "PUBLISH", topic |-> t]
  <2>1. /\ toClient' = Append(toClient, q) /\ q \in Packet /\ q.type \notin Subacks
        /\ UNCHANGED << pc, rx, toBroker >>
    BY <1>14, Packets DEF BrokerPublishes, Subacks
  <2> HIDE DEF q
  <2>2. NoneComing(Subacks) => NoneComing(Subacks)'
    BY <1>t, <2>1, Appended DEF NoneComing, Subacks
  <2>3. OneComing(Subacks) => OneComing(Subacks)'
    BY <1>t, <2>1, Appended DEF OneComing, Subacks
  <2>4. /\ One({"SUBSCRIBE"}, toBroker)' = One({"SUBSCRIBE"}, toBroker)
        /\ None({"SUBSCRIBE"}, toBroker)' = None({"SUBSCRIBE"}, toBroker)
    BY <2>1 DEF One, None
  <2> QED
    BY <1>1, <1>t, <2>1, <2>2, <2>3, <2>4 DEF Asked, Unasked
<1> QED
  BY <1>3, <1>4, <1>5, <1>6, <1>7, <1>8, <1>9, <1>10, <1>11, <1>12, <1>13, <1>14 DEF Next, Client

----------------------------------------------------------------------------
(* The table of handlers. *)

Distinct == IsInjective(messageHandlers) /\ Len(messageHandlers) <= MaxHandlers

\* There is no connection, and no SUBACK left of an earlier one: a pass over the
\* topics registers none.
Dead == peer # "up" /\ toClient = << >> /\ None(Subacks, rx)

\* The table is empty when the task begins to subscribe, and then holds topics
\* that were subscribed earlier in the same pass, unless the pass is in vain.
EmptyAtFirst ==
  /\ \/ faults \cap {"away", "again"} = {} /\ task = "CONNECT_CLOUD"
     \/ pc \in {"tls", "connack"} /\ caller = "cloud"
     => messageHandlers = << >>
  /\ pc = "app" /\ task = "MQTT_SUBSCRIBE" => messageHandlers = << >> \/ Dead

OfThisPass ==
  pc \in {"subscribe", "suback"} =>
    \/ Dead
    \/ \A i \in DOMAIN messageHandlers :
         \E j \in DOMAIN AppTopics : j < itr /\ messageHandlers[i] = AppTopics[j]

Table ==
  /\ Distinct /\ EmptyAtFirst /\ OfThisPass
  /\ pc = "suback" => Len(messageHandlers) < MaxHandlers
  /\ task = "AWAY" => "away" \in faults
  /\ pc \in {"subscribe", "suback"} /\ task = "CONNECT_CLOUD" =>
       "away" \in faults \/ "again" \in faults
  /\ pc \in {"loop", "keepalive", "resub", "resuback"} => task # "MQTT_SUBSCRIBE"
  /\ pc \in {"tls", "connack"} /\ caller = "yield" => task # "MQTT_SUBSCRIBE"

\* The thread is in a call of MQTTYield.
Yielding ==
  \/ pc \in {"loop", "keepalive", "resub", "resuback"}
  \/ pc \in {"tls", "connack"} /\ caller = "yield"

\* A step that leaves the table as it is.
LEMMA TableKept ==
  ASSUME TypeOK, Table, UNCHANGED << messageHandlers, faults >>,
         task' \in {task, "MQTT_RUNNING", "AWAY", "CONNECT_CLOUD"},
         task' = "AWAY" => task = "AWAY" \/ "away" \in faults,
         task' = "CONNECT_CLOUD" =>
           task = "CONNECT_CLOUD" \/ "away" \in faults \/ "again" \in faults,
         pc' = "app" /\ task' = "MQTT_SUBSCRIBE" => pc = "app" \/ Yielding,
         pc' \in {"tls", "connack"} /\ caller' = "cloud" =>
           pc \in {"tls", "connack"} /\ caller = "cloud",
         \/ Dead => Dead'
         \/ pc' \notin {"app", "subscribe", "suback"}
         \/ pc' = "app" /\ task' # "MQTT_SUBSCRIBE",
         Yielding' => Yielding \/ task' # "MQTT_SUBSCRIBE",
         pc' \in {"subscribe", "suback"} =>
           pc \in {"subscribe", "suback"} /\ itr' \in {itr, itr + 1},
         pc' = "suback" => pc = "suback" \/ Len(messageHandlers) < MaxHandlers
  PROVE  Table'
<1>1. Distinct'
  BY DEF Table, Distinct
<1>2. EmptyAtFirst'
  BY DEF Table, EmptyAtFirst, Yielding
<1>3. OfThisPass'
  <2>1. SUFFICES ASSUME pc' \in {"subscribe", "suback"}, ~Dead', NEW i \in DOMAIN messageHandlers
                 PROVE  \E j \in DOMAIN AppTopics : j < itr' /\ messageHandlers[i] = AppTopics[j]
    BY DEF OfThisPass
  <2>2. PICK j \in DOMAIN AppTopics : j < itr /\ messageHandlers[i] = AppTopics[j]
    BY <2>1 DEF Table, OfThisPass
  <2>3. j \in Nat
    BY BoundAssumption, LenProperties
  <2>4. j < itr'
    BY <2>1, <2>2, <2>3 DEF TypeOK
  <2> QED
    BY <2>2, <2>4
<1>4. /\ pc' = "suback" => Len(messageHandlers') < MaxHandlers
      /\ task' = "AWAY" => "away" \in faults'
      /\ Yielding' => task' # "MQTT_SUBSCRIBE"
  BY DEF Table, Yielding
<1> QED
  BY <1>1, <1>2, <1>3, <1>4 DEF Table, Yielding

\* A step that empties the table, or leaves it empty.
LEMMA TableEmptied ==
  ASSUME Table, messageHandlers' = << >>, UNCHANGED faults, pc' # "suback",
         task' \in {task, "MQTT_SUBSCRIBE"},
         Yielding' => task' # "MQTT_SUBSCRIBE",
         pc' = "subscribe" => task' = "MQTT_SUBSCRIBE"
  PROVE  Table'
<1>1. DOMAIN messageHandlers' = {} /\ Len(messageHandlers') = 0
  BY EmptySeq, LenProperties
<1>2. Distinct'
  BY <1>1, BoundAssumption DEF Distinct, IsInjective
<1>3. EmptyAtFirst' /\ OfThisPass'
  BY <1>1 DEF EmptyAtFirst, OfThisPass
<1> QED
  BY <1>2, <1>3 DEF Table, Yielding

\* The topic of a SUBACK that MQTTSubscribe waited for is added.
LEMMA TableFilled ==
  ASSUME TypeOK, Position, Table, ~Dead, pc = "suback", pc' = "subscribe", itr' = itr + 1,
         messageHandlers' = Append(messageHandlers, AppTopics[itr]),
         UNCHANGED << task, caller, faults >>
  PROVE  Table'
<1> DEFINE h == messageHandlers
           n == Len(messageHandlers)
           x == AppTopics[itr]
<1>1. DOMAIN AppTopics = 1 .. Len(AppTopics) /\ Len(AppTopics) \in Nat
  BY BoundAssumption, LenProperties
<1>2. itr \in DOMAIN AppTopics /\ itr \in Nat
  BY <1>1 DEF TypeOK, Position
<1>3. x \in Topics
  BY <1>1, <1>2, BoundAssumption, ElementOfSeq DEF Topics
<1>4. h \in Seq(Topics) /\ n < MaxHandlers
  BY DEF TypeOK, Table
<1>5. /\ DOMAIN h = 1 .. n /\ n \in Nat /\ DOMAIN h' = 1 .. n + 1 /\ Len(h') = n + 1
      /\ \A i \in 1 .. n : h'[i] = h[i]
      /\ h'[n + 1] = x
  BY <1>3, <1>4, AppendProperties, LenProperties
<1>6. \A i \in 1 .. n : \E j \in DOMAIN AppTopics : j < itr /\ h[i] = AppTopics[j]
  BY <1>5 DEF Table, OfThisPass
<1>7. \A i \in 1 .. n : h[i] # x
  <2>1. SUFFICES ASSUME NEW i \in 1 .. n, h[i] = x
                 PROVE  FALSE
    OBVIOUS
  <2>2. PICK j \in DOMAIN AppTopics : j < itr /\ h[i] = AppTopics[j]
    BY <1>6
  <2>3. j = itr
    BY <1>2, <2>1, <2>2, BoundAssumption DEF IsInjective
  <2> QED
    BY <1>2, <2>2, <2>3
<1> HIDE DEF h, n, x
<1>8. IsInjective(h')
  <2>1. \A a, b \in 1 .. n : h[a] = h[b] => a = b
    BY <1>5 DEF Table, Distinct, IsInjective, h
  <2>2. ASSUME NEW a \in 1 .. n + 1, NEW b \in 1 .. n + 1, h'[a] = h'[b]
        PROVE  a = b
    <3>1. CASE a \in 1 .. n /\ b \in 1 .. n
      BY <1>5, <2>1, <2>2, <3>1
    <3>2. CASE a = n + 1 /\ b = n + 1
      BY <3>2
    <3>3. CASE a \in 1 .. n /\ b = n + 1
      BY <1>5, <1>7, <2>2, <3>3
    <3>4. CASE a = n + 1 /\ b \in 1 .. n
      BY <1>5, <1>7, <2>2, <3>4
    <3> QED
      BY <1>5, <2>2, <3>1, <3>2, <3>3, <3>4
  <2> QED
    BY <1>5, <2>2 DEF IsInjective
<1>9. Len(h') <= MaxHandlers
  BY <1>4, <1>5, BoundAssumption
<1>10. \A i \in DOMAIN h' : \E j \in DOMAIN AppTopics : j < itr' /\ h'[i] = AppTopics[j]
  <2>1. SUFFICES ASSUME NEW i \in 1 .. n + 1
                 PROVE  \E j \in DOMAIN AppTopics : j < itr' /\ h'[i] = AppTopics[j]
    BY <1>5
  <2>2. CASE i = n + 1
    <3>1. itr < itr' /\ h'[i] = AppTopics[itr]
      BY <1>2, <1>5, <2>2 DEF x
    <3> QED
      BY <1>2, <3>1
  <2>3. CASE i \in 1 .. n
    <3>1. PICK j \in DOMAIN AppTopics : j < itr /\ h[i] = AppTopics[j]
      BY <1>6, <2>3
    <3>2. j < itr'
      BY <1>1, <1>2, <3>1
    <3> QED
      BY <1>5, <2>3, <3>1, <3>2
  <2> QED
    BY <1>5, <2>2, <2>3
<1>11. Distinct'
  BY <1>8, <1>9 DEF h, Distinct
<1>12. EmptyAtFirst'
  BY DEF EmptyAtFirst, Table
<1>13. OfThisPass'
  BY <1>10 DEF h, OfThisPass
<1> QED
  BY <1>11, <1>12, <1>13 DEF Table

\* A pass in vain begins, or goes on from the task's call of MQTTSubscribe.
LEMMA TableLeft ==
  ASSUME Table, Dead', UNCHANGED << messageHandlers, faults >>,
         task' \in {task, "MQTT_SUBSCRIBE"}, pc \in {"app", "subscribe"},
         pc = "app" => task \in {"CONNECT_CLOUD", "MQTT_SUBSCRIBE"},
         pc' \in {"app", "subscribe"}, task' = "MQTT_SUBSCRIBE"
  PROVE  Table'
<1>1. Distinct'
  BY DEF Table, Distinct
<1>2. EmptyAtFirst' /\ OfThisPass'
  BY DEF EmptyAtFirst, OfThisPass
<1> QED
  BY <1>1, <1>2 DEF Table, Yielding

LEMMA TableStep ==
  ASSUME TypeOK, Network, Position, Table, Owed, Next, Orderly
  PROVE  Table'
<1>f. UNCHANGED faults
  BY DEF Next, Client, LongPress, SysTime, LinkLost, BrokerHandles, BrokerPublishes,
         PingTimerExpires, ReconnectTimerExpires
<1> USE DEF Yielding
<1>1. CASE CloudOffline
  <2>1. CASE messageHandlers = << >>
    BY <1>1, <1>f, <2>1, TableEmptied DEF CloudOffline
  <2>2. CASE messageHandlers # << >>
    <3>1. "slow" \notin faults
      BY <1>1, <2>2 DEF CloudOffline, Orderly, Table, EmptyAtFirst
    <3>2. Dead
      BY <1>1, <3>1 DEF CloudOffline, Owed, Awaited, Unasked, NoneComing, Network, Dead
    <3>3. Dead'
      BY <1>1, <3>2 DEF CloudOffline, Dead, network, None, Subacks
    <3> QED
      BY <1>1, <1>f, <3>3, TableLeft DEF CloudOffline
  <2> QED
    BY <2>1, <2>2
<1>2. CASE CloudConnect
  BY <1>2, <1>f, TableEmptied DEF CloudConnect, Reset
<1>3. CASE TlsConnect \/ Connack \/ ConnackTimesOut
  <2>1. /\ pc \in {"tls", "connack"} /\ UNCHANGED << caller, messageHandlers >>
        /\ \/ pc' = "connack" /\ UNCHANGED task
           \/ caller = "cloud" /\ pc' = "app" /\ task' \in {task, "MQTT_SUBSCRIBE"}
           \/ caller = "yield" /\ pc' \in {"loop", "resub"} /\ UNCHANGED task
    BY <1>3 DEF TlsConnect, NoSocket, Refused, TlsUp, ConnectFails, Connack, ConnackTimesOut
  <2>2. caller \in {"cloud", "yield"}
    BY DEF TypeOK
  <2>3. CASE caller = "cloud"
    <3>1. messageHandlers = << >>
      BY <2>1, <2>3 DEF Table, EmptyAtFirst
    <3> QED
      BY <1>f, <2>1, <2>3, <3>1, TableEmptied
  <2>4. CASE caller = "yield"
    BY <1>f, <2>1, <2>4, TableKept
  <2> QED
    BY <2>2, <2>3, <2>4
<1>4. CASE BeginSubscribe
  <2>1. CASE messageHandlers = << >>
    BY <1>4, <1>f, <2>1, TableEmptied DEF BeginSubscribe
  <2>2. CASE messageHandlers # << >>
    <3>1. Dead'
      BY <1>4, <2>2 DEF BeginSubscribe, Table, EmptyAtFirst, Dead, network, None, Subacks
    <3> QED
      BY <1>4, <1>f, <3>1, TableLeft DEF BeginSubscribe
  <2> QED
    BY <2>1, <2>2
<1>5. CASE Suback
  <2>1. PICK p \in Packet :
          /\ Receives(p)
          /\ \/ /\ p.type = "SUBACK" /\ pc' = "subscribe" /\ itr' = itr + 1
                /\ messageHandlers' = Append(messageHandlers, AppTopics[itr])
             \/ p.type # "SUBACK" /\ UNCHANGED << pc, itr, messageHandlers >>
    BY <1>5 DEF Suback, NextTopic
  <2>2. /\ UNCHANGED peer
        /\ None(Subacks, rx) /\ None(Subacks, toClient) =>
             p.type \notin Subacks /\ None(Subacks, rx')
        /\ toClient = << >> => toClient' = << >>
    BY <2>1, Received
  <2>3. Dead => p.type # "SUBACK" /\ Dead'
    BY <2>2, NoneOfNothing DEF Dead, None, Subacks
  <2>4. CASE p.type = "SUBACK"
    BY <1>5, <1>f, <2>1, <2>3, <2>4, TableFilled DEF Suback
  <2>5. CASE p.type # "SUBACK"
    BY <1>5, <1>f, <2>1, <2>3, <2>5, TableKept DEF Suback
  <2> QED
    BY <2>4, <2>5
<1>6. CASE Subscribe \/ SubackTimesOut
  <2>1. /\ pc \in {"subscribe", "suback"} /\ UNCHANGED << task, caller, messageHandlers >>
        /\ pc' \in {"subscribe", "suback"} /\ itr' \in {itr, itr + 1}
        /\ pc' = "suback" => Len(messageHandlers) < MaxHandlers
    BY <1>6 DEF Subscribe, SubackTimesOut, NextTopic
  <2>2. Dead => Dead'
    BY <1>6 DEF Subscribe, SubackTimesOut, Sends, Dead, network, None, Subacks
  <2> QED
    BY <1>f, <2>1, <2>2, TableKept
<1>7. CASE EndSubscribe
  BY <1>7, <1>f, TableKept DEF EndSubscribe
<1>8. CASE Resubscribe \/ Resuback \/ ResubackTimesOut \/ BeginYield
  <2>1. /\ Yielding \/ (pc = "app" /\ task = "MQTT_RUNNING")
        /\ UNCHANGED << task, caller, messageHandlers >>
        /\ pc' \in {"resub", "resuback", "loop", "app"} /\ (pc' = "app" => task' = "MQTT_RUNNING")
    BY <1>8 DEF Resubscribe, Resuback, ResubackTimesOut, ResubscribeFails, BeginYield
  <2> QED
    BY <1>f, <2>1, TableKept
<1>9. CASE Cycle \/ Keepalive \/ Reconnect
  <2>1. /\ pc \in {"loop", "keepalive"} /\ UNCHANGED << task, messageHandlers >>
        /\ pc' \in {"keepalive", "app", "loop", "tls"}
        /\ pc' = "tls" => caller' = "yield"
        /\ task' # "MQTT_SUBSCRIBE"
    BY <1>9 DEF Cycle, Keepalive, Reconnect, Table
  <2> QED
    BY <1>f, <2>1, TableKept
<1>10. CASE LongPress
  BY <1>10, <1>f, TableKept DEF LongPress
<1>11. CASE SysTime
  <2>1. "away" \in faults \/ "again" \in faults
    BY <1>11 DEF SysTime, Table
  <2>2. Dead => Dead'
    BY <1>11 DEF SysTime, Dead, network, None, Subacks
  <2> QED
    BY <1>11, <1>f, <2>1, <2>2, TableKept DEF SysTime
<1>12. CASE \/ LinkLost \/ BrokerHandles \/ PingTimerExpires \/ ReconnectTimerExpires
            \/ \E t \in Topics : BrokerPublishes(t)
  <2>1. UNCHANGED << pc, task, caller, itr, messageHandlers >>
    BY <1>12 DEF LinkLost, BrokerHandles, BrokerPublishes, PingTimerExpires, ReconnectTimerExpires
  <2>2. Dead => Dead'
    BY <1>12 DEF LinkLost, BrokerHandles, BrokerPublishes, PingTimerExpires, ReconnectTimerExpires,
                 Dead, network, None, Subacks
  <2> QED
    BY <1>f, <2>1, <2>2, TableKept
<1> QED
  BY <1>1, <1>2, <1>3, <1>4, <1>5, <1>6, <1>7, <1>8, <1>9, <1>10, <1>11, <1>12 DEF Next, Client

\* MQTTSubscribe never enters a topic twice and the table of
\* MAX_MESSAGE_HANDLERS entries never overflows, unless three things come
\* together: answers that may be late, a return to CONNECT_CLOUD, and a
\* cloud_connect that finds no station connection.
THEOREM NoTwinsIfOrderly == Spec => []TableHasNoTwins
<1> DEFINE I == Owed /\ (Orderly => Table)
<1>1. Init => I
  <2>1. SUFFICES ASSUME Init
                 PROVE  I
    OBVIOUS
  <2>2. messageHandlers = << >> /\ DOMAIN messageHandlers = {} /\ Len(messageHandlers) = 0
    BY <2>1, EmptySeq, LenProperties DEF Init
  <2>3. Table
    BY <2>1, <2>2, BoundAssumption
       DEF Init, Table, Distinct, IsInjective, EmptyAtFirst, OfThisPass
  <2>4. Owed
    BY <2>1, NoneOfNothing DEF Init, Owed, Awaited, Unasked, NoneComing
  <2> QED
    BY <2>3, <2>4
<1>2. I /\ IInv /\ [Next]_vars => I'
  <2>1. SUFFICES ASSUME I, IInv, [Next]_vars
                 PROVE  I'
    OBVIOUS
  <2>2. TypeOK /\ Network /\ Position
    BY <2>1 DEF IInv
  <2>3. CASE UNCHANGED vars
    <3>1. UNCHANGED << pc, task, caller, itr, messageHandlers, peer, toBroker, toClient, rx, faults >>
      BY <2>3 DEF vars, network
    <3>2. Table => Table'
      BY <3>1 DEF Table, Distinct, EmptyAtFirst, OfThisPass, Dead, None, Subacks
    <3>3. Owed'
      BY <2>1, <3>1 DEF Owed, Awaited, Asked, Unasked, NoneComing, OneComing, None, One, Subacks
    <3> QED
      BY <2>1, <3>1, <3>2, <3>3 DEF Orderly
  <2>4. CASE Next
    <3>1. Orderly' => Orderly
      BY <2>4 DEF Orderly, Next, Client, LongPress, SysTime, LinkLost, BrokerHandles,
                  BrokerPublishes, PingTimerExpires, ReconnectTimerExpires
    <3>2. Orderly => Table'
      BY <2>1, <2>2, <2>4, TableStep
    <3>3. Owed'
      BY <2>1, <2>2, <2>4, OwedStep
    <3> QED
      BY <3>1, <3>2, <3>3
  <2> QED
    BY <2>1, <2>3, <2>4
<1>3. I => TableHasNoTwins
  BY DEF Table, Distinct, TableHasNoTwins
<1> QED
  BY <1>1, <1>2, <1>3, Invariance, PTL DEF Spec
=============================================================================
