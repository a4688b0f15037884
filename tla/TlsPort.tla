------------------------------ MODULE TlsPort ------------------------------
(***************************************************************************)
(* The port of the AWS client to the WINC1500 sockets                      *)
(* (network_winc1500tls_wrapper.c), with readPacket of MQTTClient.c as its *)
(* reader.                                                                 *)
(*                                                                         *)
(* Every operation of the port issues one asynchronous request and spins   *)
(* in wait_for_event until the callback of the expected kind was the last  *)
(* one to run.  Data arrive in a receive buffer from which later reads are *)
(* served.  A byte is a record that says which connection sent it and      *)
(* where it stands, so that a byte read in the wrong place is visible.     *)
(*                                                                         *)
(* Abstracted: contents; the remaining length of a packet takes one byte;  *)
(* addresses; packets longer than the client's own buffer.                 *)
(***************************************************************************)
EXTENDS Integers, SequencesExt

CONSTANTS
  BufSize,      \* sizeof(gau8SocketTestBuffer)
  Wrap,         \* 2^32, the range of received_bytes
  PacketSizes,  \* lengths of the packets the broker sends
  Records,      \* what one RECV event holds: see NextRecord
  MaxRecord,    \* bytes one RECV event holds at most
  MaxStream,    \* bound: bytes the broker sends in one connection
  MaxConns      \* bound: connections

ASSUME SizeAssumption ==
  /\ BufSize \in Nat \ {0} /\ Wrap \in Nat /\ Wrap > BufSize
  /\ PacketSizes \subseteq Nat \ {0, 1}
  /\ MaxRecord \in Nat /\ MaxStream \in Nat /\ MaxConns \in Nat
ASSUME RecordsAssumption == Records \in {"whole", "split"}

VARIABLES
  waiting,         \* the event wait_for_event spins for, or "idle"
  polling,         \* m2m_wifi_handle_events runs the callbacks of its replies
  state, err,      \* state and err; state "none" stands for -1
  gu32HostIp,      \* gu32HostIp # 0
  received_bytes,  \* received_bytes
  buf, buf_ptr,    \* gau8SocketTestBuffer and the offset of buf_ptr in it
  conn, open,      \* number of connections so far; my_socket >= 0
  reader,          \* where readPacket is in its packet
  cursor,          \* the last byte handed to the reader: its connection and place
  faithful,        \* every byte handed over was the one due
  out,             \* bytes the broker has sent and no event holds yet
  sent,            \* number of bytes sent in this connection
  owed, hif        \* replies the controller owes, replies it has raised

portVars   == << state, err, gu32HostIp, received_bytes, buf >>
readerVars == << buf_ptr, reader, cursor, faithful >>
brokerVars == << out, sent >>
vars == << waiting, polling, state, err, gu32HostIp, received_bytes, buf, buf_ptr, conn,
           open, reader, cursor, faithful, out, sent, owed, hif >>

\* The thread is in the client, or in the main loop between polls.
Idle  == waiting = "idle" /\ ~polling

Kinds == {"DNS", "CONNECT", "SEND", "RECV"}
Junk  == [conn |-> 0, pos |-> 0, off |-> 0, size |-> 0]
Byte  == [conn : 0 .. MaxConns, pos : 0 .. MaxStream, off : Nat, size : Nat]
Place(b) == [conn |-> b.conn, pos |-> b.pos]
Reply == [kind : Kinds, ok : BOOLEAN, data : Seq(Byte)]
Start == [phase |-> "header", rem |-> 0]

Init ==
  /\ waiting = "idle" /\ polling = FALSE /\ state = "none" /\ err = FALSE /\ gu32HostIp = FALSE
  /\ received_bytes = 0 /\ buf = [i \in 1 .. BufSize |-> Junk] /\ buf_ptr = 0
  /\ conn = 0 /\ open = FALSE
  /\ reader = Start /\ cursor = Place(Junk) /\ faithful = TRUE
  /\ out = << >> /\ sent = 0
  /\ owed = [k \in Kinds |-> 0] /\ hif = << >>

----------------------------------------------------------------------------
(* The callbacks resolve_cb and socket_cb. *)

\* The driver hands over the data in pieces of the size of the buffer and
\* calls socket_cb for each: the buffer keeps the last piece, over what is
\* left of the one before.
LastPiece(n) == ((n - 1) % BufSize) + 1

Fill(b, data) ==
  LET last == LastPiece(Len(data))
      full == Len(data) - last
  IN  [i \in 1 .. BufSize |->
         IF i <= last THEN data[full + i]
         ELSE IF full > 0 THEN data[full - BufSize + i] ELSE b[i]]

resolve_cb(r) ==
  /\ state' = "DNS" /\ gu32HostIp' = r.ok
  /\ UNCHANGED << err, received_bytes, buf >>

socket_cb(r) ==
  /\ state' = r.kind /\ err' = ~r.ok
  /\ IF r.kind = "RECV" /\ r.ok
     THEN received_bytes' = LastPiece(Len(r.data)) /\ buf' = Fill(buf, r.data)
     ELSE UNCHANGED << received_bytes, buf >>
  /\ UNCHANGED gu32HostIp

\* m2m_wifi_handle_events runs the callbacks of every reply whose interrupt
\* was counted; the state is looked at when it returns.
HandleEvent ==
  /\ hif # << >> /\ hif' = Tail(hif) /\ polling' = TRUE
  /\ \/ Head(hif).kind = "DNS" /\ resolve_cb(Head(hif))
     \/ Head(hif).kind # "DNS" /\ socket_cb(Head(hif))
  /\ UNCHANGED << waiting, conn, open, owed, readerVars, brokerVars >>

\* wait_for_event begins: nothing of what happened before counts.
WaitFor(kind) == waiting' = kind /\ state' = "none" /\ polling' = FALSE

Owe(kind, n) == owed' = [owed EXCEPT ![kind] = @ + n]

----------------------------------------------------------------------------
(* iot_tls_connect, iot_tls_write, iot_tls_disconnect and destroy. *)

\* A reconnection asks for the address of the host once; cloud_connect has
\* asked already, and does not wait for its answer.  Bound: two requests for
\* an address at a time.
TlsConnect(asks) ==
  /\ Idle /\ ~open /\ conn < MaxConns
  /\ asks + owed["DNS"] + Len(hif) <= 2
  /\ WaitFor("DNS") /\ Owe("DNS", asks)
  /\ UNCHANGED << err, gu32HostIp, received_bytes, buf, conn, open, hif >>
  /\ UNCHANGED << readerVars, brokerVars >>

\* Packets are written and connections closed between packets read.
TlsWrite ==
  /\ Idle /\ open /\ reader = Start
  /\ WaitFor("SEND") /\ Owe("SEND", 1)
  /\ UNCHANGED << err, gu32HostIp, received_bytes, buf, conn, open, hif >>
  /\ UNCHANGED << readerVars, brokerVars >>

\* iot_tls_disconnect and iot_tls_destroy: the receive buffer stays as it is.
TlsClose ==
  /\ Idle /\ open /\ reader = Start
  /\ open' = FALSE /\ out' = << >> /\ sent' = 0
  /\ UNCHANGED << portVars, readerVars, waiting, polling, conn, owed, hif >>

----------------------------------------------------------------------------
(* iot_tls_read, called by readPacket and decodePacket. *)

\* The header byte, the remaining length, the rest.
Asks == IF reader.phase = "body" THEN reader.rem ELSE 1

\* memcpy of n bytes from p on, whether the buffer holds them or not.
Copied(b, p, n) == [i \in 1 .. n |-> IF p + i <= BufSize THEN b[p + i] ELSE Junk]

\* Mutant: the length is taken for the number of bytes after the header.
AfterByte_NoBodyless(b) ==
  CASE reader.phase = "header" -> [phase |-> "length", rem |-> 0]
    [] reader.phase = "length" -> [phase |-> "body", rem |-> b.size - 3]
    [] OTHER -> Start

\* A packet's body follows unless there is none.
AfterByte(b) ==
  CASE reader.phase = "header" -> [phase |-> "length", rem |-> 0]
    [] reader.phase = "length" /\ b.size > 2 -> [phase |-> "body", rem |-> b.size - 2]
    [] OTHER -> Start

\* Byte b is the one after byte a: the next of its connection, or the first of
\* a later one.
Follows(b, a) ==
  \/ b.conn = a.conn /\ b.pos = a.pos + 1
  \/ b.conn > a.conn /\ b.pos = 1
InOrder(bytes) ==
  \A i \in 1 .. Len(bytes) : Follows(bytes[i], IF i = 1 THEN cursor ELSE bytes[i - 1])

\* Mutant: the length of the read is not taken off.
HandOver_CountKept(b, n, p) ==
  LET got == Copied(b, p, Asks) IN
  /\ received_bytes' = n
  /\ buf_ptr' = p + Asks
  /\ cursor' = Place(got[Asks])
  /\ faithful' = (faithful /\ InOrder(got))
  /\ reader' = AfterByte(got[1])

\* Mutant: buf_ptr moves by one whatever was read.
HandOver_PointerLags(b, n, p) ==
  LET got == Copied(b, p, Asks) IN
  /\ received_bytes' = (n - Asks) % Wrap
  /\ buf_ptr' = p + 1
  /\ cursor' = Place(got[Asks])
  /\ faithful' = (faithful /\ InOrder(got))
  /\ reader' = AfterByte(got[1])

\* Mutant: what the read leaves is thrown away.
HandOver_Discards(b, n, p) ==
  LET got == Copied(b, p, Asks) IN
  /\ received_bytes' = 0
  /\ buf_ptr' = p + Asks
  /\ cursor' = Place(got[Asks])
  /\ faithful' = (faithful /\ InOrder(got))
  /\ reader' = AfterByte(got[1])

\* The read is served from buffer b, which counts n bytes from p on.
HandOver(b, n, p) ==
  LET got == Copied(b, p, Asks) IN
  /\ received_bytes' = (n - Asks) % Wrap
  /\ buf_ptr' = p + Asks
  /\ cursor' = Place(got[Asks])
  /\ faithful' = (faithful /\ InOrder(got))
  /\ reader' = AfterByte(got[1])

\* Bytes are left from an earlier event: no request.
ReadFromBuffer ==
  /\ Idle /\ open /\ received_bytes # 0
  /\ HandOver(buf, received_bytes, buf_ptr)
  /\ UNCHANGED << waiting, polling, state, err, gu32HostIp, buf, conn, open, owed, hif >>
  /\ UNCHANGED brokerVars

\* Mutant: buf_ptr is not set back to the start of the buffer.
ReadFromSocket_PointerStays ==
  /\ Idle /\ open /\ received_bytes = 0
  /\ WaitFor("RECV") /\ Owe("RECV", 1)
  /\ UNCHANGED << err, gu32HostIp, received_bytes, buf, buf_ptr, conn, open, hif >>
  /\ UNCHANGED << reader, cursor, faithful, brokerVars >>

\* The buffer is empty: recv, and wait for its answer.
ReadFromSocket ==
  /\ Idle /\ open /\ received_bytes = 0
  /\ WaitFor("RECV") /\ Owe("RECV", 1)
  /\ buf_ptr' = 0
  /\ UNCHANGED << err, gu32HostIp, received_bytes, buf, conn, open, hif >>
  /\ UNCHANGED << reader, cursor, faithful, brokerVars >>

\* recv is refused: the read fails, and readPacket with it.
ReadRefused ==
  /\ Idle /\ open /\ received_bytes = 0
  /\ buf_ptr' = 0 /\ reader' = Start
  /\ UNCHANGED << portVars, waiting, polling, conn, open, cursor, faithful, owed, hif >>
  /\ UNCHANGED brokerVars

----------------------------------------------------------------------------
(* What follows a poll: the wait goes on, or the operation that waited does. *)

\* wait_for_event compares the last event of the poll.
StillWaiting ==
  /\ polling /\ polling' = FALSE
  /\ state # waiting
  /\ UNCHANGED << portVars, readerVars, brokerVars, waiting, conn, open, owed, hif >>

WaitEnds(kind) ==
  /\ polling /\ waiting = kind /\ state = kind
  /\ UNCHANGED << err, gu32HostIp, buf, hif, brokerVars >>

\* A resolved host is connected to; connect is refused at times.
AfterDns ==
  /\ WaitEnds("DNS")
  /\ \/ gu32HostIp /\ WaitFor("CONNECT") /\ Owe("CONNECT", 1)
     \/ waiting' = "idle" /\ polling' = FALSE /\ UNCHANGED << state, owed >>
  /\ UNCHANGED << received_bytes, conn, open, readerVars >>

AfterConnect ==
  /\ WaitEnds("CONNECT") /\ waiting' = "idle" /\ polling' = FALSE
  /\ open' = ~err /\ conn' = IF err THEN conn ELSE conn + 1
  /\ UNCHANGED << state, received_bytes, owed, readerVars >>

AfterSend ==
  /\ WaitEnds("SEND") /\ waiting' = "idle" /\ polling' = FALSE
  /\ UNCHANGED << state, received_bytes, owed, conn, open, readerVars >>

\* A read that fails ends readPacket, which will start afresh.
AfterRecv ==
  /\ WaitEnds("RECV") /\ waiting' = "idle" /\ polling' = FALSE
  /\ \/ ~err /\ HandOver(buf, received_bytes, buf_ptr)
     \/ /\ err /\ reader' = Start
        /\ UNCHANGED << received_bytes, buf_ptr, cursor, faithful >>
  /\ UNCHANGED << state, owed, conn, open >>

----------------------------------------------------------------------------
(* The broker and the controller. *)

BrokerSends(size) ==
  /\ open /\ sent + size <= MaxStream
  /\ out' = out \o [i \in 1 .. size |->
               [conn |-> conn, pos |-> sent + i, off |-> i - 1, size |-> size]]
  /\ sent' = sent + size
  /\ UNCHANGED << portVars, readerVars, waiting, polling, conn, open, owed, hif >>

\* The first n bytes sent may make one event: whole packets, or any piece of
\* the stream.
NextRecord(n) ==
  /\ n \in 1 .. Len(out) /\ n <= MaxRecord
  /\ Records = "whole"  => out[n].off = out[n].size - 1

Raise(kind, ok, data) ==
  /\ owed[kind] > 0
  /\ owed' = [owed EXCEPT ![kind] = @ - 1]
  /\ hif' = Append(hif, [kind |-> kind, ok |-> ok, data |-> data])
  /\ UNCHANGED << portVars, readerVars, waiting, polling, conn, open, sent >>

\* recv is answered with data, or with a time-out or the end of the stream.
RaiseData(n) ==
  /\ NextRecord(n)
  /\ Raise("RECV", TRUE, SubSeq(out, 1, n))
  /\ out' = SubSeq(out, n + 1, Len(out))

RaiseStatus(kind, ok) ==
  /\ kind = "RECV" => ~ok
  /\ Raise(kind, ok, << >>)
  /\ UNCHANGED out

Next ==
  \/ \E asks \in {1, 2} : TlsConnect(asks)
  \/ TlsWrite \/ TlsClose \/ ReadFromBuffer \/ ReadFromSocket \/ ReadRefused
  \/ HandleEvent \/ StillWaiting \/ AfterDns \/ AfterConnect \/ AfterSend \/ AfterRecv
  \/ \E size \in PacketSizes : BrokerSends(size)
  \/ \E n \in 1 .. MaxStream : RaiseData(n)
  \/ \E kind \in Kinds, ok \in BOOLEAN : RaiseStatus(kind, ok)

Spec == Init /\ [][Next]_vars

----------------------------------------------------------------------------
(* Properties. *)

TypeOK ==
  /\ waiting \in Kinds \cup {"idle"} /\ polling \in BOOLEAN /\ state \in Kinds \cup {"none"}
  /\ err \in BOOLEAN /\ gu32HostIp \in BOOLEAN
  /\ received_bytes \in 0 .. Wrap - 1
  /\ buf \in [1 .. BufSize -> Byte] /\ buf_ptr \in Nat
  /\ conn \in 0 .. MaxConns /\ open \in BOOLEAN
  /\ reader \in [phase : {"header", "length", "body"}, rem : Nat]
  /\ cursor \in [conn : 0 .. MaxConns, pos : 0 .. MaxStream] /\ faithful \in BOOLEAN
  /\ out \in Seq(Byte) /\ sent \in 0 .. MaxStream
  /\ owed \in [Kinds -> Nat] /\ hif \in Seq(Reply)

\* What the MQTT client reads is, byte for byte, what the broker sent, in order
\* and each byte once: bytes of an earlier connection that are still in the
\* buffer come before any of the current one, and nothing comes from beyond
\* what was received.
StreamFaithful == faithful

\* Between reads the buffer holds exactly the bytes that were received and
\* not read: nothing between the reader and the wire is lost or repeated.
BufferHoldsUnread ==
  open /\ waiting # "RECV" =>
    /\ Len(out) + (IF cursor.conn = conn THEN cursor.pos + received_bytes ELSE 0) = sent
    /\ buf_ptr + received_bytes <= BufSize \/ received_bytes = 0
    /\ InOrder(SubSeq(buf, buf_ptr + 1, buf_ptr + received_bytes))

\* readPacket never waits for data in the middle of a packet: a time-out
\* there would leave the rest of the packet to be read as a header.
WaitsBetweenPackets == waiting = "RECV" => reader = Start

\* Bytes received and not read, as the client sees them: those of an event that
\* is handled while a read waits are taken in with the first byte read.
Unread == IF waiting = "RECV" THEN 0 ELSE received_bytes

\* Bytes of the packet that readPacket has begun.
Rest == CASE reader.phase = "header" -> 0
          [] reader.phase = "length" -> buf[buf_ptr + 1].size - 1
          [] OTHER -> reader.rem

Stream == INSTANCE PacketStream WITH held <- Unread, rest <- Rest

\* The client gets what PacketStream promises: whole packets, each byte once and
\* after it was sent, those an earlier connection left behind first.
StreamSpec == Stream!Spec

\* network_interface.h:106, of iot_tls_read: "@return integer - number of
\* bytes read or TLS error".  A read never counts more bytes than it had.
CountsBytesRead == received_bytes <= BufSize

\* network_interface.h:46, TLSConnectParams.timeout_ms: the handshake has a
\* time-out.  The port never waits for an event that nothing will raise.
NobodyWaitsInVain ==
  waiting # "idle" =>
    state = waiting \/ owed[waiting] > 0 \/ \E i \in 1 .. Len(hif) : hif[i].kind = waiting
=============================================================================
