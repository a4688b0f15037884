---------------------------- MODULE PacketStream ----------------------------
(***************************************************************************)
(* What the port promises to the MQTT client: it reads whole packets, byte *)
(* for byte in the order of sending, no byte twice and none before it was  *)
(* sent.  What was received and not read outlives its connection and is    *)
(* read first in the next one; what was not received is lost with it.      *)
(***************************************************************************)
EXTENDS Integers

CONSTANT MaxStream  \* bytes of one connection

VARIABLES
  conn, open,  \* number of connections so far; the last one is open
  sent,        \* bytes sent in it
  cursor,      \* the last byte read: its connection and place
  held,        \* bytes received and not read, those that follow cursor
  rest         \* bytes not read of a packet that was begun

vars == << conn, open, sent, cursor, held, rest >>

Init ==
  /\ conn = 0 /\ ~open /\ sent = 0
  /\ cursor = [conn |-> 0, pos |-> 0] /\ held = 0 /\ rest = 0

Opens ==
  /\ ~open /\ open' = TRUE
  /\ conn' = conn + 1 /\ sent' = 0
  /\ UNCHANGED << cursor, held, rest >>

Closes ==
  /\ open /\ open' = FALSE
  /\ rest = 0 /\ sent' = 0
  /\ UNCHANGED << conn, cursor, held, rest >>

Sends(n) ==
  /\ open /\ sent' = sent + n
  /\ UNCHANGED << conn, open, cursor, held, rest >>

\* The place of the last byte of this connection that was read.
Here == IF cursor.conn = conn THEN cursor.pos ELSE 0

\* The first byte of a packet, of those held or, when none is, of those sent
\* since, of which any number is then held.  The whole packet is among them.
Begins ==
  /\ open /\ rest = 0
  /\ \/ /\ held > 0 /\ held' = held - 1
        /\ cursor' = [cursor EXCEPT !.pos = @ + 1]
     \/ /\ held = 0 /\ held' >= 0
        /\ cursor' = [conn |-> conn, pos |-> Here + 1]
        /\ cursor'.pos + held' <= sent
  /\ 0 < rest' /\ rest' <= held'
  /\ UNCHANGED << conn, open, sent >>

\* The next byte of it, or all the rest.
Continues(n) ==
  /\ open /\ rest > 0 /\ n \in {1, rest}
  /\ rest' = rest - n /\ held' = held - n
  /\ cursor' = [cursor EXCEPT !.pos = @ + n]
  /\ UNCHANGED << conn, open, sent >>

Next ==
  \/ Opens \/ Closes \/ Begins
  \/ \E n \in 1 .. MaxStream : Sends(n) \/ Continues(n)

Spec == Init /\ [][Next]_vars
=============================================================================
