--------------------------- MODULE TlsPort_proofs ---------------------------
(***************************************************************************)
(* Proofs about TlsPort for every size of the buffer, of packets and of    *)
(* streams, and any number of connections: while an event holds whole      *)
(* packets and fits into the buffer, what is read is what was sent, and    *)
(* the port implements PacketStream.  The types need neither.              *)
(***************************************************************************)
EXTENDS TlsPort, SequenceTheorems, TLAPS

\* The limits of the code: an event is not split and not larger than the buffer.
Limits == Records = "whole" /\ MaxRecord <= BufSize

----------------------------------------------------------------------------
(* The inductive invariant. *)

\* Bytes lo to hi of s are packets of which at most the first has begun before.
EndOf(s, i) == i + s[i].size - 1 - s[i].off
Closed(s, lo, hi) ==
  \A i \in lo .. hi :
    /\ s[i].off < s[i].size /\ s[i].size >= 2
    /\ EndOf(s, i) <= hi
    /\ \A j \in i .. EndOf(s, i) : s[j].size = s[i].size /\ s[j].off = s[i].off + (j - i)
    /\ EndOf(s, i) < hi => s[EndOf(s, i) + 1].off = 0

\* Bytes lo to hi of s are those after place pos of connection c.
Run(s, lo, hi, c, pos) ==
  \A i \in lo .. hi : s[i].conn = c /\ s[i].pos = pos + (i - lo) + 1

\* Every reply is owed once, to the operation that waits for it; only DNS
\* requests are made without waiting.
Absent(k) == \A i \in DOMAIN hif : hif[i].kind # k
Once(k) ==
  IF waiting # k THEN owed[k] = 0 /\ Absent(k)
  ELSE \/ owed[k] = 1 /\ Absent(k) /\ state # k
       \/ /\ owed[k] = 0 /\ state # k
          /\ \E i \in DOMAIN hif : \A j \in DOMAIN hif : hif[j].kind = k <=> j = i
       \/ owed[k] = 0 /\ Absent(k)
Waits ==
  /\ \A k \in {"CONNECT", "SEND", "RECV"} : Once(k)
  /\ waiting \in {"DNS", "CONNECT"} => ~open /\ conn < MaxConns
  /\ waiting \in {"SEND", "RECV"} => open
  /\ waiting = "RECV" => reader = Start /\ buf_ptr = 0
  /\ reader.phase = "body" => reader.rem > 0

\* What the broker has sent and no event holds are whole packets.
Wire ==
  /\ ~open => out = << >> /\ sent = 0
  /\ cursor.conn <= conn
  /\ Len(out) <= sent
  /\ Run(out, 1, Len(out), conn, sent - Len(out))
  /\ Closed(out, 1, Len(out)) /\ (out # << >> => out[1].off = 0)

\* Bytes of this connection that were read.
Got == IF cursor.conn = conn THEN cursor.pos ELSE 0

\* Between reads: the buffer holds what follows the last byte read, and the
\* reader is where that says.
Filled == buf_ptr + received_bytes
Between ==
  /\ open => Got + (IF cursor.conn = conn THEN received_bytes ELSE 0) + Len(out) = sent
  /\ received_bytes = 0 => reader = Start
  /\ received_bytes > 0 =>
       /\ Filled <= BufSize
       /\ Run(buf, buf_ptr + 1, Filled, cursor.conn, cursor.pos)
       /\ Closed(buf, buf_ptr + 1, Filled)
       /\ buf[buf_ptr + 1].off = CASE reader.phase = "header" -> 0
                                   [] reader.phase = "length" -> 1
                                   [] OTHER -> 2
       /\ reader.phase = "body" => reader.rem = buf[buf_ptr + 1].size - 2

\* An event with data, of which nothing was read.
Event(s, n) ==
  /\ n \in 1 .. BufSize /\ Got + n + Len(out) = sent
  /\ Run(s, 1, n, conn, Got) /\ Closed(s, 1, n) /\ s[1].off = 0

\* During a read: nothing has come, an event waits, or it was handled.
Handled == owed["RECV"] = 0 /\ Absent("RECV")
Receiving ==
  /\ \A i \in DOMAIN hif : hif[i].kind = "RECV" =>
       IF hif[i].ok THEN Event(hif[i].data, Len(hif[i].data)) ELSE Got + Len(out) = sent
  /\ ~Handled => received_bytes = 0
  /\ owed["RECV"] = 1 => Got + Len(out) = sent
  /\ Handled /\ err => received_bytes = 0 /\ Got + Len(out) = sent
  /\ Handled /\ ~err => Event(buf, received_bytes)

IInv ==
  /\ TypeOK /\ Waits /\ Wire /\ faithful
  /\ waiting # "RECV" => Between
  /\ waiting = "RECV" => Receiving

----------------------------------------------------------------------------
(* Numbers and bytes. *)

\* Numbers below the modulus are their own remainders.
LEMMA SmallMod ==
  ASSUME NEW m \in Nat \ {0}, NEW n \in Nat, n < m
  PROVE  n % m = n
<1> QED
  OBVIOUS

LEMMA OnePiece ==
  ASSUME NEW n \in 1 .. BufSize
  PROVE  LastPiece(n) = n
<1>1. n - 1 \in Nat /\ n - 1 < BufSize /\ BufSize \in Nat \ {0}
  BY SizeAssumption
<1>2. (n - 1) % BufSize = n - 1
  BY <1>1, SmallMod
<1> QED
  BY <1>2 DEF LastPiece

\* The data of an event that fits replace the beginning of the buffer.
LEMMA Filling ==
  ASSUME NEW data \in Seq(Byte), Len(data) \in 1 .. BufSize, buf \in [1 .. BufSize -> Byte]
  PROVE  /\ LastPiece(Len(data)) = Len(data)
         /\ Fill(buf, data) \in [1 .. BufSize -> Byte]
         /\ \A i \in 1 .. Len(data) : Fill(buf, data)[i] = data[i]
<1> DEFINE n == Len(data)
<1>1. LastPiece(n) = n /\ n \in Nat
  BY OnePiece
<1>2. Fill(buf, data) = [i \in 1 .. BufSize |-> IF i <= n THEN data[i] ELSE buf[i]]
  <2>1. n - n = 0 /\ \A i \in 1 .. BufSize : 0 + i = i
    BY <1>1
  <2> QED
    BY <1>1, <2>1 DEF Fill
<1>3. \A i \in 1 .. n : data[i] \in Byte
  BY ElementOfSeq
<1>4. BufSize \in Nat /\ n <= BufSize
  BY SizeAssumption
<1> HIDE DEF n
<1>5. \A i \in 1 .. BufSize : i <= n => i \in 1 .. n
  BY <1>4
<1>6. Fill(buf, data) \in [1 .. BufSize -> Byte]
  BY <1>2, <1>3, <1>5
<1>7. \A i \in 1 .. n : Fill(buf, data)[i] = data[i]
  <2>1. \A i \in 1 .. n : i \in 1 .. BufSize /\ i <= n
    BY <1>1, <1>4
  <2> QED
    BY <1>2, <2>1
<1> QED
  BY <1>1, <1>6, <1>7 DEF n

\* A read that is served from bytes that follow the cursor and belong to whole
\* packets takes what is due, and leaves the reader where those that remain say.
Aligned ==
  /\ buf[buf_ptr + 1].off = CASE reader.phase = "header" -> 0
                              [] reader.phase = "length" -> 1
                              [] OTHER -> 2
  /\ reader.phase = "body" => reader.rem > 0 /\ reader.rem = buf[buf_ptr + 1].size - 2

LEMMA Served ==
  ASSUME buf \in [1 .. BufSize -> Byte], buf_ptr \in Nat, received_bytes \in 0 .. Wrap - 1,
         cursor \in [conn : 0 .. MaxConns, pos : 0 .. MaxStream], faithful,
         reader \in [phase : {"header", "length", "body"}, rem : Nat],
         NEW c, NEW q \in Nat,
         received_bytes > 0, Filled <= BufSize, Aligned,
         Run(buf, buf_ptr + 1, Filled, c, q), Closed(buf, buf_ptr + 1, Filled),
         \/ c = cursor.conn /\ q = cursor.pos
         \/ c > cursor.conn /\ q = 0,
         HandOver(buf, received_bytes, buf_ptr), buf' = buf
  PROVE  /\ Asks \in 1 .. received_bytes
         /\ received_bytes' = received_bytes - Asks /\ received_bytes' \in 0 .. Wrap - 1
         /\ buf_ptr' = buf_ptr + Asks /\ buf_ptr' \in Nat /\ Filled' = Filled
         /\ cursor' = [conn |-> c, pos |-> q + Asks]
         /\ cursor' \in [conn : 0 .. MaxConns, pos : 0 .. MaxStream]
         /\ faithful'
         /\ reader' \in [phase : {"header", "length", "body"}, rem : Nat]
         /\ reader'.phase = "body" => reader'.rem > 0
         /\ received_bytes' = 0 => reader' = Start
         /\ received_bytes' > 0 => Aligned'
         /\ Run(buf, buf_ptr' + 1, Filled, c, q + Asks)
         /\ Closed(buf, buf_ptr' + 1, Filled)
<1> DEFINE p   == buf_ptr
           n   == received_bytes
           b   == buf[p + 1]
           got == Copied(buf, p, Asks)
<1>1. /\ p \in Nat /\ n \in Nat \ {0} /\ n < Wrap /\ Wrap \in Nat \ {0} /\ Filled = p + n
      /\ BufSize \in Nat /\ p + 1 \in p + 1 .. Filled
      /\ \A i \in p + 1 .. Filled : i \in 1 .. BufSize /\ buf[i] \in Byte
  <2>1. Filled = p + n /\ p \in Nat /\ n \in Nat \ {0} /\ n < Wrap /\ Wrap \in Nat \ {0} /\ BufSize \in Nat
    BY SizeAssumption DEF Filled
  <2>2. \A i \in p + 1 .. Filled : i \in 1 .. BufSize
    BY <2>1
  <2> QED
    BY <2>1, <2>2
<1> DEFINE size == b.size
           off  == b.off
           e    == EndOf(buf, p + 1)
           phase == reader.phase
           rem == reader.rem
<1>2. /\ b \in Byte /\ off \in Nat /\ size \in Nat /\ off < size /\ size >= 2
      /\ e = p + size - off /\ e <= p + n
      /\ \A j \in p + 1 .. e : buf[j].size = size /\ buf[j].off = off + (j - (p + 1))
      /\ e < p + n => buf[e + 1].off = 0
  <2>1. b \in Byte
    BY <1>1
  <2>2. off \in Nat /\ size \in Nat
    BY <2>1 DEF Byte
  <2>3. e = (p + 1) + size - 1 - off
    BY DEF EndOf
  <2>4. /\ off < size /\ size >= 2 /\ e <= Filled
        /\ \A j \in p + 1 .. e : buf[j].size = size /\ buf[j].off = off + (j - (p + 1))
        /\ e < Filled => buf[e + 1].off = 0
    BY <1>1 DEF Closed
  <2> HIDE DEF b, size, off, e, p, n
  <2>5. e = p + size - off
    BY <1>1, <2>2, <2>3
  <2> QED
    BY <1>1, <2>1, <2>2, <2>4, <2>5
<1>3. /\ phase \in {"header", "length", "body"}
      /\ phase = "header" => off = 0 /\ Asks = 1
      /\ phase = "length" => off = 1 /\ Asks = 1
      /\ phase = "body" => off = 2 /\ Asks = size - 2 /\ Asks > 0
  BY DEF Aligned, Asks
<1> HIDE DEF p, n, b, got, phase, rem, size, off, e
<1>4. /\ Asks \in Nat \ {0} /\ Asks <= n
      /\ phase = "header" => n - Asks > 0 /\ p + 2 <= e
      /\ phase = "length" /\ size > 2 => n - Asks > 0 /\ p + 2 <= e
      /\ phase = "length" /\ ~(size > 2) => e = p + Asks
      /\ phase = "body" => e = p + Asks
  <2>1. CASE phase = "header"
    <3>1. off = 0 /\ Asks = 1
      BY <1>3, <2>1
    <3>2. Asks \in Nat \ {0} /\ Asks <= n /\ n - Asks > 0 /\ p + 2 <= e
      BY <1>1, <1>2, <3>1
    <3> QED
      BY <2>1, <3>2
  <2>2. CASE phase = "length"
    <3>1. off = 1 /\ Asks = 1
      BY <1>3, <2>2
    <3>2. /\ Asks \in Nat \ {0} /\ Asks <= n
          /\ size > 2 => n - Asks > 0 /\ p + 2 <= e
          /\ ~(size > 2) => e = p + Asks
      BY <1>1, <1>2, <3>1
    <3> QED
      BY <2>2, <3>2
  <2>3. CASE phase = "body"
    <3>1. off = 2 /\ Asks = size - 2 /\ Asks > 0
      BY <1>3, <2>3
    <3>2. Asks \in Nat \ {0} /\ Asks <= n /\ e = p + Asks
      BY <1>1, <1>2, <3>1
    <3> QED
      BY <2>3, <3>2
  <2> QED
    BY <1>3, <2>1, <2>2, <2>3
<1>5. received_bytes' = n - Asks
  <2>1. received_bytes' = (n - Asks) % Wrap
    BY DEF HandOver, n
  <2>2. n - Asks \in Nat /\ n - Asks < Wrap
    BY <1>1, <1>4
  <2> QED
    BY <1>1, <2>1, <2>2, SmallMod
<1>6. /\ buf_ptr' = p + Asks /\ cursor' = Place(got[Asks])
      /\ faithful' = (faithful /\ InOrder(got)) /\ reader' = AfterByte(got[1])
  BY DEF HandOver, p, got
<1>7. /\ got = [i \in 1 .. Asks |-> buf[p + i]] /\ Len(got) = Asks
      /\ \A i \in 1 .. Asks : got[i] = buf[p + i]
  <2>1. \A i \in 1 .. Asks : p + i <= BufSize
    BY <1>1, <1>4
  <2>2. got = [i \in 1 .. Asks |-> buf[p + i]]
    BY <2>1 DEF got, Copied
  <2> QED
    BY <1>4, <2>2
<1>8. \A i \in 1 .. Asks : got[i].conn = c /\ got[i].pos = q + i /\ got[i] \in Byte
  <2>1. ASSUME NEW i \in 1 .. Asks
        PROVE  got[i].conn = c /\ got[i].pos = q + i /\ got[i] \in Byte
    <3>1. p + i \in p + 1 .. Filled
      BY <1>1, <1>4
    <3>2. buf[p + i].conn = c /\ buf[p + i].pos = q + (p + i - (p + 1)) + 1
      BY <3>1 DEF Run, p
    <3>3. q + (p + i - (p + 1)) + 1 = q + i
      BY <1>1, <1>4
    <3> QED
      BY <1>1, <1>7, <3>1, <3>2, <3>3
  <2> QED
    BY <2>1
<1>9. 1 \in 1 .. Asks /\ Asks \in 1 .. Asks
  BY <1>4
<1>10. cursor' = [conn |-> c, pos |-> q + Asks]
       /\ cursor' \in [conn : 0 .. MaxConns, pos : 0 .. MaxStream]
  <2>1. got[Asks].conn = c /\ got[Asks].pos = q + Asks /\ got[Asks] \in Byte
    BY <1>8, <1>9
  <2>2. Place(got[Asks]) = [conn |-> c, pos |-> q + Asks]
    BY <2>1 DEF Place
  <2>3. c \in 0 .. MaxConns /\ q + Asks \in 0 .. MaxStream
    BY <2>1 DEF Byte
  <2> QED
    BY <1>6, <2>2, <2>3
<1>11. InOrder(got)
  <2>1. ASSUME NEW i \in 1 .. Asks
        PROVE  Follows(got[i], IF i = 1 THEN cursor ELSE got[i - 1])
    <3>1. CASE i = 1
      <4>1. got[1].conn = c /\ got[1].pos = q + 1
        BY <1>8, <1>9
      <4> QED
        BY <3>1, <4>1 DEF Follows
    <3>2. CASE i # 1
      <4>1. i - 1 \in 1 .. Asks /\ q + i = q + (i - 1) + 1
        BY <1>4, <3>2
      <4>2. got[i].conn = c /\ got[i].pos = q + i /\ got[i - 1].conn = c /\ got[i - 1].pos = q + (i - 1)
        BY <1>8, <4>1
      <4> QED
        BY <3>2, <4>1, <4>2 DEF Follows
    <3> QED
      BY <3>1, <3>2
  <2> QED
    BY <1>7, <2>1 DEF InOrder
<1>12. faithful'
  BY <1>6, <1>11
<1>13. got[1] = b
  BY <1>7, <1>9 DEF b
<1>14. buf_ptr' \in Nat /\ Filled' = p + n /\ Filled = p + n
  <2>1. Filled' = buf_ptr' + received_bytes'
    BY DEF Filled
  <2>2. p + Asks + (n - Asks) = p + n /\ p + Asks \in Nat
    BY <1>1, <1>4
  <2> QED
    BY <1>1, <1>5, <1>6, <2>1, <2>2
<1>15. Run(buf, p + Asks + 1, p + n, c, q + Asks)
  <2>1. ASSUME NEW i \in p + Asks + 1 .. p + n
        PROVE  buf[i].conn = c /\ buf[i].pos = q + Asks + (i - (p + Asks + 1)) + 1
    <3>1. i \in p + 1 .. Filled
      BY <1>1, <1>4
    <3>2. buf[i].conn = c /\ buf[i].pos = q + (i - (p + 1)) + 1
      BY <3>1 DEF Run, p
    <3>3. q + (i - (p + 1)) + 1 = q + Asks + (i - (p + Asks + 1)) + 1
      BY <1>1, <1>4
    <3> QED
      BY <3>2, <3>3
  <2> QED
    BY <2>1 DEF Run
<1>16. Closed(buf, p + Asks + 1, p + n)
  <2>1. \A i \in p + Asks + 1 .. p + n : i \in p + 1 .. Filled
    BY <1>1, <1>4
  <2>2. Closed(buf, p + 1, Filled)
    BY DEF p
  <2> QED
    BY <1>1, <2>1, <2>2 DEF Closed
<1> DEFINE next == buf[p + Asks + 1]
<1>17. Aligned' <=> /\ next.off = CASE reader'.phase = "header" -> 0
                                    [] reader'.phase = "length" -> 1
                                    [] OTHER -> 2
                    /\ reader'.phase = "body" =>
                         reader'.rem > 0 /\ reader'.rem = next.size - 2
  BY <1>6 DEF Aligned
<1>18. p + 2 <= e /\ Asks = 1 => next.off = off + 1 /\ next.size = size
  <2> SUFFICES ASSUME p + 2 <= e, Asks = 1
               PROVE  next.off = off + 1 /\ next.size = size
    OBVIOUS
  <2> DEFINE j == p + 2
  <2>1. j \in p + 1 .. e /\ j - (p + 1) = 1 /\ p + Asks + 1 = j
    BY <1>1, <1>2
  <2> HIDE DEF j
  <2>2. buf[j].size = size /\ buf[j].off = off + (j - (p + 1))
    BY <1>2, <2>1
  <2>3. next = buf[j]
    BY <2>1
  <2> QED
    BY <2>1, <2>2, <2>3
<1>19. e = p + Asks /\ n - Asks > 0 => next.off = 0
  <2>1. e = p + Asks /\ n - Asks > 0 => e < p + n
    BY <1>1, <1>4
  <2> QED
    BY <1>2, <2>1
<1> HIDE DEF next
<1>20. /\ reader' \in [phase : {"header", "length", "body"}, rem : Nat]
       /\ reader'.phase = "body" => reader'.rem > 0
       /\ n - Asks = 0 => reader' = Start
       /\ n - Asks > 0 => Aligned'
  <2>1. CASE phase = "header"
    <3>1. reader' = [phase |-> "length", rem |-> 0]
      BY <1>6, <2>1 DEF AfterByte, phase
    <3>2. reader'.phase = "length" /\ reader' \in [phase : {"header", "length", "body"}, rem : Nat]
      BY <3>1
    <3>3. n - Asks > 0
      BY <1>4, <2>1
    <3>4. off + 1 = 1 /\ Asks = 1 /\ p + 2 <= e
      BY <1>3, <1>4, <2>1
    <3>5. next.off = 1
      BY <1>18, <3>4
    <3>6. Aligned'
      BY <1>17, <3>2, <3>5
    <3>7. n - Asks # 0
      BY <3>3
    <3> QED
      BY <3>2, <3>6, <3>7
  <2>2. CASE phase = "length" /\ size > 2
    <3>1. reader' = [phase |-> "body", rem |-> size - 2]
      BY <1>6, <1>13, <2>2 DEF AfterByte, phase, size
    <3>2. size - 2 \in Nat /\ size - 2 > 0
      BY <1>2, <2>2
    <3>3. reader'.phase = "body" /\ reader'.rem = size - 2
          /\ reader' \in [phase : {"header", "length", "body"}, rem : Nat]
      BY <3>1, <3>2
    <3>4. n - Asks > 0 /\ p + 2 <= e /\ Asks = 1 /\ off = 1
      BY <1>3, <1>4, <2>2
    <3>5. next.off = 2 /\ next.size = size
      BY <1>18, <3>4
    <3>6. Aligned'
      BY <1>17, <3>2, <3>3, <3>5
    <3>7. n - Asks # 0
      BY <3>4
    <3> QED
      BY <3>2, <3>3, <3>6, <3>7
  <2>3. CASE phase = "body" \/ (phase = "length" /\ ~(size > 2))
    <3>1. reader' = Start
      BY <1>6, <1>13, <2>3 DEF AfterByte, phase, size
    <3>2. reader'.phase = "header" /\ reader' \in [phase : {"header", "length", "body"}, rem : Nat]
      BY <3>1 DEF Start
    <3>3. e = p + Asks
      BY <1>4, <2>3
    <3>4. n - Asks > 0 => next.off = 0
      BY <1>19, <3>3
    <3>5. n - Asks > 0 => Aligned'
      BY <1>17, <3>2, <3>4
    <3> QED
      BY <3>1, <3>2, <3>5
  <2>4. \/ phase = "header"
        \/ phase = "length" /\ size > 2
        \/ phase = "body" \/ (phase = "length" /\ ~(size > 2))
    BY <1>3
  <2> QED
    BY <2>1, <2>2, <2>3, <2>4
<1>21. received_bytes' \in 0 .. Wrap - 1 /\ Asks \in 1 .. received_bytes
  <2>1. n - Asks \in 0 .. Wrap - 1 /\ Asks \in 1 .. n
    BY <1>1, <1>4
  <2> QED
    BY <1>5, <2>1 DEF n
<1> QED
  BY <1>5, <1>6, <1>10, <1>12, <1>14, <1>15, <1>16, <1>20, <1>21 DEF p, n

----------------------------------------------------------------------------
(* Whole packets. *)

\* Bytes that stand elsewhere are the same packets.
LEMMA ClosedMoved ==
  ASSUME NEW s, NEW t, NEW lo \in Nat, NEW hi \in Nat, NEW d \in Nat,
         Closed(s, lo + d, hi + d),
         \A i \in lo .. hi : t[i] = s[i + d] /\ t[i] \in Byte
  PROVE  Closed(t, lo, hi)
<1> SUFFICES ASSUME NEW i \in lo .. hi
             PROVE  /\ t[i].off < t[i].size /\ t[i].size >= 2
                    /\ EndOf(t, i) <= hi
                    /\ \A j \in i .. EndOf(t, i) :
                         t[j].size = t[i].size /\ t[j].off = t[i].off + (j - i)
                    /\ EndOf(t, i) < hi => t[EndOf(t, i) + 1].off = 0
  BY DEF Closed
<1> DEFINE k == i + d
           e == EndOf(t, i)
           f == EndOf(s, k)
<1>1. t[i] = s[k] /\ t[i].off \in Nat /\ t[i].size \in Nat /\ k \in lo + d .. hi + d
  BY DEF Byte
<1>2. f = e + d /\ e \in Int
  BY <1>1 DEF EndOf
<1> HIDE DEF k
<1>3. /\ s[k].off < s[k].size /\ s[k].size >= 2 /\ f <= hi + d
      /\ \A j \in k .. f : s[j].size = s[k].size /\ s[j].off = s[k].off + (j - k)
      /\ f < hi + d => s[f + 1].off = 0
  BY <1>1 DEF Closed
<1> HIDE DEF e, f
<1>4. e <= hi
  BY <1>2, <1>3
<1>5. ASSUME NEW j \in i .. e
      PROVE  t[j].size = t[i].size /\ t[j].off = t[i].off + (j - i)
  <2> DEFINE m == j + d
  <2>1. m \in k .. f /\ m - k = j - i /\ j \in lo .. hi
    BY <1>2, <1>4 DEF k
  <2>2. t[j] = s[m]
    BY <2>1
  <2> HIDE DEF m
  <2>3. s[m].size = s[k].size /\ s[m].off = s[k].off + (m - k)
    BY <1>3, <2>1
  <2> QED
    BY <1>1, <2>1, <2>2, <2>3
<1>6. e < hi => t[e + 1].off = 0
  <2> SUFFICES ASSUME e < hi
               PROVE  t[e + 1].off = 0
    OBVIOUS
  <2>1. e + 1 \in lo .. hi
    <3>1. i <= e
      BY <1>1, <1>3 DEF e, EndOf
    <3> QED
      BY <1>2, <3>1
  <2>2. t[e + 1] = s[e + 1 + d] /\ e + 1 + d = f + 1 /\ f < hi + d
    BY <1>2, <2>1
  <2> QED
    BY <1>3, <2>2
<1> QED
  BY <1>1, <1>3, <1>4, <1>5, <1>6 DEF e

\* Where a packet ends, what comes before and after are whole packets.
LEMMA ClosedCut ==
  ASSUME NEW s, NEW n \in Nat, NEW l \in Nat, n >= 1, n <= l,
         Closed(s, 1, l), \A i \in 1 .. l : s[i] \in Byte,
         s[n].off = s[n].size - 1
  PROVE  /\ Closed(s, 1, n) /\ Closed(s, n + 1, l)
         /\ n < l => s[n + 1].off = 0
<1>1. \A i \in 1 .. l : s[i].off \in Nat /\ s[i].size \in Nat
  BY DEF Byte
<1>2. \A i \in n + 1 .. l : i \in 1 .. l
  OBVIOUS
<1>3. Closed(s, n + 1, l)
  BY <1>2 DEF Closed
<1>4. n \in 1 .. l
  OBVIOUS
<1>5. EndOf(s, n) = n
  BY <1>1, <1>4 DEF EndOf
<1>6. n < l => s[n + 1].off = 0
  BY <1>4, <1>5 DEF Closed
<1>7. ASSUME NEW i \in 1 .. n
      PROVE  /\ s[i].off < s[i].size /\ s[i].size >= 2
             /\ EndOf(s, i) <= n
             /\ \A j \in i .. EndOf(s, i) :
                  s[j].size = s[i].size /\ s[j].off = s[i].off + (j - i)
             /\ EndOf(s, i) < n => s[EndOf(s, i) + 1].off = 0
  <2> DEFINE e == EndOf(s, i)
  <2>1. i \in 1 .. l /\ s[i].off \in Nat /\ s[i].size \in Nat
    <3>1. i \in 1 .. l
      OBVIOUS
    <3> QED
      BY <1>1, <3>1
  <2>2. /\ s[i].off < s[i].size /\ s[i].size >= 2 /\ e <= l
        /\ \A j \in i .. e : s[j].size = s[i].size /\ s[j].off = s[i].off + (j - i)
        /\ e < l => s[e + 1].off = 0
    BY <2>1 DEF Closed
  <2>3. e = i + s[i].size - 1 - s[i].off
    BY DEF EndOf
  <2> HIDE DEF e
  <2>4. e <= n
    <3> SUFFICES ASSUME e > n
                 PROVE  FALSE
      BY <2>1, <2>3
    <3>1. n \in i .. e
      BY <2>1, <2>3
    <3>2. s[n].size = s[i].size /\ s[n].off = s[i].off + (n - i)
      BY <2>2, <3>1
    <3> QED
      BY <1>1, <1>4, <2>1, <2>3, <3>2
  <2>5. e < n => e < l
    BY <2>1, <2>3
  <2> QED
    BY <2>2, <2>4, <2>5 DEF e
<1>8. Closed(s, 1, n)
  BY <1>7 DEF Closed
<1> QED
  BY <1>3, <1>6, <1>8

\* Another packet makes whole packets longer.
LEMMA ClosedAppended ==
  ASSUME NEW s, NEW t, NEW l \in Nat, NEW size \in Nat, size >= 2,
         Closed(s, 1, l), \A i \in 1 .. l : s[i] \in Byte /\ t[i] = s[i],
         \A i \in 1 .. size : t[l + i].off = i - 1 /\ t[l + i].size = size
  PROVE  Closed(t, 1, l + size)
<1> SUFFICES ASSUME NEW i \in 1 .. l + size
             PROVE  /\ t[i].off < t[i].size /\ t[i].size >= 2
                    /\ EndOf(t, i) <= l + size
                    /\ \A j \in i .. EndOf(t, i) :
                         t[j].size = t[i].size /\ t[j].off = t[i].off + (j - i)
                    /\ EndOf(t, i) < l + size => t[EndOf(t, i) + 1].off = 0
  BY DEF Closed
<1>1. \A j \in l + 1 .. l + size : t[j].off = j - l - 1 /\ t[j].size = size
  <2>1. ASSUME NEW j \in l + 1 .. l + size
        PROVE  t[j].off = j - l - 1 /\ t[j].size = size
    <3> DEFINE m == j - l
    <3>1. m \in 1 .. size /\ l + m = j /\ m - 1 = j - l - 1
      OBVIOUS
    <3> HIDE DEF m
    <3>2. t[l + m].off = m - 1 /\ t[l + m].size = size
      BY <3>1
    <3> QED
      BY <3>1, <3>2
  <2> QED
    BY <2>1
<1> DEFINE e == EndOf(t, i)
<1>2. CASE i > l
  <2>1. i \in l + 1 .. l + size
    BY <1>2
  <2>2. t[i].off = i - l - 1 /\ t[i].size = size
    BY <1>1, <2>1
  <2>3. e = l + size
    BY <2>1, <2>2 DEF EndOf
  <2> HIDE DEF e
  <2>4. ASSUME NEW j \in i .. e
        PROVE  t[j].size = t[i].size /\ t[j].off = t[i].off + (j - i)
    <3>1. j \in l + 1 .. l + size
      BY <2>1, <2>3
    <3>2. t[j].off = j - l - 1 /\ t[j].size = size
      BY <1>1, <3>1
    <3> QED
      BY <2>1, <2>2, <3>1, <3>2
  <2>5. t[i].off < t[i].size /\ t[i].size >= 2
    BY <2>1, <2>2
  <2> QED
    BY <2>3, <2>4, <2>5 DEF e
<1>3. CASE i <= l
  <2>1. i \in 1 .. l /\ t[i] = s[i]
    <3>1. i \in 1 .. l
      BY <1>3
    <3> QED
      BY <3>1
  <2>2. e = EndOf(s, i) /\ e = i + t[i].size - 1 - t[i].off /\ t[i].off \in Nat /\ t[i].size \in Nat
    BY <2>1 DEF EndOf, Byte
  <2>3. /\ s[i].off < s[i].size /\ s[i].size >= 2 /\ EndOf(s, i) <= l
        /\ \A j \in i .. EndOf(s, i) : s[j].size = s[i].size /\ s[j].off = s[i].off + (j - i)
        /\ EndOf(s, i) < l => s[EndOf(s, i) + 1].off = 0
    BY <2>1 DEF Closed
  <2> HIDE DEF e
  <2>4. e \in 1 .. l
    BY <2>1, <2>2, <2>3
  <2>5. ASSUME NEW j \in i .. e
        PROVE  t[j].size = t[i].size /\ t[j].off = t[i].off + (j - i)
    <3>1. j \in 1 .. l
      BY <2>1, <2>4
    <3> QED
      BY <2>1, <2>2, <2>3, <3>1
  <2>6. e < l + size => t[e + 1].off = 0
    <3>1. CASE e < l
      <4>1. e + 1 \in 1 .. l
        BY <2>4, <3>1
      <4>2. t[e + 1] = s[e + 1]
        BY <4>1
      <4> QED
        BY <2>2, <2>3, <3>1, <4>2
    <3>2. CASE e = l
      <4> DEFINE m == e + 1
      <4>1. m \in l + 1 .. l + size /\ m - l - 1 = 0
        BY <3>2
      <4> HIDE DEF m
      <4>2. t[m].off = 0
        BY <1>1, <4>1
      <4> QED
        BY <4>2 DEF m
    <3> QED
      BY <2>4, <3>1, <3>2
  <2>7. e <= l + size
    BY <2>4
  <2> QED
    BY <2>1, <2>2, <2>3, <2>5, <2>6, <2>7 DEF e
<1> QED
  BY <1>2, <1>3

\* The same for places: bytes that stand elsewhere, and bytes that follow.
LEMMA RunMoved ==
  ASSUME NEW s, NEW t, NEW lo \in Nat, NEW hi \in Nat, NEW d \in Nat, NEW c, NEW pos \in Nat,
         Run(s, lo + d, hi + d, c, pos), \A i \in lo .. hi : t[i] = s[i + d]
  PROVE  Run(t, lo, hi, c, pos)
<1> SUFFICES ASSUME NEW i \in lo .. hi
             PROVE  t[i].conn = c /\ t[i].pos = pos + (i - lo) + 1
  BY DEF Run
<1> DEFINE k == i + d
<1>1. k \in lo + d .. hi + d /\ k - (lo + d) = i - lo /\ t[i] = s[k]
  OBVIOUS
<1> HIDE DEF k
<1>2. s[k].conn = c /\ s[k].pos = pos + (k - (lo + d)) + 1
  BY <1>1 DEF Run
<1> QED
  BY <1>1, <1>2

LEMMA SameBytes ==
  ASSUME NEW s, NEW t, NEW n \in Nat, NEW c, NEW pos \in Nat,
         Closed(s, 1, n), Run(s, 1, n, c, pos),
         \A i \in 1 .. n : t[i] = s[i] /\ t[i] \in Byte
  PROVE  Closed(t, 1, n) /\ Run(t, 1, n, c, pos)
<1>1. Run(t, 1, n, c, pos)
  BY DEF Run
<1> SUFFICES ASSUME NEW i \in 1 .. n
             PROVE  /\ t[i].off < t[i].size /\ t[i].size >= 2
                    /\ EndOf(t, i) <= n
                    /\ \A j \in i .. EndOf(t, i) :
                         t[j].size = t[i].size /\ t[j].off = t[i].off + (j - i)
                    /\ EndOf(t, i) < n => t[EndOf(t, i) + 1].off = 0
  BY <1>1 DEF Closed
<1> DEFINE e == EndOf(s, i)
<1>2. t[i] = s[i] /\ e = EndOf(t, i) /\ s[i].off \in Nat /\ s[i].size \in Nat
  BY DEF EndOf, Byte
<1>3. /\ s[i].off < s[i].size /\ s[i].size >= 2 /\ e <= n
      /\ \A j \in i .. e : s[j].size = s[i].size /\ s[j].off = s[i].off + (j - i)
      /\ e < n => s[e + 1].off = 0
  BY DEF Closed
<1>4. e \in Int /\ i <= e
  BY <1>2, <1>3 DEF EndOf
<1> HIDE DEF e
<1>5. \A j \in i .. e : j \in 1 .. n
  BY <1>3, <1>4
<1>6. e < n => e + 1 \in 1 .. n
  BY <1>4
<1> QED
  BY <1>2, <1>3, <1>5, <1>6

LEMMA RunCut ==
  ASSUME NEW s, NEW n \in Nat, NEW l \in Nat, n <= l, NEW c, NEW pos \in Nat,
         Run(s, 1, l, c, pos)
  PROVE  Run(s, 1, n, c, pos) /\ Run(s, n + 1, l, c, pos + n)
<1>1. \A i \in 1 .. n : i \in 1 .. l
  OBVIOUS
<1>2. \A i \in n + 1 .. l : i \in 1 .. l /\ pos + (i - 1) + 1 = pos + n + (i - (n + 1)) + 1
  OBVIOUS
<1> QED
  BY <1>1, <1>2 DEF Run

----------------------------------------------------------------------------
(* Waiting. *)

\* Replies: what is appended and what is taken off.
LEMMA ReplyAppended ==
  ASSUME hif \in Seq(Reply), NEW r, hif' = Append(hif, r)
  PROVE  /\ DOMAIN hif' = 1 .. Len(hif) + 1 /\ DOMAIN hif = 1 .. Len(hif) /\ Len(hif) \in Nat
         /\ \A i \in DOMAIN hif : hif'[i] = hif[i] /\ i # Len(hif) + 1
         /\ hif'[Len(hif) + 1] = r
<1>1. Len(hif) \in Nat /\ DOMAIN hif = 1 .. Len(hif)
  BY LenProperties
<1>2. Len(hif') = Len(hif) + 1 /\ hif' \in Seq(Reply \cup {r})
  BY AppendProperties, hif \in Seq(Reply \cup {r})
<1>3. DOMAIN hif' = 1 .. Len(hif) + 1
  BY <1>2, LenProperties
<1>4. \A i \in 1 .. Len(hif) : hif'[i] = hif[i] /\ i # Len(hif) + 1
  BY <1>1, AppendProperties
<1> QED
  BY <1>1, <1>3, <1>4, AppendProperties

LEMMA ReplyTaken ==
  ASSUME hif \in Seq(Reply), hif # << >>, hif' = Tail(hif)
  PROVE  /\ hif' \in Seq(Reply) /\ Head(hif) = hif[1] /\ 1 \in DOMAIN hif /\ Head(hif) \in Reply
         /\ \A i \in DOMAIN hif' : i + 1 \in DOMAIN hif /\ hif'[i] = hif[i + 1] /\ i \in Nat
         /\ \A i \in DOMAIN hif : i \in Nat /\ (i = 1 \/ i - 1 \in DOMAIN hif')
<1>1. /\ Len(hif) \in Nat \ {0} /\ DOMAIN hif = 1 .. Len(hif)
  BY EmptySeq, LenProperties
<1>2. hif' \in Seq(Reply) /\ Len(hif') = Len(hif) - 1
      /\ \A i \in 1 .. Len(hif') : hif'[i] = hif[i + 1]
  BY HeadTailProperties
<1>3. DOMAIN hif' = 1 .. Len(hif) - 1
  BY <1>2, LenProperties
<1>4. Head(hif) = hif[1] /\ 1 \in DOMAIN hif /\ hif[1] \in Reply
  BY <1>1, ElementOfSeq, HeadTailProperties
<1>5. \A i \in DOMAIN hif' : i + 1 \in DOMAIN hif /\ hif'[i] = hif[i + 1] /\ i \in Nat
  BY <1>1, <1>2, <1>3
<1>6. \A i \in DOMAIN hif : i \in Nat /\ (i = 1 \/ i - 1 \in DOMAIN hif')
  BY <1>1, <1>3
<1> QED
  BY <1>2, <1>4, <1>5, <1>6

\* Nothing changes for the event k, or the wait for it begins, or ends.
LEMMA OnceKept ==
  ASSUME NEW k, Once(k), hif' = hif, owed'[k] = owed[k], waiting' = waiting,
         state' \in {state, "none"}, k # "none"
  PROVE  Once(k)'
<1> QED
  BY DEF Once, Absent

LEMMA OnceOthers ==
  ASSUME NEW k, Once(k), waiting # k, waiting' # k, hif' = hif, owed'[k] = owed[k]
  PROVE  Once(k)'
<1> QED
  BY DEF Once, Absent

LEMMA OnceEnds ==
  ASSUME NEW k, Once(k), waiting = k, state = k, waiting' # k, hif' = hif, owed' = owed
  PROVE  Once(k)'
<1> QED
  BY DEF Once, Absent

LEMMA OnceBegins ==
  ASSUME NEW k, Once(k), waiting # k, waiting' = k, state' = "none", k # "none", hif' = hif,
         owed'[k] = owed[k] + 1
  PROVE  Once(k)' /\ Absent(k) /\ Absent(k)' /\ owed'[k] = 1
<1>1. owed[k] = 0 /\ Absent(k)
  BY DEF Once
<1>2. Absent(k)' /\ owed'[k] = 1
  BY <1>1 DEF Absent
<1> QED
  BY <1>1, <1>2 DEF Once

\* The controller raises what it owes.
LEMMA OnceRaised ==
  ASSUME NEW k, Once(k), hif \in Seq(Reply), NEW kind \in Kinds, NEW r, r.kind = kind,
         hif' = Append(hif, r), owed[kind] > 0, owed \in [Kinds -> Nat], k \in Kinds,
         owed' = [owed EXCEPT ![kind] = @ - 1], waiting' = waiting, state' = state
  PROVE  Once(k)'
<1>1. CASE k # kind
  <2>1. owed'[k] = owed[k]
    BY <1>1
  <2>2. Absent(k) => Absent(k)'
    BY <1>1, ReplyAppended DEF Absent
  <2>3. ASSUME NEW i \in DOMAIN hif, \A j \in DOMAIN hif : hif[j].kind = k <=> j = i
        PROVE  \E m \in DOMAIN hif' : \A j \in DOMAIN hif' : hif'[j].kind = k <=> j = m
    <3>1. i \in DOMAIN hif' /\ \A j \in DOMAIN hif' : j \in DOMAIN hif \/ j = Len(hif) + 1
      BY ReplyAppended
    <3>2. \A j \in DOMAIN hif' : hif'[j].kind = k <=> j = i
      BY <1>1, <2>3, <3>1, ReplyAppended
    <3> QED
      BY <3>1, <3>2
  <2> QED
    BY <2>1, <2>2, <2>3 DEF Once
<1>2. CASE k = kind
  <2>1. owed[k] \in Nat /\ owed[k] # 0 /\ owed'[k] = owed[k] - 1
    BY <1>2
  <2>2. waiting = k /\ owed[k] = 1 /\ Absent(k) /\ state # k
    BY <2>1 DEF Once
  <2>3. Len(hif) + 1 \in DOMAIN hif'
    BY ReplyAppended
  <2>4. \A j \in DOMAIN hif' : j \in DOMAIN hif \/ j = Len(hif) + 1
    BY ReplyAppended
  <2>5. \A j \in DOMAIN hif' : hif'[j].kind = k <=> j = Len(hif) + 1
    BY <1>2, <2>2, <2>4, ReplyAppended DEF Absent
  <2>6. owed'[k] = 0
    BY <2>1, <2>2
  <2> QED
    BY <2>2, <2>3, <2>5, <2>6 DEF Once
<1> QED
  BY <1>1, <1>2

\* A callback runs: what was waited for is there, and nothing of it is left.
LEMMA OnceHandled ==
  ASSUME NEW k, Once(k), hif \in Seq(Reply), hif # << >>, hif' = Tail(hif), owed' = owed,
         waiting' = waiting, state' = Head(hif).kind
  PROVE  /\ Once(k)'
         /\ Absent(k) => Absent(k)'
         /\ Head(hif).kind = k => waiting = k /\ owed[k] = 0 /\ Absent(k)'
         /\ Head(hif).kind # k /\ Absent(k)' => Absent(k)
<1>1. Absent(k) => Absent(k)' /\ Head(hif).kind # k
  BY ReplyTaken DEF Absent
<1>2. Head(hif).kind # k /\ Absent(k)' => Absent(k)
  <2> SUFFICES ASSUME Head(hif).kind # k, Absent(k)', NEW i \in DOMAIN hif
               PROVE  hif[i].kind # k
    BY DEF Absent
  <2>1. CASE i = 1
    BY <2>1, ReplyTaken
  <2>2. CASE i # 1
    <3>1. i - 1 \in DOMAIN hif' /\ i \in Nat
      BY <2>2, ReplyTaken
    <3>2. hif'[i - 1] = hif[i - 1 + 1] /\ hif'[i - 1].kind # k
      BY <3>1, ReplyTaken DEF Absent
    <3>3. i - 1 + 1 = i
      BY <3>1
    <3> QED
      BY <3>2, <3>3
  <2> QED
    BY <2>1, <2>2
<1>3. CASE waiting # k
  BY <1>1, <1>2, <1>3 DEF Once
<1>4. CASE waiting = k /\ Absent(k)
  BY <1>1, <1>2, <1>4 DEF Once
<1>5. CASE waiting = k /\ ~Absent(k)
  <2>1. owed[k] = 0 /\ state # k
    BY <1>5 DEF Once
  <2>2. PICK i \in DOMAIN hif : \A j \in DOMAIN hif : hif[j].kind = k <=> j = i
    BY <1>5 DEF Once
  <2>3. CASE i = 1
    <3>1. Head(hif).kind = k
      BY <2>2, <2>3, ReplyTaken
    <3>2. ASSUME NEW j \in DOMAIN hif'
          PROVE  hif'[j].kind # k
      <4>1. j + 1 \in DOMAIN hif /\ hif'[j] = hif[j + 1] /\ j \in Nat /\ j \in DOMAIN hif'
        BY ReplyTaken
      <4>2. hif' \in Seq(Reply)
        BY ReplyTaken
      <4>3. j >= 1
        BY <4>2, LenProperties
      <4>4. j + 1 # 1
        BY <4>1, <4>3
      <4> QED
        BY <2>2, <2>3, <4>1, <4>4
    <3>3. Absent(k)'
      BY <3>2 DEF Absent
    <3> QED
      BY <1>5, <2>1, <3>1, <3>3 DEF Once
  <2>4. CASE i # 1
    <3>1. Head(hif).kind # k
      BY <2>2, <2>4, ReplyTaken
    <3>2. i - 1 \in DOMAIN hif' /\ i \in Nat
      BY <2>4, ReplyTaken
    <3>3. ASSUME NEW j \in DOMAIN hif'
          PROVE  hif'[j].kind = k <=> j = i - 1
      <4>1. j + 1 \in DOMAIN hif /\ hif'[j] = hif[j + 1] /\ j \in Nat
        BY ReplyTaken
      <4>2. j + 1 = i <=> j = i - 1
        BY <3>2, <4>1
      <4> QED
        BY <2>2, <4>1, <4>2
    <3>4. Once(k)'
      BY <1>5, <2>1, <3>1, <3>2, <3>3 DEF Once
    <3> QED
      BY <1>5, <3>1, <1>2, <3>4
  <2> QED
    BY <2>3, <2>4
<1> QED
  BY <1>3, <1>4, <1>5

----------------------------------------------------------------------------
(* The steps that leave the buffer alone. *)

LEMMA WireKept ==
  ASSUME Wire, UNCHANGED << out, sent, conn, open, cursor >>
  PROVE  Wire'
<1> QED
  BY DEF Wire, Run, Closed, EndOf

LEMMA BetweenKept ==
  ASSUME Between,
         UNCHANGED << buf, buf_ptr, received_bytes, reader, cursor, conn, open, out, sent >>
  PROVE  Between'
<1> QED
  BY DEF Between, Got, Filled, Run, Closed, EndOf

LEMMA ReceivingKept ==
  ASSUME Receiving, UNCHANGED << buf, received_bytes, err, cursor, conn, out, sent, hif >>,
         owed'["RECV"] = owed["RECV"]
  PROVE  Receiving'
<1> QED
  BY DEF Receiving, Handled, Absent, Event, Got, Run, Closed, EndOf

\* What is owed stays a number.
LEMMA OwedType ==
  ASSUME TypeOK, NEW kind \in Kinds, NEW n \in Nat, Owe(kind, n)
  PROVE  /\ owed' \in [Kinds -> Nat] /\ owed'[kind] = owed[kind] + n
         /\ \A k \in Kinds \ {kind} : owed'[k] = owed[k]
<1> QED
  BY DEF TypeOK, Owe

LEMMA ConnectBegins ==
  ASSUME IInv, NEW asks \in {1, 2}, TlsConnect(asks)
  PROVE  IInv'
<1>1. waiting = "idle" /\ waiting' = "DNS" /\ state' = "none" /\ polling' = FALSE
  BY DEF TlsConnect, WaitFor, Idle
<1>2. owed' \in [Kinds -> Nat] /\ \A k \in {"CONNECT", "SEND", "RECV"} : owed'[k] = owed[k]
  <2>1. asks \in Nat /\ "DNS" \in Kinds /\ {"CONNECT", "SEND", "RECV"} \subseteq Kinds \ {"DNS"}
    BY DEF Kinds
  <2> QED
    BY <2>1, OwedType DEF TlsConnect, IInv
<1>3. TypeOK'
  BY <1>1, <1>2 DEF IInv, TypeOK, TlsConnect, readerVars, brokerVars, Kinds
<1>4. Waits'
  <2>1. \A k \in {"CONNECT", "SEND", "RECV"} : Once(k)'
    BY <1>1, <1>2, OnceOthers DEF TlsConnect, IInv, Waits
  <2> QED
    BY <1>1, <2>1 DEF TlsConnect, IInv, Waits, readerVars
<1>5. Wire' /\ faithful'
  BY WireKept DEF IInv, TlsConnect, readerVars, brokerVars
<1>6. Between'
  BY <1>1, BetweenKept DEF IInv, TlsConnect, readerVars, brokerVars
<1> QED
  BY <1>1, <1>3, <1>4, <1>5, <1>6 DEF IInv

LEMMA WriteBegins ==
  ASSUME IInv, TlsWrite
  PROVE  IInv'
<1>1. waiting = "idle" /\ waiting' = "SEND" /\ state' = "none" /\ polling' = FALSE
  BY DEF TlsWrite, WaitFor, Idle
<1>2. /\ owed' \in [Kinds -> Nat] /\ \A k \in {"CONNECT", "RECV"} : owed'[k] = owed[k]
      /\ owed'["SEND"] = owed["SEND"] + 1
  <2>1. 1 \in Nat /\ "SEND" \in Kinds /\ {"CONNECT", "RECV"} \subseteq Kinds \ {"SEND"}
    BY DEF Kinds
  <2> QED
    BY <2>1, OwedType DEF TlsWrite, IInv
<1>3. TypeOK'
  BY <1>1, <1>2 DEF IInv, TypeOK, TlsWrite, readerVars, brokerVars, Kinds
<1>4. Waits'
  <2>1. \A k \in {"CONNECT", "RECV"} : Once(k)'
    BY <1>1, <1>2, OnceOthers DEF TlsWrite, IInv, Waits
  <2>2. Once("SEND")'
    BY <1>1, <1>2, OnceBegins DEF TlsWrite, IInv, Waits
  <2> QED
    BY <1>1, <2>1, <2>2 DEF TlsWrite, IInv, Waits, readerVars
<1>5. Wire' /\ faithful'
  BY WireKept DEF IInv, TlsWrite, readerVars, brokerVars
<1>6. Between'
  BY <1>1, BetweenKept DEF IInv, TlsWrite, readerVars, brokerVars
<1> QED
  BY <1>1, <1>3, <1>4, <1>5, <1>6 DEF IInv

LEMMA Closes ==
  ASSUME IInv, TlsClose
  PROVE  IInv'
<1>1. /\ waiting = "idle" /\ waiting' = "idle" /\ open' = FALSE /\ out' = << >> /\ sent' = 0
      /\ UNCHANGED << portVars, readerVars, waiting, polling, conn, owed, hif >>
  BY DEF TlsClose, Idle
<1>2. TypeOK'
  <2>1. out' \in Seq(Byte) /\ sent' \in 0 .. MaxStream
    BY <1>1, SizeAssumption
  <2> QED
    BY <1>1, <2>1 DEF IInv, TypeOK, readerVars, portVars
<1>3. Waits'
  <2>1. \A k \in {"CONNECT", "SEND", "RECV"} : Once(k)'
    BY <1>1, OnceOthers DEF IInv, Waits
  <2> QED
    BY <1>1, <2>1 DEF IInv, Waits, readerVars
<1>4. Wire'
  <2>1. Len(out') = 0 /\ Len(<< >>) <= 0
    BY <1>1, EmptySeq
  <2>2. \A i \in 1 .. 0 : FALSE
    OBVIOUS
  <2>3. Run(out', 1, Len(out'), conn', sent' - Len(out')) /\ Closed(out', 1, Len(out'))
    BY <2>1, <2>2 DEF Run, Closed
  <2>4. cursor.conn <= conn /\ cursor' = cursor /\ conn' = conn
    BY <1>1 DEF IInv, Wire, readerVars
  <2> QED
    BY <1>1, <2>1, <2>3, <2>4 DEF Wire
<1>5. Between'
  BY <1>1 DEF IInv, Between, readerVars, portVars, Filled, Run, Closed, EndOf
<1> QED
  BY <1>1, <1>2, <1>3, <1>4, <1>5 DEF IInv, readerVars

LEMMA WaitsOn ==
  ASSUME IInv, StillWaiting
  PROVE  IInv'
<1>1. /\ polling' = FALSE
      /\ UNCHANGED << portVars, readerVars, brokerVars, waiting, conn, open, owed, hif >>
  BY DEF StillWaiting
<1>2. TypeOK'
  BY <1>1 DEF IInv, TypeOK, readerVars, portVars, brokerVars
<1>3. Waits'
  <2>1. \A k \in {"CONNECT", "SEND", "RECV"} : Once(k)'
    BY <1>1, OnceKept DEF IInv, Waits, portVars
  <2> QED
    BY <1>1, <2>1 DEF IInv, Waits, readerVars
<1>4. Wire' /\ faithful'
  BY <1>1, WireKept DEF IInv, readerVars, brokerVars
<1>5. waiting' # "RECV" => Between'
  BY <1>1, BetweenKept DEF IInv, readerVars, brokerVars, portVars
<1>6. waiting' = "RECV" => Receiving'
  BY <1>1, ReceivingKept DEF IInv, readerVars, brokerVars, portVars
<1> QED
  BY <1>2, <1>3, <1>4, <1>5, <1>6 DEF IInv

\* An operation that waited goes on.
LEMMA Ended ==
  ASSUME IInv, NEW kind \in {"CONNECT", "SEND", "RECV"}, WaitEnds(kind), waiting' # kind,
         owed' = owed
  PROVE  Once(kind)' /\ owed[kind] = 0 /\ Absent(kind)
<1>1. Once(kind) /\ waiting = kind /\ state = kind /\ hif' = hif
  BY DEF WaitEnds, IInv, Waits
<1> QED
  BY <1>1, OnceEnds DEF Once

LEMMA SendEnds ==
  ASSUME IInv, AfterSend
  PROVE  IInv'
<1>1. /\ waiting = "SEND" /\ waiting' = "idle" /\ polling' = FALSE /\ WaitEnds("SEND")
      /\ UNCHANGED << state, received_bytes, owed, conn, open, readerVars >>
      /\ UNCHANGED << err, gu32HostIp, buf, hif, brokerVars >>
  BY DEF AfterSend, WaitEnds
<1>2. TypeOK'
  BY <1>1 DEF IInv, TypeOK, readerVars, brokerVars
<1>3. Waits'
  <2>1. \A k \in {"CONNECT", "RECV"} : Once(k)'
    BY <1>1, OnceOthers DEF IInv, Waits
  <2>2. Once("SEND")'
    BY <1>1, Ended
  <2> QED
    BY <1>1, <2>1, <2>2 DEF IInv, Waits, readerVars
<1>4. Wire' /\ faithful'
  BY <1>1, WireKept DEF IInv, readerVars, brokerVars
<1>5. Between'
  BY <1>1, BetweenKept DEF IInv, readerVars, brokerVars
<1> QED
  BY <1>1, <1>2, <1>3, <1>4, <1>5 DEF IInv

LEMMA DnsEnds ==
  ASSUME IInv, AfterDns
  PROVE  IInv'
<1>1. /\ waiting = "DNS"
      /\ UNCHANGED << err, gu32HostIp, buf, hif, brokerVars, received_bytes, conn, open,
                      readerVars >>
  BY DEF AfterDns, WaitEnds
<1>2. Wire' /\ faithful'
  BY <1>1, WireKept DEF IInv, readerVars, brokerVars
<1>3. Between'
  BY <1>1, BetweenKept DEF IInv, readerVars, brokerVars
<1>4. CASE WaitFor("CONNECT") /\ Owe("CONNECT", 1)
  <2>1. waiting' = "CONNECT" /\ state' = "none" /\ polling' = FALSE
    BY <1>4 DEF WaitFor
  <2>2. /\ owed' \in [Kinds -> Nat] /\ \A k \in {"SEND", "RECV"} : owed'[k] = owed[k]
        /\ owed'["CONNECT"] = owed["CONNECT"] + 1
    <3>1. 1 \in Nat /\ "CONNECT" \in Kinds /\ {"SEND", "RECV"} \subseteq Kinds \ {"CONNECT"}
      BY DEF Kinds
    <3> QED
      BY <1>4, <3>1, OwedType DEF IInv
  <2>3. TypeOK'
    BY <1>1, <2>1, <2>2 DEF IInv, TypeOK, readerVars, brokerVars, Kinds
  <2>4. \A k \in {"SEND", "RECV"} : Once(k)'
    BY <1>1, <2>1, <2>2, OnceOthers DEF IInv, Waits
  <2>5. Once("CONNECT")'
    BY <1>1, <2>1, <2>2, OnceBegins DEF IInv, Waits
  <2>6. Waits'
    BY <1>1, <2>1, <2>4, <2>5 DEF IInv, Waits, readerVars
  <2> QED
    BY <1>2, <1>3, <2>1, <2>3, <2>6 DEF IInv
<1>5. CASE waiting' = "idle" /\ polling' = FALSE /\ UNCHANGED << state, owed >>
  <2>1. TypeOK'
    BY <1>1, <1>5 DEF IInv, TypeOK, readerVars, brokerVars
  <2>2. \A k \in {"CONNECT", "SEND", "RECV"} : Once(k)'
    BY <1>1, <1>5, OnceOthers DEF IInv, Waits
  <2>3. Waits'
    BY <1>1, <1>5, <2>2 DEF IInv, Waits, readerVars
  <2> QED
    BY <1>2, <1>3, <1>5, <2>1, <2>3 DEF IInv
<1> QED
  BY <1>4, <1>5 DEF AfterDns

LEMMA ConnectEnds ==
  ASSUME IInv, AfterConnect
  PROVE  IInv'
<1>1. /\ waiting = "CONNECT" /\ waiting' = "idle" /\ polling' = FALSE /\ WaitEnds("CONNECT")
      /\ open' = ~err /\ conn' = IF err THEN conn ELSE conn + 1
      /\ UNCHANGED << state, received_bytes, owed, readerVars >>
      /\ UNCHANGED << err, gu32HostIp, buf, hif, brokerVars >>
  BY DEF AfterConnect, WaitEnds
<1>2. /\ ~open /\ conn \in Nat /\ conn < MaxConns /\ conn' \in 0 .. MaxConns /\ conn' >= conn
      /\ out = << >> /\ out' = << >> /\ sent = 0 /\ sent' = 0 /\ cursor' = cursor
      /\ cursor.conn \in Nat /\ cursor.conn <= conn /\ (~err => conn' = conn + 1)
  <2>1. ~open /\ conn < MaxConns /\ out = << >> /\ sent = 0 /\ cursor.conn <= conn
    BY <1>1 DEF IInv, Waits, Wire
  <2>2. conn \in Nat /\ MaxConns \in Nat /\ cursor.conn \in Nat
    BY SizeAssumption DEF IInv, TypeOK
  <2>3. out' = out /\ sent' = sent /\ cursor' = cursor
    BY <1>1 DEF brokerVars, readerVars
  <2> QED
    BY <1>1, <2>1, <2>2, <2>3
<1>3. TypeOK'
  BY <1>1, <1>2 DEF IInv, TypeOK, readerVars, brokerVars
<1>4. Waits'
  <2>1. \A k \in {"SEND", "RECV"} : Once(k)'
    BY <1>1, OnceOthers DEF IInv, Waits
  <2>2. Once("CONNECT")'
    BY <1>1, Ended
  <2> QED
    BY <1>1, <2>1, <2>2 DEF IInv, Waits, readerVars
<1>5. Len(out') = 0
  BY <1>2, EmptySeq
<1>6. Wire' /\ faithful'
  <2>1. \A i \in 1 .. 0 : FALSE
    OBVIOUS
  <2>2. Run(out', 1, Len(out'), conn', sent' - Len(out')) /\ Closed(out', 1, Len(out'))
    BY <1>5, <2>1 DEF Run, Closed
  <2>3. Len(out') <= sent' /\ cursor'.conn <= conn'
    BY <1>2, <1>5
  <2>4. faithful'
    BY <1>1 DEF IInv, readerVars
  <2> QED
    BY <1>2, <2>2, <2>3, <2>4 DEF Wire
<1>7. Between'
  <2>1. Between
    BY <1>1 DEF IInv
  <2>2. open' => cursor'.conn # conn'
    <3>1. CASE err
      BY <1>1, <3>1
    <3>2. CASE ~err
      <4>1. conn' = conn + 1
        BY <1>2, <3>2
      <4>2. cursor.conn # conn + 1
        BY <1>2
      <4> QED
        BY <1>2, <4>1, <4>2
    <3> QED
      BY <3>1, <3>2
  <2>3. open' => Got' + (IF cursor'.conn = conn' THEN received_bytes' ELSE 0) + Len(out') = sent'
    BY <1>2, <1>5, <2>2 DEF Got
  <2> QED
    BY <1>1, <2>1, <2>3 DEF Between, readerVars, Filled, Run, Closed, EndOf
<1> QED
  BY <1>1, <1>3, <1>4, <1>6, <1>7 DEF IInv

----------------------------------------------------------------------------
(* The steps of a read. *)

LEMMA RecvBegins ==
  ASSUME IInv, ReadFromSocket
  PROVE  IInv'
<1>1. /\ waiting = "idle" /\ waiting' = "RECV" /\ state' = "none" /\ polling' = FALSE
      /\ open /\ received_bytes = 0 /\ buf_ptr' = 0
      /\ UNCHANGED << err, gu32HostIp, received_bytes, buf, conn, open, hif >>
      /\ UNCHANGED << reader, cursor, faithful, out, sent >>
  BY DEF ReadFromSocket, WaitFor, Idle, brokerVars
<1>2. /\ owed' \in [Kinds -> Nat] /\ \A k \in {"CONNECT", "SEND"} : owed'[k] = owed[k]
      /\ owed'["RECV"] = owed["RECV"] + 1
  <2>1. 1 \in Nat /\ "RECV" \in Kinds /\ {"CONNECT", "SEND"} \subseteq Kinds \ {"RECV"}
    BY DEF Kinds
  <2> QED
    BY <2>1, OwedType DEF ReadFromSocket, IInv
<1>3. TypeOK'
  BY <1>1, <1>2 DEF IInv, TypeOK, Kinds
<1>4. Once("RECV")' /\ Absent("RECV") /\ Absent("RECV")' /\ owed'["RECV"] = 1
  BY <1>1, <1>2, OnceBegins DEF IInv, Waits
<1>5. reader = Start
  BY <1>1 DEF IInv, Between
<1>6. Waits'
  <2>1. \A k \in {"CONNECT", "SEND"} : Once(k)'
    BY <1>1, <1>2, OnceOthers DEF IInv, Waits
  <2> QED
    BY <1>1, <1>4, <1>5, <2>1 DEF IInv, Waits
<1>7. Wire' /\ faithful'
  BY <1>1, WireKept DEF IInv
<1>8. Got' + Len(out') = sent'
  <2>1. Got + (IF cursor.conn = conn THEN received_bytes ELSE 0) + Len(out) = sent
    BY <1>1 DEF IInv, Between
  <2>2. Got \in Nat /\ Len(out) \in Nat /\ Got' = Got
    BY <1>1, LenProperties DEF IInv, TypeOK, Got
  <2>3. (IF cursor.conn = conn THEN received_bytes ELSE 0) = 0
    BY <1>1
  <2> QED
    BY <1>1, <2>1, <2>2, <2>3
<1>9. Receiving'
  <2>1. \A i \in DOMAIN hif' : hif'[i].kind # "RECV"
    BY <1>4 DEF Absent
  <2>2. ~Handled' /\ received_bytes' = 0
    BY <1>1, <1>4 DEF Handled
  <2> QED
    BY <1>8, <2>1, <2>2 DEF Receiving
<1> QED
  BY <1>1, <1>3, <1>6, <1>7, <1>9 DEF IInv

LEMMA RecvRefused ==
  ASSUME IInv, ReadRefused
  PROVE  IInv'
<1>1. /\ waiting = "idle" /\ received_bytes = 0 /\ buf_ptr' = 0 /\ reader' = Start
      /\ UNCHANGED << portVars, waiting, polling, conn, open, cursor, faithful, owed, hif, out, sent >>
  BY DEF ReadRefused, Idle, brokerVars
<1>2. TypeOK'
  <2>1. reader' \in [phase : {"header", "length", "body"}, rem : Nat] /\ buf_ptr' \in Nat
    BY <1>1 DEF Start
  <2> QED
    BY <1>1, <2>1 DEF IInv, TypeOK, portVars
<1>3. Waits'
  <2>1. \A k \in {"CONNECT", "SEND", "RECV"} : Once(k)'
    BY <1>1, OnceOthers DEF IInv, Waits
  <2>2. reader'.phase = "header"
    BY <1>1 DEF Start
  <2> QED
    BY <1>1, <2>1, <2>2 DEF IInv, Waits
<1>4. Wire' /\ faithful'
  BY <1>1, WireKept DEF IInv
<1>5. Between'
  <2>1. open' => Got' + (IF cursor'.conn = conn' THEN received_bytes' ELSE 0) + Len(out') = sent'
    BY <1>1 DEF IInv, Between, Got, portVars
  <2>2. reader' = Start /\ ~(received_bytes' > 0)
    BY <1>1 DEF portVars
  <2> QED
    BY <2>1, <2>2 DEF Between
<1> QED
  BY <1>1, <1>2, <1>3, <1>4, <1>5 DEF IInv

LEMMA BufferRead ==
  ASSUME IInv, ReadFromBuffer
  PROVE  IInv'
<1>1. /\ waiting = "idle" /\ open /\ received_bytes # 0
      /\ HandOver(buf, received_bytes, buf_ptr)
      /\ UNCHANGED << waiting, polling, state, err, gu32HostIp, buf, conn, open, owed, hif, out, sent >>
  BY DEF ReadFromBuffer, Idle, brokerVars
<1>2. TypeOK /\ Between /\ Waits /\ Wire
  BY <1>1 DEF IInv
<1>3. received_bytes > 0 /\ received_bytes \in Nat
  BY <1>1, <1>2, SizeAssumption DEF TypeOK
<1>4. Aligned
  <2>1. /\ buf[buf_ptr + 1].off = CASE reader.phase = "header" -> 0
                                    [] reader.phase = "length" -> 1
                                    [] OTHER -> 2
        /\ reader.phase = "body" => reader.rem = buf[buf_ptr + 1].size - 2
    BY <1>2, <1>3 DEF Between
  <2> QED
    BY <1>2, <2>1 DEF Aligned, Waits
<1> DEFINE c == cursor.conn
           q == cursor.pos
<1>5. /\ buf \in [1 .. BufSize -> Byte] /\ buf_ptr \in Nat /\ received_bytes \in 0 .. Wrap - 1
      /\ cursor \in [conn : 0 .. MaxConns, pos : 0 .. MaxStream] /\ faithful
      /\ reader \in [phase : {"header", "length", "body"}, rem : Nat]
      /\ q \in Nat /\ Filled <= BufSize
      /\ Run(buf, buf_ptr + 1, Filled, c, q) /\ Closed(buf, buf_ptr + 1, Filled)
  BY <1>2, <1>3 DEF TypeOK, IInv, Between
<1> HIDE DEF c, q
<1>6. /\ Asks \in 1 .. received_bytes
      /\ received_bytes' = received_bytes - Asks /\ received_bytes' \in 0 .. Wrap - 1
      /\ buf_ptr' = buf_ptr + Asks /\ buf_ptr' \in Nat /\ Filled' = Filled
      /\ cursor' = [conn |-> c, pos |-> q + Asks]
      /\ cursor' \in [conn : 0 .. MaxConns, pos : 0 .. MaxStream]
      /\ faithful'
      /\ reader' \in [phase : {"header", "length", "body"}, rem : Nat]
      /\ reader'.phase = "body" => reader'.rem > 0
      /\ received_bytes' = 0 => reader' = Start
      /\ received_bytes' > 0 => Aligned'
      /\ Run(buf, buf_ptr' + 1, Filled, c, q + Asks)
      /\ Closed(buf, buf_ptr' + 1, Filled)
  <2>1. c = cursor.conn /\ q = cursor.pos /\ buf' = buf
    BY <1>1 DEF c, q
  <2> QED
    BY <1>1, <1>3, <1>4, <1>5, <2>1, Served
<1>7. TypeOK'
  BY <1>1, <1>2, <1>6 DEF TypeOK
<1>8. Waits'
  <2>1. \A k \in {"CONNECT", "SEND", "RECV"} : Once(k)'
    BY <1>1, <1>2, OnceOthers DEF Waits
  <2> QED
    BY <1>1, <1>2, <1>6, <2>1 DEF Waits
<1>9. cursor'.conn = c /\ cursor'.pos = q + Asks /\ c = cursor.conn /\ q = cursor.pos
  BY <1>6 DEF c, q
<1>10. Wire'
  BY <1>1, <1>2, <1>9 DEF Wire, Run, Closed, EndOf
<1>11. Between'
  <2>1. Got' + (IF cursor'.conn = conn' THEN received_bytes' ELSE 0) + Len(out') = sent'
    <3>1. Got + (IF c = conn THEN received_bytes ELSE 0) + Len(out) = sent
      BY <1>1, <1>2, <1>9 DEF Between
    <3>2. Len(out) \in Nat /\ Asks \in Nat /\ conn' = conn /\ out' = out /\ sent' = sent
      BY <1>1, <1>2, <1>3, <1>6, LenProperties DEF TypeOK
    <3>3. CASE c = conn
      <4>1. Got = q /\ Got' = q + Asks
        BY <1>9, <3>2, <3>3 DEF Got
      <4>2. q + received_bytes + Len(out) = sent
        BY <3>1, <3>3, <4>1
      <4>3. q + Asks + (received_bytes - Asks) + Len(out) = sent
        BY <1>3, <1>5, <3>2, <4>2
      <4> QED
        BY <1>6, <1>9, <3>2, <3>3, <4>1, <4>3
    <3>4. CASE c # conn
      <4>1. Got = 0 /\ Got' = 0
        BY <1>9, <3>2, <3>4 DEF Got
      <4> QED
        BY <1>9, <3>1, <3>2, <3>4, <4>1
    <3> QED
      BY <3>3, <3>4
  <2>2. received_bytes' > 0 =>
          /\ Filled' <= BufSize
          /\ Run(buf', buf_ptr' + 1, Filled', cursor'.conn, cursor'.pos)
          /\ Closed(buf', buf_ptr' + 1, Filled')
    BY <1>1, <1>5, <1>6, <1>9
  <2>3. received_bytes' > 0 => Aligned'
    BY <1>6
  <2> QED
    BY <1>6, <2>1, <2>2, <2>3 DEF Between, Aligned
<1> QED
  BY <1>1, <1>6, <1>7, <1>8, <1>10, <1>11 DEF IInv

LEMMA RecvEnds ==
  ASSUME IInv, AfterRecv
  PROVE  IInv'
<1>1. /\ waiting = "RECV" /\ waiting' = "idle" /\ polling' = FALSE /\ state = "RECV"
      /\ WaitEnds("RECV")
      /\ UNCHANGED << state, owed, conn, open, err, gu32HostIp, buf, hif, out, sent >>
  BY DEF AfterRecv, WaitEnds, brokerVars
<1>2. TypeOK /\ Receiving /\ Waits /\ Wire /\ open /\ reader = Start /\ buf_ptr = 0 /\ faithful
  BY <1>1 DEF IInv, Waits
<1>3. owed["RECV"] = 0 /\ Absent("RECV") /\ Once("RECV")'
  BY <1>1, Ended
<1>4. \A k \in {"CONNECT", "SEND", "RECV"} : Once(k)'
  BY <1>1, <1>2, <1>3, OnceOthers DEF Waits
<1>5. /\ err => received_bytes = 0 /\ Got + Len(out) = sent
      /\ ~err => Event(buf, received_bytes)
  BY <1>2, <1>3 DEF Receiving, Handled
<1>6. Len(out) \in Nat /\ Got \in Nat /\ conn \in Nat /\ cursor.conn \in Nat /\ cursor.conn <= conn
  BY <1>2, LenProperties, SizeAssumption DEF TypeOK, Got, Wire
<1>7. CASE err /\ reader' = Start /\ UNCHANGED << received_bytes, buf_ptr, cursor, faithful >>
  <2>1. TypeOK' /\ Waits' /\ Wire' /\ faithful'
    <3>1. TypeOK'
      BY <1>1, <1>2, <1>7 DEF TypeOK
    <3>2. Wire'
      BY <1>1, <1>2, <1>7, WireKept
    <3>3. Waits'
      BY <1>1, <1>2, <1>4, <1>7 DEF Waits
    <3> QED
      BY <1>2, <1>7, <3>1, <3>2, <3>3
  <2>2. Got' + (IF cursor'.conn = conn' THEN received_bytes' ELSE 0) + Len(out') = sent'
    <3>1. (IF cursor'.conn = conn' THEN received_bytes' ELSE 0) = 0
      BY <1>5, <1>7
    <3>2. Got' = Got /\ out' = out /\ sent' = sent
      BY <1>1, <1>7 DEF Got
    <3> QED
      BY <1>5, <1>6, <1>7, <3>1, <3>2
  <2>3. ~(received_bytes' > 0) /\ reader' = Start
    BY <1>5, <1>7
  <2> QED
    BY <1>1, <2>1, <2>2, <2>3 DEF IInv, Between
<1>8. CASE ~err /\ HandOver(buf, received_bytes, buf_ptr)
  <2>1. /\ received_bytes \in 1 .. BufSize /\ Got + received_bytes + Len(out) = sent
        /\ Run(buf, 1, received_bytes, conn, Got) /\ Closed(buf, 1, received_bytes)
        /\ buf[1].off = 0
    BY <1>5, <1>8 DEF Event
  <2>2. /\ received_bytes > 0 /\ Filled = received_bytes /\ Filled <= BufSize /\ buf_ptr + 1 = 1
        /\ received_bytes \in Nat
    BY <1>2, <2>1, SizeAssumption DEF Filled
  <2>3. Aligned
    <3>1. reader.phase = "header"
      BY <1>2 DEF Start
    <3> QED
      BY <2>1, <2>2, <3>1 DEF Aligned
  <2> DEFINE q == Got
  <2>4. \/ conn = cursor.conn /\ q = cursor.pos
        \/ conn > cursor.conn /\ q = 0
    BY <1>6 DEF Got
  <2>5. /\ buf \in [1 .. BufSize -> Byte] /\ buf_ptr \in Nat /\ received_bytes \in 0 .. Wrap - 1
        /\ cursor \in [conn : 0 .. MaxConns, pos : 0 .. MaxStream]
        /\ reader \in [phase : {"header", "length", "body"}, rem : Nat]
        /\ q \in Nat
        /\ Run(buf, buf_ptr + 1, Filled, conn, q) /\ Closed(buf, buf_ptr + 1, Filled)
    BY <1>2, <1>6, <2>1, <2>2 DEF TypeOK
  <2> HIDE DEF q
  <2>6. /\ Asks \in 1 .. received_bytes
        /\ received_bytes' = received_bytes - Asks /\ received_bytes' \in 0 .. Wrap - 1
        /\ buf_ptr' = buf_ptr + Asks /\ buf_ptr' \in Nat /\ Filled' = Filled
        /\ cursor' = [conn |-> conn, pos |-> q + Asks]
        /\ cursor' \in [conn : 0 .. MaxConns, pos : 0 .. MaxStream]
        /\ faithful'
        /\ reader' \in [phase : {"header", "length", "body"}, rem : Nat]
        /\ reader'.phase = "body" => reader'.rem > 0
        /\ received_bytes' = 0 => reader' = Start
        /\ received_bytes' > 0 => Aligned'
        /\ Run(buf, buf_ptr' + 1, Filled, conn, q + Asks)
        /\ Closed(buf, buf_ptr' + 1, Filled)
    BY <1>1, <1>2, <1>8, <2>2, <2>3, <2>4, <2>5, Served
  <2>7. TypeOK'
    BY <1>1, <1>2, <2>6 DEF TypeOK
  <2>8. Waits'
    BY <1>1, <1>2, <1>4, <2>6 DEF Waits
  <2>9. cursor'.conn = conn /\ cursor'.pos = q + Asks
    BY <2>6
  <2>10. Wire'
    BY <1>1, <1>2, <1>6, <2>9 DEF Wire, Run, Closed, EndOf
  <2>11. Got' + (IF cursor'.conn = conn' THEN received_bytes' ELSE 0) + Len(out') = sent'
    <3>1. Got' = q + Asks /\ out' = out /\ sent' = sent /\ conn' = conn
      BY <1>1, <2>9 DEF Got
    <3>2. q + received_bytes + Len(out) = sent
      BY <2>1 DEF q
    <3>3. q + Asks + (received_bytes - Asks) + Len(out) = sent
      BY <1>6, <2>2, <2>5, <2>6, <3>2
    <3> QED
      BY <2>6, <2>9, <3>1, <3>3
  <2>12. received_bytes' > 0 =>
           /\ Filled' <= BufSize
           /\ Run(buf', buf_ptr' + 1, Filled', cursor'.conn, cursor'.pos)
           /\ Closed(buf', buf_ptr' + 1, Filled')
    BY <1>1, <2>2, <2>6, <2>9
  <2>13. Between'
    BY <2>6, <2>11, <2>12 DEF Between, Aligned
  <2> QED
    BY <1>1, <2>6, <2>7, <2>8, <2>10, <2>13 DEF IInv
<1> QED
  BY <1>7, <1>8 DEF AfterRecv

\* The place in the stream that an event or the buffer begins at.
LEMMA EventMoved ==
  ASSUME NEW s, NEW t, NEW n \in Nat, Event(s, n), \A i \in 1 .. n : t[i] = s[i] /\ t[i] \in Byte,
         cursor.conn = conn => cursor.pos \in Nat
  PROVE  Event(t, n)
<1>1. n \in 1 .. BufSize /\ Got + n + Len(out) = sent
      /\ Run(s, 1, n, conn, Got) /\ Closed(s, 1, n) /\ s[1].off = 0
  BY DEF Event
<1>2. 1 \in 1 .. n /\ Got \in Nat
  BY <1>1 DEF Got
<1>3. Closed(t, 1, n) /\ Run(t, 1, n, conn, Got)
  BY <1>1, <1>2, SameBytes
<1> QED
  BY <1>1, <1>2, <1>3 DEF Event

LEMMA EventHandled ==
  ASSUME IInv, HandleEvent
  PROVE  IInv'
<1> DEFINE r == Head(hif)
<1>1. /\ hif # << >> /\ hif' = Tail(hif) /\ polling' = TRUE
      /\ \/ r.kind = "DNS" /\ resolve_cb(r)
         \/ r.kind # "DNS" /\ socket_cb(r)
      /\ UNCHANGED << waiting, conn, open, owed, buf_ptr, reader, cursor, faithful, out, sent >>
  BY DEF HandleEvent, readerVars, brokerVars
<1>2. TypeOK /\ Waits /\ Wire /\ faithful /\ hif \in Seq(Reply)
  BY DEF IInv, TypeOK
<1>3. /\ hif' \in Seq(Reply) /\ r \in Reply /\ r = hif[1] /\ 1 \in DOMAIN hif
      /\ \A i \in DOMAIN hif' : i + 1 \in DOMAIN hif /\ hif'[i] = hif[i + 1]
  BY <1>1, <1>2, ReplyTaken
<1> HIDE DEF r
<1>4. r.kind \in Kinds /\ r.ok \in BOOLEAN /\ r.data \in Seq(Byte)
  BY <1>3 DEF Reply
<1>5. state' = r.kind
  BY <1>1 DEF resolve_cb, socket_cb
<1>6. \A k \in {"CONNECT", "SEND", "RECV"} :
        /\ Once(k)'
        /\ r.kind = k => waiting = k /\ owed[k] = 0 /\ Absent(k)'
        /\ r.kind # k /\ Absent(k)' => Absent(k)
  BY <1>1, <1>2, <1>5, OnceHandled DEF r, Waits
<1>7. Waits'
  BY <1>1, <1>2, <1>6 DEF Waits
<1>8. Wire' /\ faithful'
  BY <1>1, <1>2, WireKept
<1>9. Got' = Got /\ Len(out') = Len(out) /\ sent' = sent
  BY <1>1 DEF Got
<1>10. CASE r.kind # "RECV"
  <2>1. /\ UNCHANGED << received_bytes, buf >> /\ err' \in BOOLEAN /\ gu32HostIp' \in BOOLEAN
        /\ r.kind = "DNS" => err' = err
    BY <1>1, <1>2, <1>4, <1>10 DEF resolve_cb, socket_cb, TypeOK
  <2>2. TypeOK'
    BY <1>1, <1>2, <1>3, <1>4, <1>5, <2>1 DEF TypeOK
  <2>3. waiting' # "RECV" => Between'
    BY <1>1, <2>1, BetweenKept DEF IInv
  <2>4. waiting' = "RECV" => Receiving'
    <3> SUFFICES ASSUME waiting = "RECV"
                 PROVE  Receiving'
      BY <1>1
    <3>1. r.kind = "DNS"
      BY <1>4, <1>6, <1>10 DEF Kinds
    <3>2. Receiving /\ err' = err
      BY <2>1, <3>1 DEF IInv
    <3>3. Handled' => Handled
      BY <1>1, <1>6, <1>10 DEF Handled
    <3>4. \A i \in DOMAIN hif' : hif'[i].kind = "RECV" =>
            (IF hif[i].ok THEN Event(hif[i].data, Len(hif[i].data)) ELSE Got + Len(out) = sent)'
      <4> SUFFICES ASSUME NEW i \in DOMAIN hif', hif'[i].kind = "RECV"
                   PROVE  (IF hif[i].ok THEN Event(hif[i].data, Len(hif[i].data))
                           ELSE Got + Len(out) = sent)'
        OBVIOUS
      <4> DEFINE j == i + 1
      <4>1. j \in DOMAIN hif /\ hif'[i] = hif[j]
        BY <1>3
      <4> HIDE DEF j
      <4>2. IF hif[j].ok THEN Event(hif[j].data, Len(hif[j].data)) ELSE Got + Len(out) = sent
        BY <3>2, <4>1 DEF Receiving
      <4>3. hif'[i].ok = hif[j].ok /\ hif'[i].data = hif[j].data
        BY <4>1
      <4> QED
        BY <1>1, <1>9, <4>2, <4>3 DEF Event
    <3>5. ~Handled' => ~Handled
      <4> SUFFICES ASSUME Handled
                   PROVE  Handled'
        OBVIOUS
      <4>1. Absent("RECV")'
        BY <1>1, <1>2, <1>5, OnceHandled DEF Handled, Waits, r
      <4> QED
        BY <1>1, <4>1 DEF Handled
    <3>6. /\ ~Handled' => received_bytes' = 0
          /\ owed'["RECV"] = 1 => Got' + Len(out') = sent'
          /\ Handled' /\ err' => received_bytes' = 0 /\ Got' + Len(out') = sent'
      BY <1>1, <1>9, <2>1, <3>2, <3>3, <3>5 DEF Receiving
    <3>7. Handled' /\ ~err' => Event(buf, received_bytes)'
      BY <1>1, <1>9, <2>1, <3>2, <3>3 DEF Receiving, Event
    <3> QED
      BY <3>4, <3>6, <3>7 DEF Receiving
  <2> QED
    BY <1>7, <1>8, <2>2, <2>3, <2>4 DEF IInv
<1>11. CASE r.kind = "RECV"
  <2>1. waiting = "RECV" /\ owed["RECV"] = 0 /\ Absent("RECV")' /\ Receiving
    BY <1>6, <1>11 DEF IInv
  <2>2. received_bytes = 0 /\ Handled'
    BY <1>1, <1>3, <1>11, <2>1 DEF Receiving, Handled, Absent
  <2>3. \A i \in DOMAIN hif' : hif'[i].kind # "RECV"
    BY <2>1 DEF Absent
  <2>4. owed'["RECV"] # 1
    BY <1>1, <2>1
  <2>5. IF r.ok THEN Event(r.data, Len(r.data)) ELSE Got + Len(out) = sent
    BY <1>3, <1>11, <2>1 DEF Receiving
  <2>6. CASE ~r.ok
    <3>1. err' = TRUE /\ UNCHANGED << received_bytes, buf, gu32HostIp >>
      BY <1>1, <1>11, <2>6 DEF socket_cb
    <3>2. TypeOK'
      BY <1>1, <1>2, <1>3, <1>4, <1>5, <3>1 DEF TypeOK
    <3>3. Receiving'
      BY <1>9, <2>2, <2>3, <2>4, <2>5, <2>6, <3>1 DEF Receiving
    <3> QED
      BY <1>1, <1>7, <1>8, <2>1, <3>2, <3>3 DEF IInv
  <2>7. CASE r.ok
    <3> DEFINE n == Len(r.data)
    <3>1. /\ err' = FALSE /\ received_bytes' = LastPiece(n) /\ buf' = Fill(buf, r.data)
          /\ gu32HostIp' = gu32HostIp
      BY <1>1, <1>11, <2>7 DEF socket_cb
    <3>2. Event(r.data, n) /\ n \in 1 .. BufSize
      BY <2>5, <2>7 DEF Event
    <3>3. /\ received_bytes' = n /\ buf' \in [1 .. BufSize -> Byte]
          /\ \A i \in 1 .. n : buf'[i] = r.data[i]
      BY <1>2, <1>4, <3>1, <3>2, Filling DEF TypeOK
    <3>4. \A i \in 1 .. n : r.data[i] \in Byte
      BY <1>4, ElementOfSeq
    <3> HIDE DEF n
    <3>5. n \in Nat /\ received_bytes' \in 0 .. Wrap - 1
      BY <3>2, <3>3, SizeAssumption
    <3>6. TypeOK'
      BY <1>1, <1>2, <1>3, <1>4, <1>5, <3>1, <3>3, <3>5 DEF TypeOK
    <3>7. cursor.pos \in Nat
      BY <1>2 DEF TypeOK
    <3>8. Event(buf', n)
      <4>1. \A i \in 1 .. n : buf'[i] = r.data[i] /\ buf'[i] \in Byte
        BY <3>3, <3>4
      <4> QED
        BY <3>2, <3>5, <3>7, <4>1, EventMoved
    <3>9. Event(buf, received_bytes)'
      BY <1>1, <1>9, <3>3, <3>8 DEF Event
    <3>10. Receiving'
      BY <1>9, <2>2, <2>3, <2>4, <3>1, <3>9 DEF Receiving
    <3> QED
      BY <1>1, <1>7, <1>8, <2>1, <3>6, <3>10 DEF IInv
  <2> QED
    BY <2>6, <2>7
<1> QED
  BY <1>10, <1>11

----------------------------------------------------------------------------
(* The broker and the controller. *)

LEMMA Raising ==
  ASSUME IInv, NEW kind \in Kinds, NEW ok \in BOOLEAN, NEW data \in Seq(Byte),
         Raise(kind, ok, data)
  PROVE  /\ owed' \in [Kinds -> Nat] /\ hif' \in Seq(Reply) /\ Waits'
         /\ kind # "RECV" => /\ owed'["RECV"] = owed["RECV"]
                             /\ Absent("RECV")' <=> Absent("RECV")
         /\ kind = "RECV" => /\ waiting = "RECV" /\ owed["RECV"] = 1 /\ Absent("RECV")
                             /\ owed'["RECV"] = 0 /\ received_bytes = 0
                             /\ Got + Len(out) = sent /\ ~Handled'
         /\ \A i \in DOMAIN hif' :
              \/ i \in DOMAIN hif /\ hif'[i] = hif[i]
              \/ hif'[i] = [kind |-> kind, ok |-> ok, data |-> data]
         /\ UNCHANGED << portVars, readerVars, waiting, polling, conn, open, sent >>
<1> DEFINE r == [kind |-> kind, ok |-> ok, data |-> data]
<1>1. /\ owed[kind] > 0 /\ owed' = [owed EXCEPT ![kind] = @ - 1] /\ hif' = Append(hif, r)
      /\ UNCHANGED << portVars, readerVars, waiting, polling, conn, open, sent >>
  BY DEF Raise
<1>2. TypeOK /\ Waits /\ hif \in Seq(Reply) /\ owed \in [Kinds -> Nat]
  BY DEF IInv, TypeOK
<1>3. r \in Reply /\ r.kind = kind
  BY DEF Reply
<1> HIDE DEF r
<1>4. owed' \in [Kinds -> Nat] /\ owed'[kind] = owed[kind] - 1
  <2>1. owed[kind] - 1 \in Nat
    BY <1>1, <1>2
  <2> QED
    BY <1>1, <1>2, <2>1
<1>5. hif' \in Seq(Reply)
  BY <1>1, <1>2, <1>3, AppendProperties
<1>6. /\ DOMAIN hif' = 1 .. Len(hif) + 1 /\ DOMAIN hif = 1 .. Len(hif) /\ Len(hif) \in Nat
      /\ \A i \in DOMAIN hif : hif'[i] = hif[i]
      /\ hif'[Len(hif) + 1] = r
  BY <1>1, <1>2, ReplyAppended
<1>7. \A i \in DOMAIN hif' : i \in DOMAIN hif \/ i = Len(hif) + 1
  BY <1>6
<1>8. \A i \in DOMAIN hif' : (i \in DOMAIN hif /\ hif'[i] = hif[i]) \/ hif'[i] = r
  BY <1>6, <1>7
<1>9. \A k \in {"CONNECT", "SEND", "RECV"} : Once(k)'
  <2> SUFFICES ASSUME NEW k \in {"CONNECT", "SEND", "RECV"}
               PROVE  Once(k)'
    OBVIOUS
  <2>1. Once(k) /\ k \in Kinds
    BY <1>2 DEF Waits, Kinds
  <2>2. state' = state /\ waiting' = waiting
    BY <1>1 DEF portVars
  <2> QED
    BY <1>1, <1>2, <1>3, <2>1, <2>2, OnceRaised
<1>10. Waits'
  BY <1>1, <1>2, <1>9 DEF Waits, readerVars
<1>11. ASSUME kind # "RECV"
       PROVE  owed'["RECV"] = owed["RECV"] /\ (Absent("RECV")' <=> Absent("RECV"))
  <2>1. owed'["RECV"] = owed["RECV"]
    BY <1>1, <1>2, <1>11 DEF Kinds
  <2>2. Absent("RECV") => Absent("RECV")'
    BY <1>3, <1>8, <1>11 DEF Absent
  <2>3. Absent("RECV")' => Absent("RECV")
    <3>1. \A i \in DOMAIN hif : i \in DOMAIN hif' /\ hif'[i] = hif[i]
      BY <1>6
    <3> QED
      BY <3>1 DEF Absent
  <2> QED
    BY <2>1, <2>2, <2>3
<1>12. ASSUME kind = "RECV"
       PROVE  /\ waiting = "RECV" /\ owed["RECV"] = 1 /\ Absent("RECV")
              /\ owed'["RECV"] = 0 /\ received_bytes = 0
              /\ Got + Len(out) = sent /\ ~Handled'
  <2>1. owed["RECV"] # 0
    BY <1>1, <1>2, <1>12
  <2>2. waiting = "RECV" /\ owed["RECV"] = 1 /\ Absent("RECV")
    BY <1>2, <2>1 DEF Waits, Once
  <2>3. owed'["RECV"] = 0
    BY <1>4, <1>12, <2>2
  <2>4. Receiving /\ ~Handled
    BY <2>1, <2>2 DEF IInv, Handled
  <2>5. received_bytes = 0 /\ Got + Len(out) = sent
    BY <2>2, <2>4 DEF Receiving
  <2>6. Len(hif) + 1 \in DOMAIN hif' /\ hif'[Len(hif) + 1].kind = "RECV"
    BY <1>3, <1>6, <1>12
  <2>7. ~Handled'
    BY <2>6 DEF Handled, Absent
  <2> QED
    BY <2>2, <2>3, <2>5, <2>7
<1> QED
  BY <1>1, <1>4, <1>5, <1>8, <1>10, <1>11, <1>12 DEF r

LEMMA StatusRaised ==
  ASSUME IInv, NEW kind \in Kinds, NEW ok \in BOOLEAN, RaiseStatus(kind, ok)
  PROVE  IInv'
<1>1. << >> \in Seq(Byte) /\ Raise(kind, ok, << >>) /\ out' = out /\ (kind = "RECV" => ~ok)
  BY DEF RaiseStatus
<1>2. /\ owed' \in [Kinds -> Nat] /\ hif' \in Seq(Reply) /\ Waits'
      /\ kind # "RECV" => /\ owed'["RECV"] = owed["RECV"]
                          /\ Absent("RECV")' <=> Absent("RECV")
      /\ kind = "RECV" => /\ waiting = "RECV" /\ owed["RECV"] = 1 /\ Absent("RECV")
                          /\ owed'["RECV"] = 0 /\ received_bytes = 0
                          /\ Got + Len(out) = sent /\ ~Handled'
      /\ \A i \in DOMAIN hif' :
           \/ i \in DOMAIN hif /\ hif'[i] = hif[i]
           \/ hif'[i] = [kind |-> kind, ok |-> ok, data |-> << >>]
      /\ UNCHANGED << portVars, readerVars, waiting, polling, conn, open, sent >>
  BY <1>1, Raising
<1>3. TypeOK'
  BY <1>1, <1>2 DEF IInv, TypeOK, portVars, readerVars
<1>4. Wire' /\ faithful'
  BY <1>1, <1>2, WireKept DEF IInv, readerVars
<1>5. waiting' # "RECV" => Between'
  BY <1>1, <1>2, BetweenKept DEF IInv, readerVars, portVars
<1>6. waiting' = "RECV" => Receiving'
  <2> SUFFICES ASSUME waiting = "RECV"
               PROVE  Receiving'
    BY <1>2
  <2>1. Receiving
    BY DEF IInv
  <2>2. UNCHANGED << received_bytes, buf, err, cursor, conn, out, sent >> /\ Got' = Got
    BY <1>1, <1>2 DEF portVars, readerVars, Got
  <2>3. ASSUME NEW i \in DOMAIN hif', hif'[i].kind = "RECV"
        PROVE  (IF hif[i].ok THEN Event(hif[i].data, Len(hif[i].data))
                ELSE Got + Len(out) = sent)'
    <3>1. CASE i \in DOMAIN hif /\ hif'[i] = hif[i]
      BY <2>1, <2>2, <2>3, <3>1 DEF Receiving, Event
    <3>2. CASE hif'[i] = [kind |-> kind, ok |-> ok, data |-> << >>]
      BY <1>1, <1>2, <2>2, <2>3, <3>2
    <3> QED
      BY <1>2, <3>1, <3>2
  <2>4. CASE kind = "RECV"
    BY <1>2, <2>2, <2>3, <2>4 DEF Receiving
  <2>5. CASE kind # "RECV"
    <3>1. Handled' <=> Handled
      BY <1>2, <2>5 DEF Handled
    <3>2. Handled' /\ ~err' => Event(buf, received_bytes)'
      BY <2>1, <2>2, <3>1 DEF Receiving, Event
    <3>3. /\ ~Handled' => received_bytes' = 0
          /\ owed'["RECV"] = 1 => Got' + Len(out') = sent'
          /\ Handled' /\ err' => received_bytes' = 0 /\ Got' + Len(out') = sent'
      BY <1>2, <2>1, <2>2, <2>5, <3>1 DEF Receiving
    <3> QED
      BY <2>3, <3>2, <3>3 DEF Receiving
  <2> QED
    BY <2>4, <2>5
<1> QED
  BY <1>2, <1>3, <1>4, <1>5, <1>6 DEF IInv

\* The first n bytes on the wire and those after them.
LEMMA WireCut ==
  ASSUME TypeOK, NEW n \in 1 .. Len(out)
  PROVE  LET d == SubSeq(out, 1, n)
             o == SubSeq(out, n + 1, Len(out))
         IN /\ d \in Seq(Byte) /\ Len(d) = n /\ \A i \in 1 .. n : d[i] = out[i] /\ d[i] \in Byte
            /\ o \in Seq(Byte) /\ Len(o) = Len(out) - n
            /\ \A i \in 1 .. Len(out) - n : o[i] = out[i + n] /\ o[i] \in Byte
            /\ o # << >> => n < Len(out)
<1> DEFINE l == Len(out)
           d == SubSeq(out, 1, n)
           m == n + 1
           o == SubSeq(out, m, l)
<1>1. l \in Nat /\ \A i \in 1 .. l : out[i] \in Byte
  BY LenProperties, ElementOfSeq DEF TypeOK
<1> HIDE DEF l, m
<1>2. n \in 1 .. l /\ m = n + 1 /\ n \in Int /\ m \in Int /\ l \in Int
  BY <1>1 DEF l, m
<1>3. (\A i \in 1 .. n : out[i] \in Byte) /\ (\A i \in m .. l : out[i] \in Byte)
  <2>1. (\A i \in 1 .. n : i \in 1 .. l) /\ (\A i \in m .. l : i \in 1 .. l)
    BY <1>1, <1>2
  <2> QED
    BY <1>1, <2>1
<1>4. d \in Seq(Byte) /\ Len(d) = n /\ \A i \in 1 .. n : d[i] = out[1 + i - 1]
  BY <1>2, <1>3, SubSeqProperties
<1>5. o \in Seq(Byte) /\ Len(o) = (IF m <= l THEN l - m + 1 ELSE 0)
      /\ \A i \in 1 .. l - m + 1 : o[i] = out[m + i - 1]
  BY <1>2, <1>3, SubSeqProperties
<1>6. \A i \in 1 .. n : d[i] = out[i] /\ d[i] \in Byte
  <2>1. \A i \in 1 .. n : 1 + i - 1 = i
    BY <1>2
  <2> QED
    BY <1>3, <1>4, <2>1
<1>7. Len(o) = l - n /\ l - m + 1 = l - n
  BY <1>1, <1>2, <1>5
<1>8. \A i \in 1 .. l - n : o[i] = out[i + n] /\ o[i] \in Byte
  <2>1. \A i \in 1 .. l - n : m + i - 1 = i + n
    BY <1>1, <1>2
  <2>2. \A i \in 1 .. l - n : o[i] \in Byte
    BY <1>5, <1>7, ElementOfSeq
  <2> QED
    BY <1>5, <1>7, <2>1, <2>2
<1>9. o # << >> => n < l
  BY <1>1, <1>2, <1>5, <1>7, EmptySeq
<1>10. o = SubSeq(out, n + 1, Len(out))
  BY DEF m, l
<1> QED
  BY <1>4, <1>5, <1>6, <1>7, <1>8, <1>9, <1>10 DEF l

LEMMA DataRaised ==
  ASSUME IInv, Limits, NEW n \in 1 .. MaxStream, RaiseData(n)
  PROVE  IInv'
<1> DEFINE l == Len(out)
           d == SubSeq(out, 1, n)
           o == SubSeq(out, n + 1, l)
<1>1. /\ n \in 1 .. l /\ n <= MaxRecord /\ out[n].off = out[n].size - 1
      /\ Raise("RECV", TRUE, d) /\ out' = o
  BY DEF RaiseData, NextRecord, Limits
<1>2. TypeOK /\ Wire /\ faithful
  BY DEF IInv
<1>3. l \in Nat /\ n \in Nat /\ n >= 1 /\ n <= l /\ n <= BufSize /\ BufSize \in Nat /\ MaxRecord \in Nat
  <2>1. l \in Nat
    BY <1>2, LenProperties DEF TypeOK
  <2>2. MaxRecord <= BufSize /\ MaxRecord \in Nat /\ BufSize \in Nat
    BY SizeAssumption DEF Limits
  <2> HIDE DEF l
  <2> QED
    BY <1>1, <2>1, <2>2
<1>4. /\ d \in Seq(Byte) /\ Len(d) = n /\ \A i \in 1 .. n : d[i] = out[i] /\ d[i] \in Byte
      /\ o \in Seq(Byte) /\ Len(o) = l - n
      /\ \A i \in 1 .. l - n : o[i] = out[i + n] /\ o[i] \in Byte
      /\ o # << >> => n < l
  BY <1>1, <1>2, WireCut
<1>5. \A i \in 1 .. l : out[i] \in Byte
  BY <1>2, ElementOfSeq DEF TypeOK
<1>6. /\ Len(out) <= sent /\ sent \in Nat /\ cursor.conn <= conn /\ conn \in Nat /\ cursor.pos \in Nat
      /\ Run(out, 1, l, conn, sent - l) /\ Closed(out, 1, l) /\ out[1].off = 0
      /\ ~open => out = << >> /\ sent = 0
  <2>1. out # << >>
    BY <1>3, EmptySeq
  <2> QED
    BY <1>2, <2>1, SizeAssumption DEF Wire, TypeOK
<1> HIDE DEF d, o
<1>7. /\ owed' \in [Kinds -> Nat] /\ hif' \in Seq(Reply) /\ Waits'
      /\ waiting = "RECV" /\ owed["RECV"] = 1 /\ Absent("RECV")
      /\ owed'["RECV"] = 0 /\ received_bytes = 0
      /\ Got + Len(out) = sent /\ ~Handled'
      /\ \A i \in DOMAIN hif' :
           \/ i \in DOMAIN hif /\ hif'[i] = hif[i]
           \/ hif'[i] = [kind |-> "RECV", ok |-> TRUE, data |-> d]
      /\ UNCHANGED << portVars, readerVars, waiting, polling, conn, open, sent >>
  <2>1. "RECV" \in Kinds /\ TRUE \in BOOLEAN
    BY DEF Kinds
  <2> QED
    BY <1>1, <1>4, <2>1, Raising
<1>8. TypeOK'
  BY <1>1, <1>2, <1>4, <1>7 DEF TypeOK, portVars, readerVars
<1>10. Closed(out, 1, n) /\ Closed(out, n + 1, l) /\ (n < l => out[n + 1].off = 0)
  BY <1>1, <1>3, <1>5, <1>6, ClosedCut
<1>11. sent - l \in Nat /\ Got = sent - l /\ Got \in Nat
  <2>1. Got \in Nat
    BY <1>6 DEF Got
  <2>2. l <= sent /\ Got + l = sent
    BY <1>6, <1>7 DEF l
  <2> HIDE DEF l
  <2> QED
    BY <1>3, <1>6, <2>1, <2>2
<1> HIDE DEF l
<1>12. Run(out, 1, n, conn, Got) /\ Run(out, n + 1, l, conn, Got + n)
  BY <1>3, <1>6, <1>11, RunCut
<1>13. Wire'
  <2> DEFINE k == l - n
  <2>1. k \in Nat /\ 1 + n = n + 1 /\ k + n = l /\ 1 \in Nat
    BY <1>3
  <2> HIDE DEF k
  <2>2. \A i \in 1 .. k : o[i] = out[i + n] /\ o[i] \in Byte
    BY <1>4 DEF k
  <2>3. Closed(out, 1 + n, k + n) /\ Run(out, 1 + n, k + n, conn, Got + n) /\ Got + n \in Nat
    BY <1>3, <1>10, <1>11, <1>12, <2>1
  <2>4. Closed(o, 1, k)
    BY <1>3, <2>1, <2>2, <2>3, ClosedMoved
  <2>5. Run(o, 1, k, conn, Got + n)
    BY <1>3, <2>1, <2>2, <2>3, RunMoved
  <2>6. Len(out') = k /\ Got + n = sent - k /\ k <= sent
    BY <1>1, <1>3, <1>4, <1>6, <1>11 DEF k
  <2>7. out' # << >> => out'[1].off = 0
    <3> SUFFICES ASSUME o # << >>
                 PROVE  o[1].off = 0
      BY <1>1 DEF o, l
    <3>1. 1 \in 1 .. k
      BY <1>3, <1>4 DEF k
    <3>2. o[1] = out[1 + n] /\ n < l
      BY <1>4, <2>2, <3>1
    <3> QED
      BY <1>10, <2>1, <3>2
  <2>8. sent' = sent /\ conn' = conn /\ cursor' = cursor /\ open' = open
    BY <1>7 DEF readerVars
  <2>9. open
    BY <1>7 DEF IInv, Waits
  <2> QED
    BY <1>1, <1>6, <2>4, <2>5, <2>6, <2>7, <2>8, <2>9 DEF Wire, o, l
<1>14. /\ n \in 1 .. BufSize /\ Got' + n + Len(out') = sent'
       /\ Run(d, 1, n, conn', Got') /\ Closed(d, 1, n) /\ d[1].off = 0
  <2>3. Closed(d, 1, n) /\ Run(d, 1, n, conn, Got)
    BY <1>3, <1>4, <1>10, <1>11, <1>12, SameBytes
  <2>5. d[1].off = 0
    <3>1. 1 \in 1 .. n
      BY <1>3
    <3> QED
      BY <1>4, <1>6, <3>1
  <2>6. Got' = Got /\ conn' = conn /\ sent' = sent /\ Len(out') = l - n
    BY <1>1, <1>4, <1>7 DEF Got, readerVars
  <2>7. n \in 1 .. BufSize /\ Got + n + (l - n) = sent
    BY <1>3, <1>6, <1>11
  <2> QED
    BY <2>3, <2>5, <2>6, <2>7
<1>15. Receiving'
  <2>1. ASSUME NEW i \in DOMAIN hif', hif'[i].kind = "RECV"
        PROVE  (IF hif[i].ok THEN Event(hif[i].data, Len(hif[i].data))
                ELSE Got + Len(out) = sent)'
    <3>1. hif'[i] = [kind |-> "RECV", ok |-> TRUE, data |-> d]
      BY <1>7, <2>1 DEF Absent
    <3>2. hif'[i].ok /\ hif'[i].data = d /\ Len(hif'[i].data) = n
      BY <1>4, <3>1
    <3> QED
      BY <1>14, <3>2 DEF Event
  <2>2. received_bytes' = 0 /\ ~Handled' /\ owed'["RECV"] # 1
    BY <1>7 DEF portVars
  <2> QED
    BY <2>1, <2>2 DEF Receiving
<1> QED
  BY <1>2, <1>7, <1>8, <1>13, <1>15 DEF IInv, readerVars

LEMMA Sends ==
  ASSUME IInv, NEW size \in PacketSizes, BrokerSends(size)
  PROVE  IInv'
<1> DEFINE l == Len(out)
           s == [i \in 1 .. size |->
                   [conn |-> conn, pos |-> sent + i, off |-> i - 1, size |-> size]]
<1>1. /\ open /\ sent + size <= MaxStream /\ out' = out \o s /\ sent' = sent + size
      /\ UNCHANGED << portVars, readerVars, waiting, polling, conn, open, owed, hif >>
  BY DEF BrokerSends
<1>2. TypeOK /\ Wire /\ faithful /\ Waits
  BY DEF IInv
<1>3. /\ size \in Nat /\ size >= 2 /\ l \in Nat /\ sent \in Nat /\ conn \in 0 .. MaxConns
      /\ MaxStream \in Nat /\ out \in Seq(Byte)
  BY <1>2, SizeAssumption, LenProperties DEF TypeOK
<1>4. \A i \in 1 .. size : /\ s[i] \in Byte /\ s[i].conn = conn /\ s[i].pos = sent + i
                           /\ s[i].off = i - 1 /\ s[i].size = size
  <2>1. ASSUME NEW i \in 1 .. size
        PROVE  /\ s[i] \in Byte /\ s[i].conn = conn /\ s[i].pos = sent + i
               /\ s[i].off = i - 1 /\ s[i].size = size
    <3>1. s[i] = [conn |-> conn, pos |-> sent + i, off |-> i - 1, size |-> size]
      OBVIOUS
    <3> HIDE DEF s
    <3>2. sent + i \in 0 .. MaxStream /\ i - 1 \in Nat
      BY <1>1, <1>3
    <3> QED
      BY <1>3, <3>1, <3>2 DEF Byte
  <2> QED
    BY <2>1
<1>5. s \in Seq(Byte) /\ Len(s) = size
  BY <1>3, <1>4
<1> HIDE DEF s
<1>6. /\ out' \in Seq(Byte) /\ Len(out') = l + size
      /\ \A i \in 1 .. l + size : out'[i] = IF i <= l THEN out[i] ELSE s[i - l]
  BY <1>1, <1>3, <1>5, ConcatProperties
<1>7. \A i \in 1 .. l : out[i] \in Byte
  BY <1>3, ElementOfSeq
<1> HIDE DEF l
<1>8. \A i \in 1 .. l : out'[i] = out[i]
  <2>1. \A i \in 1 .. l : i \in 1 .. l + size /\ i <= l
    BY <1>3
  <2> QED
    BY <1>6, <2>1
<1>9. \A i \in 1 .. size : out'[l + i] = s[i]
  <2> SUFFICES ASSUME NEW i \in 1 .. size
               PROVE  out'[l + i] = s[i]
    OBVIOUS
  <2> DEFINE j == l + i
  <2>1. j \in 1 .. l + size /\ ~(j <= l) /\ j - l = i
    BY <1>3
  <2> HIDE DEF j
  <2>2. out'[j] = s[i]
    BY <1>6, <2>1
  <2> QED
    BY <2>2 DEF j
<1>10. /\ l <= sent /\ cursor.conn <= conn /\ Run(out, 1, l, conn, sent - l)
       /\ Closed(out, 1, l) /\ (out # << >> => out[1].off = 0)
  BY <1>2 DEF Wire, l
<1>11. TypeOK'
  <2>1. sent' \in 0 .. MaxStream
    BY <1>1, <1>3
  <2> QED
    BY <1>1, <1>2, <1>6, <2>1 DEF TypeOK, portVars, readerVars
<1>12. Waits'
  <2>1. \A k \in {"CONNECT", "SEND", "RECV"} : Once(k)'
    BY <1>1, <1>2, OnceKept DEF Waits, portVars
  <2> QED
    BY <1>1, <1>2, <2>1 DEF Waits, readerVars
<1>13. sent' - Len(out') = sent - l /\ Len(out') <= sent'
  BY <1>1, <1>3, <1>6, <1>10
<1>14. Closed(out', 1, Len(out'))
  <2>1. \A i \in 1 .. size : out'[l + i].off = i - 1 /\ out'[l + i].size = size
    BY <1>4, <1>9
  <2> QED
    BY <1>3, <1>6, <1>7, <1>8, <1>10, <2>1, ClosedAppended
<1>15. Run(out', 1, l + size, conn, sent - l)
  <2> SUFFICES ASSUME NEW i \in 1 .. l + size
               PROVE  out'[i].conn = conn /\ out'[i].pos = sent - l + (i - 1) + 1
    BY DEF Run
  <2>1. CASE i <= l
    <3>1. i \in 1 .. l
      BY <2>1
    <3> QED
      BY <1>8, <1>10, <3>1 DEF Run
  <2>2. CASE ~(i <= l)
    <3> DEFINE j == i - l
    <3>1. j \in 1 .. size /\ l + j = i /\ sent + j = sent - l + (i - 1) + 1
      BY <1>3, <2>2
    <3> HIDE DEF j
    <3>2. out'[i] = s[j]
      BY <1>9, <3>1
    <3> QED
      BY <1>4, <3>1, <3>2
  <2> QED
    BY <2>1, <2>2
<1>16. out'[1].off = 0
  <2>1. CASE l = 0
    <3>1. 1 \in 1 .. size /\ l + 1 = 1
      BY <1>3, <2>1
    <3>2. out'[1] = s[1]
      BY <1>9, <3>1
    <3>3. 1 - 1 = 0
      OBVIOUS
    <3> QED
      BY <1>4, <3>1, <3>2, <3>3
  <2>2. CASE l # 0
    <3>1. 1 \in 1 .. l /\ out # << >>
      BY <1>3, <2>2, EmptySeq DEF l
    <3> QED
      BY <1>8, <1>10, <3>1
  <2> QED
    BY <2>1, <2>2
<1>17. Wire' /\ faithful'
  <2>1. conn' = conn /\ cursor' = cursor /\ open' /\ faithful'
    BY <1>1, <1>2 DEF readerVars
  <2>2. Run(out', 1, Len(out'), conn', sent' - Len(out'))
    BY <1>6, <1>13, <1>15, <2>1
  <2> QED
    BY <1>10, <1>13, <1>14, <1>16, <2>1, <2>2 DEF Wire
<1>18. Got' = Got /\ Got \in Nat
  BY <1>1, <1>2 DEF Got, readerVars, TypeOK
<1>19. ASSUME NEW n \in Nat, Got + n + l = sent
       PROVE  Got' + n + Len(out') = sent'
  BY <1>1, <1>3, <1>6, <1>18, <1>19
<1>20. Got + l = sent => Got' + Len(out') = sent'
  BY <1>1, <1>3, <1>6, <1>18
<1>21. waiting' # "RECV" => Between'
  <2> SUFFICES ASSUME waiting # "RECV"
               PROVE  Between'
    BY <1>1
  <2> DEFINE n == IF cursor.conn = conn THEN received_bytes ELSE 0
  <2>1. Between /\ n \in Nat /\ Got + n + l = sent
    <3>1. Between
      BY DEF IInv
    <3>2. n \in Nat
      BY <1>2, SizeAssumption DEF TypeOK
    <3> QED
      BY <1>1, <3>1, <3>2 DEF Between, l
  <2>2. n' = n
    BY <1>1 DEF portVars, readerVars
  <2> HIDE DEF n
  <2>3. Got' + n' + Len(out') = sent'
    BY <1>19, <2>1, <2>2
  <2> QED
    BY <1>1, <2>1, <2>3 DEF Between, portVars, readerVars, Filled, Run, Closed, EndOf, n
<1>22. waiting' = "RECV" => Receiving'
  <2> SUFFICES ASSUME waiting = "RECV"
               PROVE  Receiving'
    BY <1>1
  <2>1. Receiving
    BY DEF IInv
  <2>2. UNCHANGED << received_bytes, buf, err, cursor, conn, hif, owed >>
    BY <1>1 DEF portVars, readerVars
  <2>3. Handled' <=> Handled
    BY <2>2 DEF Handled, Absent
  <2>4. ASSUME NEW i \in DOMAIN hif', hif'[i].kind = "RECV"
        PROVE  (IF hif[i].ok THEN Event(hif[i].data, Len(hif[i].data))
                ELSE Got + Len(out) = sent)'
    <3>1. IF hif[i].ok THEN Event(hif[i].data, Len(hif[i].data)) ELSE Got + l = sent
      BY <2>1, <2>2, <2>4 DEF Receiving, l
    <3>2. CASE hif[i].ok
      <4> DEFINE n == Len(hif[i].data)
      <4>1. n \in 1 .. BufSize /\ Got + n + l = sent
        BY <3>1, <3>2 DEF Event, l
      <4>2. n \in Nat
        BY <4>1
      <4> HIDE DEF n
      <4>3. Got' + n + Len(out') = sent'
        BY <1>19, <4>1, <4>2
      <4> QED
        BY <1>18, <2>2, <3>1, <3>2, <4>3 DEF Event, n
    <3>3. CASE ~hif[i].ok
      BY <1>20, <2>2, <3>1, <3>3
    <3> QED
      BY <3>2, <3>3
  <2>5. Handled' /\ ~err' => Event(buf, received_bytes)'
    <3> SUFFICES ASSUME Handled, ~err
                 PROVE  Event(buf, received_bytes)'
      BY <2>2, <2>3
    <3>1. Event(buf, received_bytes)
      BY <2>1 DEF Receiving
    <3>2. received_bytes \in Nat /\ Got + received_bytes + l = sent
      BY <3>1 DEF Event, l
    <3>3. Got' + received_bytes + Len(out') = sent'
      BY <1>19, <3>2
    <3> QED
      BY <1>18, <2>2, <3>1, <3>3 DEF Event
  <2>6. /\ ~Handled' => received_bytes' = 0
        /\ owed'["RECV"] = 1 => Got' + Len(out') = sent'
        /\ Handled' /\ err' => received_bytes' = 0 /\ Got' + Len(out') = sent'
    BY <1>20, <2>1, <2>2, <2>3 DEF Receiving, l
  <2> QED
    BY <2>4, <2>5, <2>6 DEF Receiving
<1> QED
  BY <1>11, <1>12, <1>17, <1>21, <1>22 DEF IInv

----------------------------------------------------------------------------
(* The theorems. *)

LEMMA InvariantInit == Init => IInv
<1> SUFFICES ASSUME Init
             PROVE  IInv
  OBVIOUS
<1>1. /\ waiting = "idle" /\ polling = FALSE /\ state = "none" /\ err = FALSE
      /\ gu32HostIp = FALSE /\ received_bytes = 0 /\ buf_ptr = 0 /\ conn = 0 /\ open = FALSE
      /\ reader = Start /\ cursor = Place(Junk) /\ faithful = TRUE
      /\ out = << >> /\ sent = 0 /\ owed = [k \in Kinds |-> 0] /\ hif = << >>
  BY DEF Init
<1>2. reader.phase = "header" /\ cursor.conn = 0 /\ cursor.pos = 0
      /\ cursor \in [conn : 0 .. MaxConns, pos : 0 .. MaxStream]
      /\ reader \in [phase : {"header", "length", "body"}, rem : Nat]
  BY <1>1, SizeAssumption DEF Start, Place, Junk
<1>3. Len(out) = 0 /\ DOMAIN hif = {} /\ \A i \in 1 .. 0 : FALSE
  BY <1>1, EmptySeq, LenProperties
<1>4. TypeOK
  <2>1. buf \in [1 .. BufSize -> Byte]
    <3>1. Junk \in Byte
      BY SizeAssumption DEF Junk, Byte
    <3> QED
      BY <3>1 DEF Init
  <2>2. /\ received_bytes \in 0 .. Wrap - 1 /\ conn \in 0 .. MaxConns /\ sent \in 0 .. MaxStream
        /\ owed \in [Kinds -> Nat] /\ out \in Seq(Byte) /\ hif \in Seq(Reply)
    BY <1>1, SizeAssumption
  <2> QED
    BY <1>1, <1>2, <2>1, <2>2 DEF TypeOK
<1>5. Waits
  <2>1. \A k \in {"CONNECT", "SEND", "RECV"} : Once(k)
    BY <1>1, <1>3 DEF Once, Absent, Kinds
  <2> QED
    BY <1>1, <1>2, <2>1 DEF Waits
<1>6. Wire
  <2>1. Run(out, 1, Len(out), conn, sent - Len(out)) /\ Closed(out, 1, Len(out))
    BY <1>3 DEF Run, Closed
  <2>2. cursor.conn <= conn /\ Len(out) <= sent
    BY <1>1, <1>2, <1>3
  <2> QED
    BY <1>1, <2>1, <2>2 DEF Wire
<1>7. Between
  <2>1. ~(received_bytes > 0)
    BY <1>1
  <2> QED
    BY <1>1, <2>1 DEF Between
<1> QED
  BY <1>1, <1>4, <1>5, <1>6, <1>7 DEF IInv

LEMMA InvariantStep == Limits /\ IInv /\ [Next]_vars => IInv'
<1> SUFFICES ASSUME Limits, IInv, [Next]_vars
             PROVE  IInv'
  OBVIOUS
<1>1. CASE \E asks \in {1, 2} : TlsConnect(asks)
  BY <1>1, ConnectBegins
<1>2. CASE TlsWrite
  BY <1>2, WriteBegins
<1>3. CASE TlsClose
  BY <1>3, Closes
<1>4. CASE ReadFromBuffer
  BY <1>4, BufferRead
<1>5. CASE ReadFromSocket
  BY <1>5, RecvBegins
<1>6. CASE ReadRefused
  BY <1>6, RecvRefused
<1>7. CASE HandleEvent
  BY <1>7, EventHandled
<1>8. CASE StillWaiting
  BY <1>8, WaitsOn
<1>9. CASE AfterDns
  BY <1>9, DnsEnds
<1>10. CASE AfterConnect
  BY <1>10, ConnectEnds
<1>11. CASE AfterSend
  BY <1>11, SendEnds
<1>12. CASE AfterRecv
  BY <1>12, RecvEnds
<1>13. CASE \E size \in PacketSizes : BrokerSends(size)
  BY <1>13, Sends
<1>14. CASE \E n \in 1 .. MaxStream : RaiseData(n)
  BY <1>14, DataRaised
<1>15. CASE \E kind \in Kinds, ok \in BOOLEAN : RaiseStatus(kind, ok)
  BY <1>15, StatusRaised
<1>16. CASE UNCHANGED vars
  <2>1. UNCHANGED << portVars, readerVars, brokerVars, waiting, polling, conn, open, owed, hif >>
    BY <1>16 DEF vars, portVars, readerVars, brokerVars
  <2>2. TypeOK'
    BY <2>1 DEF IInv, TypeOK, portVars, readerVars, brokerVars
  <2>3. \A k \in {"CONNECT", "SEND", "RECV"} : Once(k)'
    BY <2>1, OnceKept DEF IInv, Waits, portVars
  <2>4. Waits'
    BY <2>1, <2>3 DEF IInv, Waits, readerVars
  <2>5. Wire' /\ faithful'
    BY <2>1, WireKept DEF IInv, readerVars, brokerVars
  <2>6. waiting' # "RECV" => Between'
    BY <2>1, BetweenKept DEF IInv, readerVars, brokerVars, portVars
  <2>7. waiting' = "RECV" => Receiving'
    BY <2>1, ReceivingKept DEF IInv, readerVars, brokerVars, portVars
  <2> QED
    BY <2>2, <2>4, <2>5, <2>6, <2>7 DEF IInv
<1> QED
  BY <1>1, <1>2, <1>3, <1>4, <1>5, <1>6, <1>7, <1>8, <1>9, <1>10, <1>11, <1>12, <1>13, <1>14,
     <1>15, <1>16 DEF Next

\* While events hold whole packets and fit into the buffer, the buffer, the
\* reader and the wire always fit together.
THEOREM Invariance ==
  ASSUME Limits
  PROVE  Spec => []IInv
<1>1. IInv /\ [Next]_vars => IInv'
  BY InvariantStep
<1> QED
  BY <1>1, InvariantInit, PTL DEF Spec

\* What iot_tls_read hands to readPacket is, byte for byte, what the brokers of
\* all connections have sent and the port has received, in order and each byte
\* once.
THEOREM StreamIsFaithful ==
  ASSUME Limits
  PROVE  Spec => []StreamFaithful
<1>1. IInv => StreamFaithful
  BY DEF IInv, StreamFaithful
<1> QED
  BY <1>1, Invariance, PTL

\* readPacket never waits for data in the middle of a packet.
THEOREM WaitsOnlyBetweenPackets ==
  ASSUME Limits
  PROVE  Spec => []WaitsBetweenPackets
<1>1. IInv => WaitsBetweenPackets
  BY DEF IInv, Waits, WaitsBetweenPackets
<1> QED
  BY <1>1, Invariance, PTL

\* Between reads the buffer holds exactly the bytes that were received and not
\* read, those of an earlier connection included.
THEOREM BufferAlwaysHoldsUnread ==
  ASSUME Limits
  PROVE  Spec => []BufferHoldsUnread
<1>1. IInv => BufferHoldsUnread
  <2> SUFFICES ASSUME IInv, open, waiting # "RECV"
               PROVE  /\ Len(out) + (IF cursor.conn = conn THEN cursor.pos + received_bytes ELSE 0) = sent
                      /\ buf_ptr + received_bytes <= BufSize \/ received_bytes = 0
                      /\ InOrder(SubSeq(buf, buf_ptr + 1, buf_ptr + received_bytes))
    BY DEF BufferHoldsUnread
  <2>1. TypeOK /\ Between
    BY DEF IInv
  <2> DEFINE n == received_bytes
             p == buf_ptr
             s == SubSeq(buf, p + 1, p + n)
  <2>2. n \in Nat /\ p \in Nat /\ cursor.pos \in Nat /\ Len(out) \in Nat /\ BufSize \in Nat
    BY <2>1, SizeAssumption, LenProperties DEF TypeOK
  <2>3. Len(out) + (IF cursor.conn = conn THEN cursor.pos + n ELSE 0) = sent
    <3>1. Got + (IF cursor.conn = conn THEN n ELSE 0) + Len(out) = sent
      BY <2>1 DEF Between
    <3>2. CASE cursor.conn = conn
      <4>1. cursor.pos + n + Len(out) = sent
        BY <3>1, <3>2 DEF Got
      <4>2. Len(out) + (cursor.pos + n) = sent
        BY <2>2, <4>1
      <4> QED
        BY <3>2, <4>2
    <3>3. CASE cursor.conn # conn
      BY <2>2, <3>1, <3>3 DEF Got
    <3> QED
      BY <3>2, <3>3
  <2>4. p + n <= BufSize \/ n = 0
    BY <2>1, <2>2 DEF Between, Filled
  <2>5. InOrder(s)
    <3>1. CASE n = 0
      <4>1. Len(s) = 0
        <5>1. p + 1 \in Int /\ p + n \in Int /\ p + n < p + 1
          BY <2>2, <3>1
        <5> QED
          BY <5>1, SubSeqEmpty, EmptySeq
      <4>2. \A i \in 1 .. 0 : FALSE
        OBVIOUS
      <4> QED
        BY <4>1, <4>2 DEF InOrder
    <3>2. CASE n # 0
      <4>1. n > 0 /\ Run(buf, p + 1, p + n, cursor.conn, cursor.pos) /\ p + n <= BufSize
        BY <2>1, <2>2, <3>2 DEF Between, Filled
      <4> DEFINE m == p + 1
                 h == p + n
      <4>2. m \in Int /\ h \in Int /\ m <= h /\ h - m + 1 = n
        BY <2>2, <4>1
      <4>3. \A i \in m .. h : buf[i] \in Byte
        <5>1. \A i \in m .. h : i \in 1 .. BufSize
          BY <2>2, <4>1
        <5> QED
          BY <2>1, <5>1 DEF TypeOK
      <4>4. Run(buf, m, h, cursor.conn, cursor.pos)
        BY <4>1
      <4>5. s = SubSeq(buf, m, h)
        OBVIOUS
      <4> HIDE DEF m, h, s
      <4>6. Len(s) = n /\ \A i \in 1 .. n : s[i] = buf[m + i - 1]
        BY <4>2, <4>3, <4>5, SubSeqProperties
      <4>7. ASSUME NEW i \in 1 .. n
            PROVE  s[i].conn = cursor.conn /\ s[i].pos = cursor.pos + i
        <5> DEFINE j == m + i - 1
        <5>1. j \in m .. h /\ j - m = i - 1
          BY <2>2, <4>2
        <5>2. s[i] = buf[j]
          BY <4>6
        <5> HIDE DEF j
        <5>3. buf[j].conn = cursor.conn /\ buf[j].pos = cursor.pos + (j - m) + 1
          BY <4>4, <5>1 DEF Run
        <5> QED
          BY <2>2, <5>1, <5>2, <5>3
      <4>8. ASSUME NEW i \in 1 .. n
            PROVE  Follows(s[i], IF i = 1 THEN cursor ELSE s[i - 1])
        <5>1. s[i].conn = cursor.conn /\ s[i].pos = cursor.pos + i
          BY <4>7
        <5>2. CASE i = 1
          BY <5>1, <5>2 DEF Follows
        <5>3. CASE i # 1
          <6>1. i - 1 \in 1 .. n /\ cursor.pos + i = cursor.pos + (i - 1) + 1
            BY <2>2, <5>3
          <6>2. s[i - 1].conn = cursor.conn /\ s[i - 1].pos = cursor.pos + (i - 1)
            BY <4>7, <6>1
          <6> QED
            BY <5>1, <5>3, <6>1, <6>2 DEF Follows
        <5> QED
          BY <5>2, <5>3
      <4> QED
        BY <4>6, <4>8 DEF InOrder
    <3> QED
      BY <3>1, <3>2
  <2> QED
    BY <2>3, <2>4, <2>5
<1> QED
  BY <1>1, Invariance, PTL

----------------------------------------------------------------------------
(* The port implements PacketStream. *)

\* A read takes the first byte of a packet that is there to its end, the next
\* byte of it, or all the rest.
LEMMA PacketRead ==
  ASSUME TypeOK, received_bytes > 0, Filled <= BufSize, Aligned,
         Closed(buf, buf_ptr + 1, Filled),
         HandOver(buf, received_bytes, buf_ptr), buf' = buf, buf_ptr' = buf_ptr + Asks
  PROVE  /\ reader.phase = "header" =>
              Asks = 1 /\ Rest' \in Nat /\ 0 < Rest' /\ Rest' <= received_bytes - 1
         /\ reader.phase # "header" =>
              /\ Rest \in Nat /\ Rest > 0 /\ (Asks = 1 \/ Asks = Rest)
              /\ Rest' = Rest - Asks
<1> DEFINE p == buf_ptr
           n == received_bytes
           b == buf[p + 1]
           got == Copied(buf, p, Asks)
<1>1. p \in Nat /\ n \in Nat /\ BufSize \in Nat /\ Filled = p + n /\ p + 1 \in p + 1 .. Filled
  BY SizeAssumption DEF TypeOK, Filled
<1>2. p + 1 <= BufSize /\ p + 1 \in 1 .. BufSize /\ b \in Byte
  BY <1>1 DEF TypeOK
<1>3. b.off \in Nat /\ b.size \in Nat
  BY <1>2 DEF Byte
<1>4. /\ b.size >= 2 /\ EndOf(buf, p + 1) <= Filled
      /\ \A j \in p + 1 .. EndOf(buf, p + 1) : buf[j].size = b.size
  BY <1>1 DEF Closed
<1>5. EndOf(buf, p + 1) = p + b.size - b.off
  BY <1>1, <1>3 DEF EndOf
<1>6. reader' = AfterByte(got[1])
  BY DEF HandOver
<1>7. reader.phase \in {"header", "length", "body"} /\ reader.rem \in Nat
  BY DEF TypeOK
<1> HIDE DEF got
<1>8. CASE reader.phase = "header"
  <2>1. Asks = 1 /\ b.off = 0
    BY <1>8 DEF Asks, Aligned
  <2>2. reader' = [phase |-> "length", rem |-> 0]
    BY <1>6, <1>8 DEF AfterByte
  <2>3. p + 2 \in p + 1 .. EndOf(buf, p + 1) /\ buf[p + 2].size = b.size
    BY <1>1, <1>3, <1>4, <1>5, <2>1
  <2>4. buf_ptr' + 1 = p + 2
    BY <1>1, <2>1
  <2>5. Rest' = b.size - 1
    BY <2>2, <2>3, <2>4 DEF Rest
  <2>6. b.size <= n
    BY <1>1, <1>3, <1>4, <1>5, <2>1
  <2> QED
    BY <1>1, <1>3, <1>4, <1>8, <2>1, <2>5, <2>6
<1>9. CASE reader.phase = "length"
  <2>1. Asks = 1 /\ Rest = b.size - 1
    BY <1>9 DEF Asks, Rest
  <2>2. got[1] = b
    BY <1>1, <1>2, <2>1 DEF Copied, got
  <2>3. CASE b.size > 2
    <3>1. reader' = [phase |-> "body", rem |-> b.size - 2]
      BY <1>6, <1>9, <2>2, <2>3 DEF AfterByte
    <3>2. Rest' = b.size - 2
      BY <3>1 DEF Rest
    <3> QED
      BY <1>3, <1>4, <1>9, <2>1, <3>2
  <2>4. CASE b.size = 2
    <3>1. reader' = [phase |-> "header", rem |-> 0]
      BY <1>6, <1>9, <2>2, <2>4 DEF AfterByte, Start
    <3>2. Rest' = 0
      BY <3>1 DEF Rest
    <3> QED
      BY <1>9, <2>1, <2>4, <3>2
  <2> QED
    BY <1>3, <1>4, <2>3, <2>4
<1>10. CASE reader.phase = "body"
  <2>1. Asks = reader.rem /\ Rest = reader.rem /\ reader.rem > 0
    BY <1>10 DEF Asks, Rest, Aligned
  <2>2. reader' = [phase |-> "header", rem |-> 0]
    BY <1>6, <1>10 DEF AfterByte, Start
  <2>3. Rest' = 0
    BY <2>2 DEF Rest
  <2> QED
    BY <1>7, <1>10, <2>1, <2>3
<1> QED
  BY <1>7, <1>8, <1>9, <1>10

\* What is left in the buffer is read, from whichever connection.
LEMMA BufferStreams ==
  ASSUME IInv, IInv', ReadFromBuffer
  PROVE  Stream!Next
<1>1. /\ waiting = "idle" /\ waiting' = "idle" /\ open /\ received_bytes # 0
      /\ HandOver(buf, received_bytes, buf_ptr)
      /\ UNCHANGED << buf, conn, open, sent >>
  BY DEF ReadFromBuffer, Idle, brokerVars
<1>2. TypeOK /\ Between /\ Waits
  BY <1>1 DEF IInv
<1>3. received_bytes > 0 /\ received_bytes \in Nat
  BY <1>1, <1>2, SizeAssumption DEF TypeOK
<1>4. Aligned
  <2>1. /\ buf[buf_ptr + 1].off = CASE reader.phase = "header" -> 0
                                    [] reader.phase = "length" -> 1
                                    [] OTHER -> 2
        /\ reader.phase = "body" => reader.rem = buf[buf_ptr + 1].size - 2
    BY <1>2, <1>3 DEF Between
  <2> QED
    BY <1>2, <2>1 DEF Aligned, Waits
<1> DEFINE c == cursor.conn
           q == cursor.pos
<1>5. /\ buf \in [1 .. BufSize -> Byte] /\ buf_ptr \in Nat /\ received_bytes \in 0 .. Wrap - 1
      /\ cursor \in [conn : 0 .. MaxConns, pos : 0 .. MaxStream] /\ faithful
      /\ reader \in [phase : {"header", "length", "body"}, rem : Nat]
      /\ q \in Nat /\ Filled <= BufSize
      /\ Run(buf, buf_ptr + 1, Filled, c, q) /\ Closed(buf, buf_ptr + 1, Filled)
  BY <1>2, <1>3 DEF TypeOK, IInv, Between
<1> HIDE DEF c, q
<1>6. /\ Asks \in 1 .. received_bytes /\ received_bytes' = received_bytes - Asks
      /\ buf_ptr' = buf_ptr + Asks /\ cursor' = [conn |-> c, pos |-> q + Asks]
  <2>1. c = cursor.conn /\ q = cursor.pos /\ buf' = buf
    BY <1>1 DEF c, q
  <2> QED
    BY <1>1, <1>3, <1>4, <1>5, <2>1, Served
<1>7. /\ cursor' = [cursor EXCEPT !.pos = cursor.pos + Asks]
      /\ cursor'.pos = cursor.pos + Asks /\ cursor.pos \in Nat
  BY <1>5, <1>6 DEF c, q
<1>8. Unread = received_bytes /\ Unread' = received_bytes'
  BY <1>1 DEF Unread
<1>9. /\ reader.phase = "header" =>
           Asks = 1 /\ Rest' \in Nat /\ 0 < Rest' /\ Rest' <= received_bytes - 1
      /\ reader.phase # "header" =>
           /\ Rest \in Nat /\ Rest > 0 /\ (Asks = 1 \/ Asks = Rest)
           /\ Rest' = Rest - Asks
  BY <1>1, <1>2, <1>3, <1>4, <1>5, <1>6, PacketRead
<1>10. CASE reader.phase = "header"
  <2>1. Rest = 0
    BY <1>10 DEF Rest
  <2>2. Stream!Begins
    BY <1>1, <1>3, <1>6, <1>7, <1>8, <1>9, <1>10, <2>1 DEF Stream!Begins
  <2> QED
    BY <2>2 DEF Stream!Next
<1>11. CASE reader.phase # "header"
  <2>1. Asks \in 1 .. MaxStream
    <3>1. cursor'.pos \in 0 .. MaxStream /\ MaxStream \in Nat
      BY SizeAssumption DEF IInv, TypeOK
    <3> QED
      BY <1>3, <1>6, <1>7, <3>1
  <2>2. Stream!Continues(Asks)
    BY <1>1, <1>6, <1>7, <1>8, <1>9, <1>11 DEF Stream!Continues
  <2> QED
    BY <2>1, <2>2 DEF Stream!Next
<1> QED
  BY <1>10, <1>11

\* A read that waited takes the first byte of what has come.
LEMMA RecvStreams ==
  ASSUME IInv, AfterRecv
  PROVE  Stream!Next \/ UNCHANGED Stream!vars
<1>1. /\ waiting = "RECV" /\ waiting' = "idle"
      /\ UNCHANGED << owed, conn, open, err, buf, hif, out, sent >>
  BY DEF AfterRecv, WaitEnds, brokerVars
<1>2. TypeOK /\ Receiving /\ Waits /\ Wire /\ open /\ reader = Start /\ buf_ptr = 0 /\ faithful
  BY <1>1 DEF IInv, Waits
<1>3. owed["RECV"] = 0 /\ Absent("RECV")
  <2>1. waiting = "RECV" /\ waiting' = "idle" /\ WaitEnds("RECV") /\ hif' = hif /\ owed' = owed /\ state = "RECV"
    BY <1>1 DEF AfterRecv, WaitEnds
  <2> QED
    BY <1>2, <2>1 DEF Waits, Once, Absent
<1>4. /\ err => received_bytes = 0
      /\ ~err => Event(buf, received_bytes)
  BY <1>2, <1>3 DEF Receiving, Handled
<1>5. Len(out) \in Nat /\ Got \in Nat /\ conn \in Nat /\ cursor.conn \in Nat /\ cursor.conn <= conn
  BY <1>2, LenProperties, SizeAssumption DEF TypeOK, Got, Wire
<1>6. reader.phase = "header" /\ Rest = 0 /\ Unread = 0
  BY <1>1, <1>2 DEF Start, Rest, Unread
<1>7. CASE err /\ reader' = Start /\ UNCHANGED << received_bytes, buf_ptr, cursor, faithful >>
  <2>1. Rest' = 0 /\ Unread' = 0
    BY <1>1, <1>4, <1>7 DEF Start, Rest, Unread
  <2> QED
    BY <1>1, <1>6, <1>7, <2>1 DEF Stream!vars
<1>8. CASE ~err /\ HandOver(buf, received_bytes, buf_ptr)
  <2>1. /\ received_bytes \in 1 .. BufSize /\ Got + received_bytes + Len(out) = sent
        /\ Run(buf, 1, received_bytes, conn, Got) /\ Closed(buf, 1, received_bytes)
        /\ buf[1].off = 0
    BY <1>4, <1>8 DEF Event
  <2>2. /\ received_bytes > 0 /\ Filled = received_bytes /\ Filled <= BufSize /\ buf_ptr + 1 = 1
        /\ received_bytes \in Nat
    BY <1>2, <2>1, SizeAssumption DEF Filled
  <2>3. Aligned
    BY <1>6, <2>1, <2>2 DEF Aligned
  <2> DEFINE q == Got
  <2>4. \/ conn = cursor.conn /\ q = cursor.pos
        \/ conn > cursor.conn /\ q = 0
    BY <1>5 DEF Got
  <2>5. /\ buf \in [1 .. BufSize -> Byte] /\ buf_ptr \in Nat /\ received_bytes \in 0 .. Wrap - 1
        /\ cursor \in [conn : 0 .. MaxConns, pos : 0 .. MaxStream]
        /\ reader \in [phase : {"header", "length", "body"}, rem : Nat]
        /\ q \in Nat
        /\ Run(buf, buf_ptr + 1, Filled, conn, q) /\ Closed(buf, buf_ptr + 1, Filled)
    BY <1>2, <1>5, <2>1, <2>2 DEF TypeOK
  <2> HIDE DEF q
  <2>6. /\ Asks \in 1 .. received_bytes /\ received_bytes' = received_bytes - Asks
        /\ buf_ptr' = buf_ptr + Asks /\ cursor' = [conn |-> conn, pos |-> q + Asks]
    BY <1>1, <1>2, <1>8, <2>2, <2>3, <2>4, <2>5, Served
  <2>7. Asks = 1 /\ Rest' \in Nat /\ 0 < Rest' /\ Rest' <= received_bytes - 1
    BY <1>1, <1>2, <1>6, <1>8, <2>2, <2>3, <2>5, <2>6, PacketRead
  <2>8. Unread' = received_bytes - 1
    BY <1>1, <2>6, <2>7 DEF Unread
  <2>9. cursor' = [conn |-> conn, pos |-> Stream!Here + 1] /\ cursor'.pos = q + 1 /\ q = Got
    BY <2>6, <2>7 DEF q, Stream!Here, Got
  <2>10. cursor'.pos + Unread' <= sent
    <3>1. Got + received_bytes + Len(out) = sent /\ cursor'.pos = Got + 1
      BY <2>1, <2>9
    <3> QED
      BY <1>5, <2>2, <2>8, <3>1
  <2>11. Stream!Begins
    BY <1>1, <1>2, <1>6, <2>2, <2>7, <2>8, <2>9, <2>10 DEF Stream!Begins
  <2> QED
    BY <2>11 DEF Stream!Next
<1> QED
  BY <1>7, <1>8 DEF AfterRecv

\* Every other step opens or closes a connection, sends, or is not seen.
LEMMA StreamStep ==
  ASSUME IInv, IInv', [Next]_vars
  PROVE  [Stream!Next]_(Stream!vars)
<1>1. ASSUME UNCHANGED << conn, open, sent, cursor, received_bytes, buf, buf_ptr, reader >>,
             waiting # "RECV", waiting' # "RECV"
      PROVE  UNCHANGED Stream!vars
  BY <1>1 DEF Stream!vars, Unread, Rest
<1>2. waiting = "RECV" => Unread = 0 /\ Rest = 0 /\ reader = Start
  BY DEF IInv, Waits, Unread, Rest, Start
<1>3. waiting' = "RECV" => Unread' = 0 /\ Rest' = 0 /\ reader' = Start
  BY DEF IInv, Waits, Unread, Rest, Start
<1>4. ASSUME UNCHANGED << conn, open, sent, cursor >>, waiting = "RECV", waiting' = "RECV"
      PROVE  UNCHANGED Stream!vars
  BY <1>2, <1>3, <1>4 DEF Stream!vars
<1>5. Idle => waiting = "idle"
  BY DEF Idle
<1>6. CASE (\E asks \in {1, 2} : TlsConnect(asks)) \/ TlsWrite
  BY <1>1, <1>5, <1>6 DEF TlsConnect, TlsWrite, WaitFor, readerVars, brokerVars
<1>7. CASE TlsClose
  <2>1. /\ open /\ open' = FALSE /\ sent' = 0 /\ reader = Start
        /\ UNCHANGED << conn, cursor, received_bytes, buf, buf_ptr, reader, waiting >>
    BY <1>7 DEF TlsClose, portVars, readerVars
  <2>2. Rest = 0 /\ Rest' = Rest /\ Unread' = Unread
    BY <2>1 DEF Rest, Unread, Start
  <2>3. Stream!Closes
    BY <2>1, <2>2 DEF Stream!Closes
  <2> QED
    BY <2>3 DEF Stream!Next
<1>8. CASE ReadFromBuffer
  BY <1>8, BufferStreams
<1>9. CASE ReadFromSocket \/ ReadRefused
  <2>1. /\ waiting = "idle" /\ received_bytes = 0 /\ received_bytes' = 0 /\ open
        /\ UNCHANGED << conn, open, sent, cursor >>
        /\ waiting' = "RECV" \/ reader' = Start
    BY <1>9 DEF ReadFromSocket, ReadRefused, WaitFor, Idle, portVars, readerVars, brokerVars
  <2>2. Unread = 0 /\ Unread' = 0
    BY <2>1 DEF Unread
  <2>3. reader = Start
    BY <2>1 DEF IInv, Between
  <2>4. Rest = 0 /\ Rest' = 0
    BY <1>3, <2>1, <2>3 DEF Rest, Start
  <2> QED
    BY <2>1, <2>2, <2>4 DEF Stream!vars
<1>10. CASE HandleEvent
  <2>1. UNCHANGED << waiting, conn, open, sent, cursor, buf_ptr, reader >>
    BY <1>10 DEF HandleEvent, readerVars, brokerVars
  <2>2. CASE waiting = "RECV"
    BY <1>4, <2>1, <2>2
  <2>3. CASE waiting # "RECV"
    <3>1. Absent("RECV")
      BY <2>3 DEF IInv, Waits, Once
    <3>2. hif \in Seq(Reply) /\ hif # << >>
      BY <1>10 DEF HandleEvent, IInv, TypeOK
    <3>3. Head(hif) = hif[1] /\ 1 \in DOMAIN hif
      BY <3>2
    <3>4. Head(hif).kind # "RECV"
      BY <3>1, <3>3 DEF Absent
    <3>5. UNCHANGED << received_bytes, buf >>
      BY <1>10, <3>4 DEF HandleEvent, resolve_cb, socket_cb
    <3> QED
      BY <1>1, <2>1, <2>3, <3>5
  <2> QED
    BY <2>2, <2>3
<1>11. CASE StillWaiting
  BY <1>1, <1>4, <1>11 DEF StillWaiting, portVars, readerVars, brokerVars
<1>12. CASE AfterDns \/ AfterSend
  BY <1>1, <1>12 DEF AfterDns, AfterSend, WaitEnds, WaitFor, readerVars, brokerVars
<1>13. CASE AfterConnect
  <2>1. /\ waiting = "CONNECT" /\ waiting' = "idle"
        /\ open' = ~err /\ conn' = IF err THEN conn ELSE conn + 1
        /\ UNCHANGED << sent, cursor, received_bytes, buf, buf_ptr, reader >>
    BY <1>13 DEF AfterConnect, WaitEnds, readerVars, brokerVars
  <2>2. ~open /\ sent = 0 /\ open \in BOOLEAN /\ err \in BOOLEAN
    BY <2>1 DEF IInv, TypeOK, Waits, Wire
  <2>3. CASE err
    BY <1>1, <2>1, <2>2, <2>3
  <2>4. CASE ~err
    <3>1. Unread' = Unread /\ Rest' = Rest
      BY <2>1 DEF Unread, Rest
    <3>2. Stream!Opens
      BY <2>1, <2>2, <2>4, <3>1 DEF Stream!Opens
    <3> QED
      BY <3>2 DEF Stream!Next
  <2> QED
    BY <2>3, <2>4
<1>14. CASE AfterRecv
  BY <1>14, RecvStreams
<1>15. ASSUME NEW size \in PacketSizes, BrokerSends(size)
       PROVE  Stream!Next
  <2>1. /\ open /\ sent' = sent + size /\ sent + size <= MaxStream
        /\ UNCHANGED << waiting, conn, open, cursor, received_bytes, buf, buf_ptr, reader >>
    BY <1>15 DEF BrokerSends, portVars, readerVars
  <2>2. size \in 1 .. MaxStream
    BY <2>1, SizeAssumption DEF IInv, TypeOK
  <2>3. Unread' = Unread /\ Rest' = Rest
    BY <2>1 DEF Unread, Rest
  <2>4. Stream!Sends(size)
    BY <2>1, <2>3 DEF Stream!Sends
  <2> QED
    BY <2>2, <2>4 DEF Stream!Next
<1>16. CASE (\E n \in 1 .. MaxStream : RaiseData(n)) \/ \E kind \in Kinds, ok \in BOOLEAN : RaiseStatus(kind, ok)
  <2>1. UNCHANGED << waiting, conn, open, sent, cursor, received_bytes, buf, buf_ptr, reader >>
    BY <1>16 DEF RaiseData, RaiseStatus, Raise, portVars, readerVars
  <2> QED
    BY <1>1, <1>4, <2>1
<1>17. CASE UNCHANGED vars
  BY <1>1, <1>4, <1>17 DEF vars
<1> QED
  BY <1>6, <1>7, <1>8, <1>9, <1>10, <1>11, <1>12, <1>13, <1>14, <1>15, <1>16, <1>17 DEF Next

\* The client gets what PacketStream promises: whole packets, byte for byte in
\* the order of sending, none before it was sent, what an earlier connection
\* left in the buffer first.
THEOREM ImplementsStream ==
  ASSUME Limits
  PROVE  Spec => StreamSpec
<1>1. Init => Stream!Init
  BY DEF Init, Stream!Init, Unread, Rest, Start, Place, Junk
<1>2. IInv /\ IInv' /\ [Next]_vars => [Stream!Next]_(Stream!vars)
  BY StreamStep
<1> QED
  BY <1>1, <1>2, Invariance, PTL DEF Spec, StreamSpec, Stream!Spec

----------------------------------------------------------------------------
(* Types, for events of any size, split or whole. *)

\* A connection is made only when none is open and one more is allowed, a body
\* is never empty, and a reply that brings data brings some.
Typed ==
  /\ TypeOK
  /\ waiting \in {"DNS", "CONNECT"} => ~open /\ conn < MaxConns
  /\ reader.phase = "body" => reader.rem > 0
  /\ \A i \in DOMAIN hif : hif[i].kind = "RECV" /\ hif[i].ok => Len(hif[i].data) > 0

LEMMA Divided ==
  ASSUME NEW k \in Nat, NEW b \in Nat \ {0}
  PROVE  \E q \in Nat, r \in Nat : k = b * q + r /\ r < b /\ r = k % b
<1>1. k \div b \in Nat /\ k % b \in Nat /\ k % b < b
  OBVIOUS
<1>2. k = b * (k \div b) + (k % b)
  OBVIOUS
<1> QED
  BY <1>1, <1>2

LEMMA NoSmallMultiple ==
  ASSUME NEW q \in Nat, NEW b \in Nat, q > 0
  PROVE  b * q >= b
<1>1. PICK p \in Nat : q = p + 1
  BY q - 1 \in Nat, q = (q - 1) + 1
<1>2. b * q = b * p + b
  BY <1>1
<1>3. b * p \in Nat
  BY <1>1
<1> QED
  BY <1>2, <1>3

\* An event larger than the buffer leaves its last piece, over the one before.
LEMMA FillTyped ==
  ASSUME NEW b \in [1 .. BufSize -> Byte], NEW data \in Seq(Byte), Len(data) > 0
  PROVE  Fill(b, data) \in [1 .. BufSize -> Byte] /\ LastPiece(Len(data)) \in 1 .. BufSize
<1> DEFINE n == Len(data)
           last == LastPiece(n)
           full == n - last
<1>1. n \in Nat /\ n > 0 /\ BufSize \in Nat \ {0}
  BY SizeAssumption, LenProperties
<1> HIDE DEF n
<1>2. PICK q \in Nat, r \in Nat : n - 1 = BufSize * q + r /\ r < BufSize /\ r = (n - 1) % BufSize
  <2>1. n - 1 \in Nat
    BY <1>1
  <2> QED
    BY <1>1, <2>1, Divided
<1>3. last = r + 1 /\ last \in 1 .. BufSize
  BY <1>1, <1>2 DEF LastPiece
<1>4. full = BufSize * q /\ full \in Nat
  <2>1. BufSize * q \in Nat
    BY <1>1
  <2> QED
    BY <1>1, <1>2, <1>3, <2>1
<1>5. full > 0 => full >= BufSize
  <2>1. CASE q = 0
    BY <1>1, <1>4, <2>1
  <2>2. CASE q > 0
    BY <1>1, <1>4, <2>2, NoSmallMultiple
  <2> QED
    BY <2>1, <2>2
<1> HIDE DEF last, full
<1>6. full + last = n
  BY <1>1, <1>3, <1>4 DEF full
<1>7. \A j \in 1 .. n : data[j] \in Byte
  BY ElementOfSeq DEF n
<1>8. ASSUME NEW i \in 1 .. BufSize
      PROVE  (IF i <= last THEN data[full + i]
              ELSE IF full > 0 THEN data[full - BufSize + i] ELSE b[i]) \in Byte
  <2>1. CASE i <= last
    <3>1. full + i \in 1 .. n
      BY <1>1, <1>3, <1>4, <1>6, <2>1
    <3> QED
      BY <1>7, <2>1, <3>1
  <2>2. CASE i > last /\ full > 0
    <3>1. full - BufSize + i \in 1 .. n
      BY <1>1, <1>3, <1>4, <1>5, <1>6, <2>2
    <3>2. ~(i <= last)
      BY <1>3, <2>2
    <3> QED
      BY <1>7, <2>2, <3>1, <3>2
  <2>3. CASE i > last /\ ~(full > 0)
    <3>1. ~(i <= last)
      BY <1>3, <2>3
    <3> QED
      BY <2>3, <3>1
  <2> QED
    BY <1>3, <2>1, <2>2, <2>3
<1>9. Fill(b, data) = [i \in 1 .. BufSize |->
         IF i <= last THEN data[full + i]
         ELSE IF full > 0 THEN data[full - BufSize + i] ELSE b[i]]
  BY DEF Fill, n, last, full
<1> QED
  BY <1>3, <1>8, <1>9 DEF n, last

\* A read takes bytes, whether the buffer holds them or not.
LEMMA HandOverTyped ==
  ASSUME Typed, HandOver(buf, received_bytes, buf_ptr)
  PROVE  /\ received_bytes' \in 0 .. Wrap - 1 /\ buf_ptr' \in Nat
         /\ cursor' \in [conn : 0 .. MaxConns, pos : 0 .. MaxStream] /\ faithful' \in BOOLEAN
         /\ reader' \in [phase : {"header", "length", "body"}, rem : Nat]
         /\ reader'.phase = "body" => reader'.rem > 0
<1> DEFINE got == Copied(buf, buf_ptr, Asks)
<1>1. /\ buf \in [1 .. BufSize -> Byte] /\ buf_ptr \in Nat /\ received_bytes \in Nat /\ faithful \in BOOLEAN
      /\ reader \in [phase : {"header", "length", "body"}, rem : Nat]
      /\ Wrap \in Nat \ {0} /\ BufSize \in Nat /\ MaxConns \in Nat /\ MaxStream \in Nat
  BY SizeAssumption DEF Typed, TypeOK
<1>2. Asks \in Nat /\ Asks >= 1
  BY <1>1 DEF Asks, Typed
<1>3. Junk \in Byte
  BY <1>1 DEF Junk, Byte
<1>4. \A i \in 1 .. Asks : got[i] \in Byte
  <2>1. ASSUME NEW i \in 1 .. Asks
        PROVE  (IF buf_ptr + i <= BufSize THEN buf[buf_ptr + i] ELSE Junk) \in Byte
    <3>1. CASE buf_ptr + i <= BufSize
      <4>1. buf_ptr + i \in 1 .. BufSize
        BY <1>1, <1>2, <3>1
      <4> QED
        BY <1>1, <3>1, <4>1
    <3>2. CASE ~(buf_ptr + i <= BufSize)
      BY <1>3, <3>2
    <3> QED
      BY <3>1, <3>2
  <2> QED
    BY <2>1 DEF Copied
<1> HIDE DEF got
<1>5. /\ got[1] \in Byte /\ got[Asks] \in Byte
  BY <1>2, <1>4
<1>6. received_bytes' = (received_bytes - Asks) % Wrap /\ buf_ptr' = buf_ptr + Asks
      /\ cursor' = Place(got[Asks]) /\ reader' = AfterByte(got[1])
      /\ faithful' = (faithful /\ InOrder(got))
  BY DEF HandOver, got
<1>7. received_bytes' \in 0 .. Wrap - 1
  BY <1>1, <1>2, <1>6
<1>8. cursor' \in [conn : 0 .. MaxConns, pos : 0 .. MaxStream]
  BY <1>5, <1>6 DEF Place, Byte
<1>9. /\ reader' \in [phase : {"header", "length", "body"}, rem : Nat]
      /\ reader'.phase = "body" => reader'.rem > 0
  <2>1. got[1].size \in Nat
    BY <1>5 DEF Byte
  <2> QED
    BY <1>6, <2>1 DEF AfterByte, Start
<1>10. faithful' \in BOOLEAN
  BY <1>1, <1>6
<1> QED
  BY <1>1, <1>2, <1>6, <1>7, <1>8, <1>9, <1>10

\* The controller raises a reply.
LEMMA RaiseTyped ==
  ASSUME Typed, NEW kind \in Kinds, NEW ok \in BOOLEAN, NEW data \in Seq(Byte), Raise(kind, ok, data),
         out' \in Seq(Byte), kind = "RECV" /\ ok => Len(data) > 0
  PROVE  Typed'
<1> DEFINE r == [kind |-> kind, ok |-> ok, data |-> data]
<1>1. r \in Reply /\ r.kind = kind /\ r.ok = ok /\ r.data = data
  BY DEF Reply
<1>2. hif' = Append(hif, r) /\ hif \in Seq(Reply) /\ owed[kind] \in Nat /\ owed[kind] > 0
  BY DEF Raise, Typed, TypeOK
<1> HIDE DEF r
<1>3. hif' \in Seq(Reply)
  BY <1>1, <1>2, AppendProperties
<1>4. \A i \in DOMAIN hif' : hif'[i].kind = "RECV" /\ hif'[i].ok => Len(hif'[i].data) > 0
  <2>1. /\ DOMAIN hif' = 1 .. Len(hif) + 1 /\ DOMAIN hif = 1 .. Len(hif) /\ Len(hif) \in Nat
        /\ \A i \in DOMAIN hif : hif'[i] = hif[i] /\ i # Len(hif) + 1
        /\ hif'[Len(hif) + 1] = r
    BY <1>2, ReplyAppended
  <2>2. ASSUME NEW i \in DOMAIN hif', hif'[i].kind = "RECV", hif'[i].ok
        PROVE  Len(hif'[i].data) > 0
    <3>1. CASE i \in DOMAIN hif
      <4>1. hif'[i] = hif[i]
        BY <2>1, <3>1
      <4> QED
        BY <2>2, <3>1, <4>1 DEF Typed
    <3>2. CASE i = Len(hif) + 1
      <4>1. hif'[i] = r
        BY <2>1, <3>2
      <4> QED
        BY <1>1, <2>2, <4>1
    <3> QED
      BY <2>1, <3>1, <3>2
  <2> QED
    BY <2>2
<1>5. owed' \in [Kinds -> Nat]
  BY <1>2 DEF Raise, Typed, TypeOK
<1> QED
  BY <1>3, <1>4, <1>5 DEF Raise, Typed, TypeOK, portVars, readerVars

\* The client asks the controller for something and waits for the answer.
LEMMA RequestTyped ==
  ASSUME Typed, NEW kind \in Kinds, NEW n \in Nat, WaitFor(kind), Owe(kind, n),
         kind \in {"DNS", "CONNECT"} => ~open /\ conn < MaxConns, buf_ptr' \in Nat,
         UNCHANGED << err, gu32HostIp, received_bytes, buf, conn, open, hif >>,
         UNCHANGED << reader, cursor, faithful, brokerVars >>
  PROVE  Typed'
<1>1. owed' \in [Kinds -> Nat]
  BY OwedType DEF Typed
<1>2. TypeOK'
  BY <1>1 DEF WaitFor, brokerVars, Typed, TypeOK
<1> QED
  BY <1>2 DEF WaitFor, Typed

LEMMA TypedStep ==
  ASSUME Typed, [Next]_vars
  PROVE  Typed'
<1>1. TypeOK
  BY DEF Typed
<1>2. /\ BufSize \in Nat \ {0} /\ Wrap \in Nat /\ Wrap > BufSize /\ MaxStream \in Nat /\ MaxConns \in Nat
      /\ conn \in Nat /\ sent \in Nat /\ \A k \in Kinds : owed[k] \in Nat
  BY <1>1, SizeAssumption DEF TypeOK
<1>3. ASSUME NEW asks \in {1, 2}, TlsConnect(asks)
      PROVE  Typed'
  <2>1. asks \in Nat /\ "DNS" \in Kinds /\ buf_ptr \in Nat
    BY <1>1 DEF Kinds, TypeOK
  <2> QED
    BY <1>3, <2>1, RequestTyped DEF TlsConnect, readerVars
<1>4. CASE TlsWrite
  <2>1. 1 \in Nat /\ "SEND" \in Kinds /\ buf_ptr \in Nat
    BY <1>1 DEF Kinds, TypeOK
  <2> QED
    BY <1>4, <2>1, RequestTyped DEF TlsWrite, readerVars
<1>5. CASE TlsClose
  <2>1. << >> \in Seq(Byte) /\ 0 \in 0 .. MaxStream
    BY <1>2, EmptySeq
  <2> QED
    BY <1>5, <2>1 DEF TlsClose, Idle, portVars, readerVars, Typed, TypeOK
<1>6. CASE ReadFromBuffer
  <2>1. HandOver(buf, received_bytes, buf_ptr)
    BY <1>6 DEF ReadFromBuffer
  <2>2. /\ received_bytes' \in 0 .. Wrap - 1 /\ buf_ptr' \in Nat
        /\ cursor' \in [conn : 0 .. MaxConns, pos : 0 .. MaxStream] /\ faithful' \in BOOLEAN
        /\ reader' \in [phase : {"header", "length", "body"}, rem : Nat]
        /\ reader'.phase = "body" => reader'.rem > 0
    BY <2>1, HandOverTyped
  <2> QED
    BY <1>6, <2>2 DEF ReadFromBuffer, brokerVars, Typed, TypeOK
<1>7. CASE ReadFromSocket
  <2>1. 1 \in Nat /\ 0 \in Nat /\ "RECV" \in Kinds
    BY DEF Kinds
  <2> QED
    BY <1>7, <2>1, RequestTyped DEF ReadFromSocket
<1>8. CASE ReadRefused
  BY <1>8 DEF ReadRefused, portVars, brokerVars, Start, Typed, TypeOK
<1>9. CASE HandleEvent
  <2>1. hif \in Seq(Reply) /\ hif # << >> /\ hif' = Tail(hif)
    BY <1>9 DEF HandleEvent, Typed, TypeOK
  <2>2. /\ hif' \in Seq(Reply) /\ Head(hif) = hif[1] /\ 1 \in DOMAIN hif /\ Head(hif) \in Reply
        /\ \A i \in DOMAIN hif' : i + 1 \in DOMAIN hif /\ hif'[i] = hif[i + 1]
    BY <2>1, ReplyTaken
  <2>3. \A i \in DOMAIN hif' : hif'[i].kind = "RECV" /\ hif'[i].ok => Len(hif'[i].data) > 0
    BY <2>2 DEF Typed
  <2> DEFINE r == Head(hif)
  <2>4. r.kind \in Kinds /\ r.ok \in BOOLEAN /\ r.data \in Seq(Byte)
        /\ (r.kind = "RECV" /\ r.ok => Len(r.data) > 0)
    BY <2>2 DEF Reply, Typed
  <2>5. resolve_cb(r) \/ socket_cb(r)
    BY <1>9 DEF HandleEvent
  <2> HIDE DEF r
  <2>6. /\ state' \in Kinds /\ err' \in BOOLEAN /\ gu32HostIp' \in BOOLEAN
        /\ received_bytes' \in 0 .. Wrap - 1 /\ buf' \in [1 .. BufSize -> Byte]
    <3>1. CASE resolve_cb(r)
      BY <2>4, <3>1 DEF resolve_cb, Kinds, Typed, TypeOK
    <3>2. CASE socket_cb(r) /\ r.kind = "RECV" /\ r.ok
      <4>1. received_bytes' = LastPiece(Len(r.data)) /\ buf' = Fill(buf, r.data)
        BY <3>2 DEF socket_cb
      <4>2. Fill(buf, r.data) \in [1 .. BufSize -> Byte] /\ LastPiece(Len(r.data)) \in 1 .. BufSize
        BY <2>4, <3>2, FillTyped DEF Typed, TypeOK
      <4>3. received_bytes' \in 0 .. Wrap - 1
        BY <1>2, <4>1, <4>2
      <4> QED
        BY <2>4, <3>2, <4>1, <4>2, <4>3 DEF socket_cb, Typed, TypeOK
    <3>3. CASE socket_cb(r) /\ ~(r.kind = "RECV" /\ r.ok)
      BY <2>4, <3>3 DEF socket_cb, Typed, TypeOK
    <3> QED
      BY <2>5, <3>1, <3>2, <3>3
  <2> QED
    BY <1>9, <2>2, <2>3, <2>6 DEF HandleEvent, readerVars, brokerVars, Typed, TypeOK
<1>10. CASE StillWaiting
  BY <1>10 DEF StillWaiting, portVars, readerVars, brokerVars, Typed, TypeOK
<1>11. CASE AfterDns
  <2>1. ~open /\ conn < MaxConns
    BY <1>11 DEF AfterDns, WaitEnds, Typed
  <2>2. CASE WaitFor("CONNECT") /\ Owe("CONNECT", 1)
    <3>1. 1 \in Nat /\ "CONNECT" \in Kinds /\ buf_ptr \in Nat
      BY <1>1 DEF Kinds, TypeOK
    <3> QED
      BY <1>11, <2>1, <2>2, <3>1, RequestTyped DEF AfterDns, WaitEnds, readerVars
  <2>3. CASE waiting' = "idle" /\ polling' = FALSE /\ UNCHANGED << state, owed >>
    <3>1. TypeOK'
      BY <1>1, <1>11, <2>3 DEF AfterDns, WaitEnds, readerVars, brokerVars, TypeOK
    <3> QED
      BY <1>11, <2>3, <3>1 DEF AfterDns, WaitEnds, readerVars, Typed
  <2> QED
    BY <1>11, <2>2, <2>3 DEF AfterDns
<1>12. CASE AfterConnect
  <2>1. conn < MaxConns /\ err \in BOOLEAN
    BY <1>1, <1>12 DEF AfterConnect, WaitEnds, Typed, TypeOK
  <2>2. conn' \in 0 .. MaxConns /\ open' \in BOOLEAN
    BY <1>2, <1>12, <2>1 DEF AfterConnect
  <2>3. TypeOK'
    BY <1>1, <1>12, <2>2 DEF AfterConnect, WaitEnds, readerVars, brokerVars, TypeOK
  <2> QED
    BY <1>12, <2>3 DEF AfterConnect, WaitEnds, readerVars, Typed
<1>13. CASE AfterSend
  BY <1>13 DEF AfterSend, WaitEnds, readerVars, brokerVars, Typed, TypeOK
<1>14. CASE AfterRecv
  <2>1. /\ received_bytes' \in 0 .. Wrap - 1 /\ buf_ptr' \in Nat
        /\ cursor' \in [conn : 0 .. MaxConns, pos : 0 .. MaxStream] /\ faithful' \in BOOLEAN
        /\ reader' \in [phase : {"header", "length", "body"}, rem : Nat]
        /\ reader'.phase = "body" => reader'.rem > 0
    <3>1. CASE HandOver(buf, received_bytes, buf_ptr)
      BY <3>1, HandOverTyped
    <3>2. CASE reader' = Start /\ UNCHANGED << received_bytes, buf_ptr, cursor, faithful >>
      BY <3>2 DEF Start, Typed, TypeOK
    <3> QED
      BY <1>14, <3>1, <3>2 DEF AfterRecv
  <2> QED
    BY <1>14, <2>1 DEF AfterRecv, WaitEnds, brokerVars, Typed, TypeOK
<1>15. ASSUME NEW size \in PacketSizes, BrokerSends(size)
       PROVE  Typed'
  <2> DEFINE s == [i \in 1 .. size |->
                     [conn |-> conn, pos |-> sent + i, off |-> i - 1, size |-> size]]
  <2>1. /\ sent + size <= MaxStream /\ out' = out \o s /\ sent' = sent + size
        /\ UNCHANGED << portVars, readerVars, waiting, polling, conn, open, owed, hif >>
    BY <1>15 DEF BrokerSends
  <2>2. size \in Nat /\ size >= 2
    BY SizeAssumption
  <2>3. ASSUME NEW i \in 1 .. size
        PROVE  [conn |-> conn, pos |-> sent + i, off |-> i - 1, size |-> size] \in Byte
    <3>1. sent + i \in 0 .. MaxStream /\ i - 1 \in Nat /\ conn \in 0 .. MaxConns
      BY <1>1, <1>2, <2>1, <2>2 DEF TypeOK
    <3> QED
      BY <2>2, <3>1 DEF Byte
  <2>4. s \in Seq(Byte)
    BY <2>2, <2>3
  <2> HIDE DEF s
  <2>5. out' \in Seq(Byte) /\ sent' \in 0 .. MaxStream
    BY <1>1, <1>2, <2>1, <2>2, <2>4, ConcatProperties DEF TypeOK
  <2> QED
    BY <2>1, <2>5 DEF portVars, readerVars, Typed, TypeOK
<1>16. ASSUME NEW n \in 1 .. MaxStream, RaiseData(n)
       PROVE  Typed'
  <2> DEFINE l == Len(out)
             data == SubSeq(out, 1, n)
             left == SubSeq(out, n + 1, l)
  <2>1. n \in 1 .. l /\ l \in Nat /\ out \in Seq(Byte) /\ out' = left /\ Raise("RECV", TRUE, data)
    BY <1>1, <1>16, LenProperties DEF RaiseData, NextRecord, TypeOK
  <2>2. \A i \in 1 .. l : out[i] \in Byte
    BY <2>1, ElementOfSeq
  <2> HIDE DEF l
  <2>3. data \in Seq(Byte) /\ Len(data) = n
    <3>1. \A i \in 1 .. n : out[i] \in Byte
      BY <2>1, <2>2
    <3>2. /\ SubSeq(out, 1, n) \in Seq(Byte)
          /\ Len(SubSeq(out, 1, n)) = IF 1 <= n THEN n - 1 + 1 ELSE 0
      BY <2>1, <3>1, SubSeqProperties
    <3> QED
      BY <2>1, <3>2
  <2>4. left \in Seq(Byte)
    <3>1. \A i \in n + 1 .. l : out[i] \in Byte
      BY <2>1, <2>2
    <3>2. SubSeq(out, n + 1, l) \in Seq(Byte)
      BY <2>1, <3>1, SubSeqProperties
    <3> QED
      BY <3>2
  <2> HIDE DEF data, left
  <2>5. "RECV" \in Kinds /\ TRUE \in BOOLEAN /\ out' \in Seq(Byte) /\ Len(data) > 0
    BY <2>1, <2>3, <2>4 DEF Kinds
  <2> QED
    BY <2>1, <2>3, <2>5, RaiseTyped
<1>17. ASSUME NEW kind \in Kinds, NEW ok \in BOOLEAN, RaiseStatus(kind, ok)
       PROVE  Typed'
  <2>1. << >> \in Seq(Byte) /\ out' \in Seq(Byte) /\ ~(kind = "RECV" /\ ok) /\ Raise(kind, ok, << >>)
    BY <1>1, <1>17, EmptySeq DEF RaiseStatus, TypeOK
  <2> QED
    BY <2>1, RaiseTyped
<1>18. CASE UNCHANGED vars
  BY <1>18 DEF vars, Typed, TypeOK
<1> QED
  BY <1>3, <1>4, <1>5, <1>6, <1>7, <1>8, <1>9, <1>10, <1>11, <1>12, <1>13, <1>14, <1>15, <1>16, <1>17,
     <1>18 DEF Next

\* Every variable of the port keeps its type, whatever the events hold: a read
\* of more than the buffer has wraps the count, but never leaves its 32 bits.
THEOREM TypeCorrect ==
  Spec => []TypeOK
<1>1. Init => Typed
  <2>1. << >> \in Seq(Byte) /\ << >> \in Seq(Reply) /\ DOMAIN << >> = {}
    BY EmptySeq
  <2>2. Junk \in Byte /\ Place(Junk) \in [conn : 0 .. MaxConns, pos : 0 .. MaxStream]
    BY SizeAssumption DEF Junk, Byte, Place
  <2> SUFFICES ASSUME Init
               PROVE  Typed
    OBVIOUS
  <2>3. /\ waiting \in Kinds \cup {"idle"} /\ polling \in BOOLEAN /\ state \in Kinds \cup {"none"}
        /\ err \in BOOLEAN /\ gu32HostIp \in BOOLEAN /\ open \in BOOLEAN /\ faithful \in BOOLEAN
    BY DEF Init
  <2>4. /\ received_bytes \in 0 .. Wrap - 1 /\ buf_ptr \in Nat
        /\ conn \in 0 .. MaxConns /\ sent \in 0 .. MaxStream
    BY SizeAssumption DEF Init
  <2>5. /\ buf \in [1 .. BufSize -> Byte] /\ owed \in [Kinds -> Nat]
        /\ reader \in [phase : {"header", "length", "body"}, rem : Nat]
    BY <2>2 DEF Init, Start
  <2>6. TypeOK
    BY <2>1, <2>2, <2>3, <2>4, <2>5 DEF Init, TypeOK
  <2> QED
    BY <2>1, <2>6 DEF Init, Start, Typed
<1>2. Typed => TypeOK
  BY DEF Typed
<1> QED
  BY <1>1, <1>2, TypedStep, PTL DEF Spec
=============================================================================
