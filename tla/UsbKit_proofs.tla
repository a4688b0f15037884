---------------------------- MODULE UsbKit_proofs ----------------------------
(***************************************************************************)
(* Proofs about UsbKit for every number and length of commands and         *)
(* answers, every number of retries and both ways of using the scripts:    *)
(* that it implements KitChannel, and what the pauses of a patient script  *)
(* ensure.                                                                 *)
(***************************************************************************)
EXTENDS UsbKit, SequenceTheorems, TLAPS

----------------------------------------------------------------------------
(* The inductive invariant. *)

\* The board's counters fit what it is doing.
BoardCounts ==
  /\ board.pc # "idle" => g_usb_message_received > 0
  /\ board.pc = "store" => board.count > 0
  /\ board.pc = "send" => board.sent <= board.length /\ board.length <= Len(g_usb_buffer)
  /\ board.pc = "execute" => board.job \in Cmds

\* So do those of the script.
HostCounts ==
  /\ host.next_app_cmd_id <= host.cmd.no
  /\ host.pc \in {"writing", "waiting"} => host.cmd \in Cmds
  /\ host.pc = "writing" => host.part <= host.cmd.len

\* The commands that were executed.
Executed == Range(log.executed)

\* Commands are sent in order, and the one being written is not yet sent.
SentInOrder ==
  /\ \A c \in log.sent : c <= host.cmd.no /\ (host.pc = "writing" => c < host.cmd.no)
  /\ host.pc = "waiting" => host.cmd.no \in log.sent
  /\ Executed \subseteq log.sent

\* What may still be executed is newer than all that was, and its last report
\* says that it was sent.
Fresh(c) == \A e \in Executed : e < c
PieceHonest(p) ==
  IF p.kind = "command"
  THEN Fresh(p.of.no) /\ (EndsMessage(p) => p.of.no \in log.sent)
  ELSE p.of.no \in Executed
PiecesHonest ==
  /\ \A i \in DOMAIN g_usb_buffer : PieceHonest(g_usb_buffer[i])
  /\ board.pc = "execute" => board.job.no \in log.sent /\ Fresh(board.job.no)

\* Answers come from commands that were executed.
AnswersHonest ==
  /\ \A i \in DOMAIN inbox : inbox[i].kind = "answer" => inbox[i].of.no \in Executed
  /\ \A r \in host.app_responses : r.no \in Executed

IInv == TypeOK /\ BoardCounts /\ HostCounts /\ SentInOrder /\ PiecesHonest /\ AnswersHonest

----------------------------------------------------------------------------
(* The invariant of a patient script. *)

\* s is the beginning of t.
Begins(s, t) == Len(s) <= Len(t) /\ \A i \in 1 .. Len(s) : s[i] = t[i]

\* What the board does fits the command that the script sent last: it collects
\* a command, has the whole of one, answers it, or clears the buffer after that.
Collecting ==
  /\ board.pc = "idle" /\ g_usb_message_received = 0
  /\ \/ host.pc # "writing" /\ g_usb_buffer = << >>
     \/ /\ host.pc = "writing" /\ Len(g_usb_buffer) = host.part - 1
        /\ Begins(g_usb_buffer, Reports("command", host.cmd))
HasCommand ==
  /\ board.pc \in {"idle", "execute"} /\ g_usb_message_received = 1
  /\ host.pc = "waiting" /\ g_usb_buffer = Reports("command", host.cmd)
  /\ inbox = << >> /\ host.app_responses = {}
  /\ board.pc = "execute" => board.job = host.cmd
Answering ==
  /\ board.pc = "send" /\ g_usb_message_received = 1
  /\ g_usb_buffer = Reports("answer", host.cmd) /\ board.length = AnswerLength
  /\ \/ host.pc = "waiting" /\ host.app_responses = {} /\ Len(inbox) = board.sent
     \/ host.pc \in {"ready", "waiting"} /\ board.sent = AnswerLength
Clearing ==
  /\ board.pc \in {"clear", "length", "load", "store"} /\ g_usb_message_received = 1
  /\ host.pc \in {"ready", "waiting"}
  /\ board.pc \in {"load", "store"} => g_usb_buffer = << >>
  /\ board.pc = "store" => board.count = 1
InStep == Collecting \/ HasCommand \/ Answering \/ Clearing

\* What comes back is the beginning of the answer to that command.
OwnAnswer ==
  /\ host.pc # "failed"
  /\ Begins(inbox, Reports("answer", host.cmd))
  /\ host.app_responses \subseteq {host.cmd}
  /\ host.pc # "waiting" \/ host.app_responses # {} => inbox = << >>
  /\ host.pc # "waiting" => host.app_responses = {}
  /\ \A a \in log.accepted : a[1] = a[2]

PatientInv == Patient => InStep /\ OwnAnswer

----------------------------------------------------------------------------
(* Messages as reports. *)

\* The length of a message and the reports of which it consists.
MessageLength(kind, c) == IF kind = "command" THEN c.len ELSE AnswerLength

LEMMA ReportsAre ==
  ASSUME NEW kind \in {"command", "answer"}, NEW c \in Cmds \cup {NoCmd}
  PROVE  LET m == Reports(kind, c)
             n == MessageLength(kind, c)
         IN /\ n \in Nat \ {0} /\ Len(m) = n /\ DOMAIN m = 1 .. n
            /\ \A i \in 1 .. n : /\ m[i] = [kind |-> kind, of |-> c, part |-> i]
                                 /\ EndsMessage(m[i]) <=> i = n
            /\ c \in Cmds => m \in Seq(Piece)
<1> DEFINE m == Reports(kind, c)
           n == MessageLength(kind, c)
<1>1. n \in Nat \ {0}
  <2>1. c.len \in Nat \ {0}
    <3>1. CASE c \in Cmds
      BY <3>1, ReportAssumption DEF Cmds
    <3>2. CASE c = NoCmd
      BY <3>2 DEF NoCmd
    <3> QED
      BY <3>1, <3>2
  <2> QED
    BY <2>1, ReportAssumption DEF MessageLength
<1>2. m = [i \in 1 .. n |-> [kind |-> kind, of |-> c, part |-> i]]
  BY DEF Reports, MessageLength
<1>3. Len(m) = n /\ DOMAIN m = 1 .. n
        /\ \A i \in 1 .. n : m[i] = [kind |-> kind, of |-> c, part |-> i]
  BY <1>1, <1>2
<1>4. \A i \in 1 .. n : EndsMessage(m[i]) <=> i = n
  <2>1. ASSUME NEW i \in 1 .. n
        PROVE  EndsMessage(m[i]) <=> i = n
    <3>1. m[i].kind = kind /\ m[i].of = c /\ m[i].part = i
      BY <1>3
    <3> HIDE DEF m
    <3> QED
      BY <3>1 DEF EndsMessage, MessageLength
  <2> QED
    BY <2>1
<1>5. ASSUME c \in Cmds
      PROVE  m \in Seq(Piece)
  <2>1. n \in Lengths \cup {AnswerLength}
    BY <1>5 DEF MessageLength, Cmds
  <2>2. \A i \in 1 .. n : [kind |-> kind, of |-> c, part |-> i] \in Piece
    BY <1>5, <2>1 DEF Piece, Parts
  <2> QED
    BY <1>1, <1>2, <2>2
<1> QED
  BY <1>1, <1>3, <1>4, <1>5

\* A buffer that parses begins with all the reports of the command, the last of
\* which is there too.
LEMMA Parsed ==
  ASSUME g_usb_buffer \in Seq(Piece), Parses(g_usb_buffer)
  PROVE  LET c == Head(g_usb_buffer).of
         IN /\ c \in Cmds /\ g_usb_buffer # << >>
            /\ 1 \in DOMAIN g_usb_buffer /\ c.len \in DOMAIN g_usb_buffer
            /\ g_usb_buffer[1].kind = "command" /\ g_usb_buffer[1].of = c
            /\ g_usb_buffer[c.len] = [kind |-> "command", of |-> c, part |-> c.len]
<1> DEFINE b == g_usb_buffer
           c == Head(b).of
           q == Reports("command", c)
<1>1. b # << >> /\ IsPrefix(q, b)
  BY DEF Parses
<1>2. Len(b) \in Nat \ {0} /\ DOMAIN b = 1 .. Len(b) /\ Head(b) = b[1]
  BY <1>1, EmptySeq, LenProperties
<1>3. c \in Cmds
  <2>1. b[1] \in Piece
    BY <1>2, ElementOfSeq
  <2>2. b[1].of \in Cmds
    BY <2>1 DEF Piece
  <2> QED
    BY <1>2, <2>2
<1>4. c.len \in Nat \ {0}
  BY <1>3, ReportAssumption DEF Cmds
<1>5. /\ Len(q) = c.len /\ \A i \in 1 .. c.len : q[i] = [kind |-> "command", of |-> c, part |-> i]
      /\ q \in Seq(Piece)
  BY <1>3, ReportsAre DEF MessageLength
<1> HIDE DEF q, c
<1>6. c.len <= Len(b) /\ SubSeq(q, 1, c.len) = SubSeq(b, 1, c.len)
  BY <1>1, <1>5 DEF IsPrefix
<1>7. \A i \in 1 .. c.len : q[i] = b[i]
  <2>1. \A i \in 1 .. c.len : q[i] \in Piece /\ b[i] \in Piece
    BY <1>2, <1>4, <1>5, <1>6, ElementOfSeq
  <2>2. \A i \in 1 .. c.len - 1 + 1 : SubSeq(q, 1, c.len)[i] = q[1 + i - 1]
    BY <1>4, <2>1, SubSeqProperties
  <2>3. \A i \in 1 .. c.len - 1 + 1 : SubSeq(b, 1, c.len)[i] = b[1 + i - 1]
    BY <1>4, <2>1, SubSeqProperties
  <2>4. \A i \in 1 .. c.len : i \in 1 .. c.len - 1 + 1 /\ 1 + i - 1 = i
    BY <1>4
  <2> QED
    BY <1>6, <2>2, <2>3, <2>4
<1>8. 1 \in DOMAIN b /\ c.len \in DOMAIN b /\ 1 \in 1 .. c.len /\ c.len \in 1 .. c.len
  BY <1>2, <1>4, <1>6
<1>9. b[1].kind = "command" /\ b[1].of = c
  <2>1. b[1] = [kind |-> "command", of |-> c, part |-> 1]
    BY <1>5, <1>7, <1>8
  <2> QED
    BY <2>1
<1>10. b[c.len] = [kind |-> "command", of |-> c, part |-> c.len]
  BY <1>5, <1>7, <1>8
<1> QED
  BY <1>1, <1>3, <1>8, <1>9, <1>10 DEF c

\* The report the script writes next.
LEMMA Written ==
  ASSUME TypeOK, HostCounts, host.pc = "writing"
  PROVE  LET p == [kind |-> "command", of |-> host.cmd, part |-> host.part]
         IN /\ host.cmd \in Cmds /\ p \in Piece /\ host.part \in 1 .. host.cmd.len
            /\ EndsMessage(p) <=> host.part = host.cmd.len
<1>1. host.cmd \in Cmds /\ host.part \in Parts /\ host.part <= host.cmd.len
  BY DEF TypeOK, HostCounts
<1>2. host.part \in Nat \ {0}
  BY <1>1, ReportAssumption DEF Parts
<1>3. host.cmd.len \in Nat
  BY <1>1, ReportAssumption DEF Cmds
<1> QED
  BY <1>1, <1>2, <1>3 DEF Piece, EndsMessage

----------------------------------------------------------------------------
(* Types and counters. *)

\* The steps of the script, and those of the board, by what they change.
LEMMA ScriptTypes ==
  ASSUME TypeOK, BoardCounts, HostCounts, Script \/ HostRestarts
  PROVE  TypeOK' /\ BoardCounts' /\ HostCounts'
<1> DEFINE HostType == [pc : {"ready", "writing", "waiting", "failed"},
                        cmd : Cmds \cup {NoCmd}, part : Parts,
                        next_app_cmd_id : 0..MaxCommands, app_responses : SUBSET Cmds]
           LogType == [sent : SUBSET Numbers, executed : Seq(Numbers),
                       accepted : SUBSET (Numbers \X Numbers)]
<1>0. /\ host \in HostType /\ inbox \in Seq(Piece) /\ g_usb_buffer \in Seq(Piece)
      /\ board \in Locals /\ g_usb_message_received \in Nat /\ log \in LogType /\ habit \in Habits
  BY DEF TypeOK
<1>1. ASSUME host' \in HostType, inbox' \in Seq(Piece), UNCHANGED << boardVars, habit >>, log' \in LogType
      PROVE  TypeOK' /\ BoardCounts'
  BY <1>0, <1>1 DEF TypeOK, BoardCounts, boardVars
<1>2. CASE HostBegins
  <2>1. PICK n \in Lengths :
          host' = [host EXCEPT !.pc = "writing", !.part = 1,
                     !.next_app_cmd_id = host.next_app_cmd_id + 1,
                     !.cmd = [no |-> host.cmd.no + 1, id |-> host.next_app_cmd_id, len |-> n]]
    BY <1>2 DEF HostBegins
  <2>2. host.cmd.no \in 0 .. MaxCommands - 1 /\ host.next_app_cmd_id \in 0 .. host.cmd.no
    <3>1. host.cmd.no \in Nat
      <4>1. host.cmd \in Cmds \/ host.cmd = NoCmd
        BY <1>0
      <4> QED
        BY <4>1, ReportAssumption DEF Cmds, Numbers, NoCmd
    <3>2. host.next_app_cmd_id \in Nat
      BY <1>0, ReportAssumption
    <3> QED
      BY <1>2, <3>1, <3>2, ReportAssumption DEF HostBegins, HostCounts
  <2> DEFINE c == [no |-> host.cmd.no + 1, id |-> host.next_app_cmd_id, len |-> n]
  <2>3. c \in Cmds /\ c.no = host.cmd.no + 1 /\ c.len = n
    <3>1. host.cmd.no + 1 \in Numbers /\ host.next_app_cmd_id \in 0 .. MaxCommands - 1
      BY <2>2, ReportAssumption DEF Numbers
    <3> QED
      BY <3>1 DEF Cmds
  <2>4. 1 \in Parts
    BY ReportAssumption DEF Parts
  <2>5. n \in Nat \ {0} /\ host.next_app_cmd_id + 1 \in 0 .. MaxCommands
    BY <2>2, ReportAssumption
  <2> HIDE DEF c
  <2>6. /\ host'.pc = "writing" /\ host'.part = 1 /\ host'.cmd = c
        /\ host'.next_app_cmd_id = host.next_app_cmd_id + 1
    BY <1>0, <2>1 DEF c
  <2>7. host' \in HostType
    BY <1>0, <2>1, <2>3, <2>4, <2>5 DEF c
  <2>8. HostCounts'
    BY <2>2, <2>3, <2>5, <2>6 DEF HostCounts
  <2>9. UNCHANGED << boardVars, inbox, habit, log >>
    BY <1>2 DEF HostBegins
  <2> QED
    BY <1>0, <1>1, <2>7, <2>8, <2>9
<1>3. CASE ReportOut
  <2> DEFINE p == [kind |-> "command", of |-> host.cmd, part |-> host.part]
  <2>1. /\ host.cmd \in Cmds /\ p \in Piece /\ host.part \in 1 .. host.cmd.len
        /\ EndsMessage(p) <=> host.part = host.cmd.len
    BY <1>3, Written DEF ReportOut
  <2> HIDE DEF p
  <2>2. /\ g_usb_buffer' = Append(g_usb_buffer, p) /\ UNCHANGED << board, inbox, habit >>
        /\ g_usb_message_received' = g_usb_message_received + Received(p)
        /\ IF EndsMessage(p)
           THEN /\ host' = [host EXCEPT !.pc = "waiting"]
                /\ log' = [log EXCEPT !.sent = log.sent \cup {host.cmd.no}]
           ELSE /\ host' = [host EXCEPT !.part = host.part + 1]
                /\ log' = log
    BY <1>3 DEF ReportOut, p
  <2>3. g_usb_buffer' \in Seq(Piece) /\ Len(g_usb_buffer') = Len(g_usb_buffer) + 1
        /\ Len(g_usb_buffer) \in Nat
    BY <1>0, <2>1, <2>2, AppendProperties, LenProperties
  <2>4. g_usb_message_received' \in Nat /\ g_usb_message_received' >= g_usb_message_received
    BY <1>0, <2>2 DEF Received
  <2>5. host.cmd.no \in Numbers /\ host.cmd.len \in Lengths /\ host.cmd.len \in Nat
    BY <2>1, ReportAssumption DEF Cmds
  <2>6. host' \in HostType /\ HostCounts'
    <3>1. CASE EndsMessage(p)
      <4>1. host' = [host EXCEPT !.pc = "waiting"]
        BY <2>2, <3>1
      <4>2. host' \in HostType
        BY <1>0, <4>1
      <4>3. /\ host'.cmd = host.cmd /\ host'.pc = "waiting"
            /\ host'.next_app_cmd_id = host.next_app_cmd_id
        BY <1>0, <4>1
      <4> QED
        BY <2>1, <4>2, <4>3 DEF HostCounts
    <3>2. CASE ~EndsMessage(p)
      <4>1. host.part + 1 \in 1 .. host.cmd.len
        BY <2>1, <2>5, <3>2
      <4>2. host.part + 1 \in Parts
        BY <2>5, <4>1 DEF Parts
      <4>3. host' = [host EXCEPT !.part = host.part + 1]
        BY <2>2, <3>2
      <4>4. host' \in HostType
        BY <1>0, <4>2, <4>3
      <4>5. /\ host'.part = host.part + 1 /\ host'.cmd = host.cmd
            /\ host'.pc = host.pc /\ host'.next_app_cmd_id = host.next_app_cmd_id
        BY <1>0, <4>3
      <4> QED
        BY <4>1, <4>4, <4>5 DEF HostCounts
    <3> QED
      BY <3>1, <3>2
  <2>7. log' \in LogType
    <3>1. CASE EndsMessage(p)
      <4>1. log' = [log EXCEPT !.sent = log.sent \cup {host.cmd.no}]
        BY <2>2, <3>1
      <4> QED
        BY <1>0, <2>5, <4>1
    <3>2. CASE ~EndsMessage(p)
      BY <1>0, <2>2, <3>2
    <3> QED
      BY <3>1, <3>2
  <2>8. BoardCounts'
    <3>1. board' = board
      BY <2>2
    <3>2. board \in Locals /\ board.length \in Nat
      BY <1>0 DEF Locals
    <3> QED
      BY <1>0, <2>3, <2>4, <3>1, <3>2 DEF BoardCounts
  <2> QED
    BY <1>0, <2>2, <2>3, <2>4, <2>6, <2>7, <2>8 DEF TypeOK
<1>4. CASE HostReads
  <2>1. PICK n \in DOMAIN inbox :
          LET line   == SubSeq(inbox, 1, n)
              answer == Head(line).of
          IN /\ inbox' = SubSeq(inbox, n + 1, Len(inbox))
             /\ \/ /\ line = Reports("answer", answer)
                   /\ host' = [host EXCEPT !.app_responses =
                                 {r \in host.app_responses : r.id # answer.id} \cup {answer}]
                \/ host' = [host EXCEPT !.pc = "failed"]
    BY <1>4 DEF HostReads
  <2> DEFINE line   == SubSeq(inbox, 1, n)
             answer == Head(line).of
  <2>2. n \in 1 .. Len(inbox) /\ Len(inbox) \in Nat
    BY <1>0, <2>1, LenProperties
  <2>3. \A i \in 1 .. Len(inbox) : inbox[i] \in Piece
    BY <1>0, ElementOfSeq
  <2>4. inbox' \in Seq(Piece)
    <3>1. \A i \in n + 1 .. Len(inbox) : inbox[i] \in Piece
      BY <2>2, <2>3
    <3> QED
      BY <2>1, <2>2, <3>1, SubSeqProperties
  <2>5. answer \in Cmds
    <3>1. 1 \in 1 .. Len(inbox) /\ n \in 1 .. Len(inbox) /\ n \in 1 .. Len(inbox)
      BY <2>2
    <3>2. Head(line) = inbox[1]
      BY <1>0, <2>2, <3>1, HeadTailOfSubSeq
    <3>3. inbox[1] \in Piece
      BY <2>3, <3>1
    <3> QED
      BY <3>2, <3>3 DEF Piece
  <2> HIDE DEF line, answer
  <2>6. host' \in HostType /\ HostCounts'
    <3>1. CASE host' = [host EXCEPT !.app_responses =
                          {r \in host.app_responses : r.id # answer.id} \cup {answer}]
      <4> DEFINE R == {r \in host.app_responses : r.id # answer.id} \cup {answer}
      <4>1. R \in SUBSET Cmds
        BY <1>0, <2>5
      <4> HIDE DEF R
      <4>2. host' = [host EXCEPT !.app_responses = R]
        BY <3>1 DEF R
      <4> QED
        BY <1>0, <4>1, <4>2 DEF HostCounts
    <3>2. CASE host' = [host EXCEPT !.pc = "failed"]
      BY <1>0, <3>2 DEF HostCounts
    <3> QED
      BY <2>1, <3>1, <3>2 DEF answer, line
  <2>7. UNCHANGED << boardVars, habit, log >>
    BY <1>4 DEF HostReads
  <2> QED
    BY <1>0, <1>1, <2>4, <2>6, <2>7
<1>5. CASE HostAccepts
  <2>1. PICK r \in host.app_responses :
          /\ host' = [host EXCEPT !.pc = "ready", !.app_responses = host.app_responses \ {r}]
          /\ log' = [log EXCEPT !.accepted = log.accepted \cup {<< host.cmd.no, r.no >>}]
    BY <1>5 DEF HostAccepts
  <2>2. host.cmd \in Cmds /\ r \in Cmds
    BY <1>0, <1>5, <2>1 DEF HostAccepts, HostCounts
  <2>3. << host.cmd.no, r.no >> \in Numbers \X Numbers
    BY <2>2 DEF Cmds
  <2>4. log' \in LogType
    <3>1. log.accepted \cup {<< host.cmd.no, r.no >>} \in SUBSET (Numbers \X Numbers)
      BY <1>0, <2>3
    <3> QED
      BY <1>0, <2>1, <3>1
  <2>5. host' \in HostType /\ HostCounts'
    BY <1>0, <2>1 DEF HostCounts
  <2>6. UNCHANGED << boardVars, inbox, habit >>
    BY <1>5 DEF HostAccepts
  <2> QED
    BY <1>0, <1>1, <2>4, <2>5, <2>6
<1>6. CASE HostRestarts
  <2>1. host' = [host EXCEPT !.pc = "ready", !.next_app_cmd_id = 0, !.app_responses = {}]
        /\ inbox' = << >> /\ UNCHANGED << boardVars, habit, log >>
    BY <1>6 DEF HostRestarts
  <2>2. 0 \in 0 .. MaxCommands /\ << >> \in Seq(Piece)
    BY ReportAssumption, EmptySeq
  <2>3. host' \in HostType
    BY <1>0, <2>1, <2>2
  <2>4. host.cmd.no \in Nat
    <3>1. host.cmd \in Cmds \/ host.cmd = NoCmd
      BY <1>0
    <3> QED
      BY <3>1, ReportAssumption DEF Cmds, Numbers, NoCmd
  <2>5. HostCounts'
    BY <1>0, <2>1, <2>4 DEF HostCounts
  <2> QED
    BY <1>0, <1>1, <2>1, <2>2, <2>3, <2>5
<1> QED
  BY <1>2, <1>3, <1>4, <1>5, <1>6 DEF Script

LEMMA BoardTypes ==
  ASSUME TypeOK, BoardCounts, HostCounts, MainLoop
  PROVE  TypeOK' /\ BoardCounts' /\ HostCounts'
<1>0. /\ inbox \in Seq(Piece) /\ g_usb_buffer \in Seq(Piece) /\ board \in Locals
      /\ g_usb_message_received \in Nat
      /\ log \in [sent : SUBSET Numbers, executed : Seq(Numbers),
                  accepted : SUBSET (Numbers \X Numbers)]
  BY DEF TypeOK
<1>1. ASSUME board' \in Locals, g_usb_buffer' \in Seq(Piece), inbox' \in Seq(Piece),
             g_usb_message_received' \in Nat, UNCHANGED << host, habit >>,
             log' \in [sent : SUBSET Numbers, executed : Seq(Numbers),
                       accepted : SUBSET (Numbers \X Numbers)]
      PROVE  TypeOK' /\ HostCounts'
  BY <1>1 DEF TypeOK, HostCounts
<1>2. CASE Handle
  <2>1. /\ g_usb_message_received > 0 /\ board.pc = "idle"
        /\ UNCHANGED << g_usb_buffer, g_usb_message_received, inbox, host, habit, log >>
    BY <1>2 DEF Handle, MessageWaits
  <2>2. CASE /\ Parses(g_usb_buffer)
             /\ board' = [board EXCEPT !.pc = "execute", !.job = Job(g_usb_buffer)]
    <3>1. Job(g_usb_buffer) \in Cmds
      BY <1>0, <2>2, Parsed DEF Job
    <3>2. board' \in Locals /\ board'.pc = "execute" /\ board'.job \in Cmds
      BY <1>0, <2>2, <3>1 DEF Locals
    <3> QED
      BY <1>0, <1>1, <2>1, <3>2 DEF BoardCounts
  <2>3. CASE board' = [board EXCEPT !.pc = "send", !.sent = 0, !.send_retries = Retries,
                         !.length = Len(g_usb_buffer), !.response_sent = FALSE]
    <3>1. Len(g_usb_buffer) \in Nat /\ Retries \in 0 .. Retries
      BY <1>0, ReportAssumption, LenProperties
    <3>2. board' \in Locals /\ board'.pc = "send" /\ board'.sent = 0
            /\ board'.length = Len(g_usb_buffer)
      BY <1>0, <2>3, <3>1 DEF Locals
    <3> QED
      BY <1>0, <1>1, <2>1, <3>1, <3>2 DEF BoardCounts
  <2> QED
    BY <1>2, <2>2, <2>3 DEF Handle
<1>3. CASE Execute
  <2>1. /\ board.job \in Cmds /\ g_usb_message_received > 0
        /\ UNCHANGED << g_usb_message_received, inbox, host, habit >>
        /\ g_usb_buffer' = Reports("answer", board.job)
        /\ log' = [log EXCEPT !.executed = Append(log.executed, board.job.no)]
        /\ board' = [board EXCEPT !.pc = "send", !.sent = 0, !.send_retries = Retries,
                            !.length = AnswerLength, !.response_sent = FALSE]
    BY <1>3 DEF Execute, BoardCounts
  <2>2. g_usb_buffer' \in Seq(Piece) /\ Len(g_usb_buffer') = AnswerLength /\ AnswerLength \in Nat
    BY <2>1, ReportsAre DEF MessageLength
  <2>3. board' \in Locals /\ board'.pc = "send" /\ board'.sent = 0 /\ board'.length = AnswerLength
    <3>1. Retries \in 0 .. Retries
      BY ReportAssumption
    <3> QED
      BY <1>0, <2>1, <2>2, <3>1 DEF Locals
  <2>4. log' \in [sent : SUBSET Numbers, executed : Seq(Numbers),
                  accepted : SUBSET (Numbers \X Numbers)]
    <3>1. board.job.no \in Numbers
      BY <2>1 DEF Cmds
    <3>2. Append(log.executed, board.job.no) \in Seq(Numbers)
      BY <1>0, <3>1, AppendProperties
    <3> QED
      BY <1>0, <2>1, <3>2
  <2>5. BoardCounts'
    BY <2>1, <2>2, <2>3 DEF BoardCounts
  <2> QED
    BY <1>0, <1>1, <2>1, <2>2, <2>3, <2>4, <2>5
<1>4. CASE SendReport
  <2>1. /\ board.pc = "send" /\ board.sent < board.length
        /\ board.length <= Len(g_usb_buffer) /\ g_usb_message_received > 0
        /\ inbox' = Append(inbox, g_usb_buffer[board.sent + 1])
        /\ board' = [board EXCEPT !.sent = board.sent + 1, !.response_sent = TRUE]
        /\ UNCHANGED << g_usb_buffer, g_usb_message_received, host, habit, log >>
    BY <1>4 DEF SendReport, BoardCounts
  <2>2. board.sent \in Nat /\ board.length \in Nat /\ Len(g_usb_buffer) \in Nat
    BY <1>0, LenProperties DEF Locals
  <2>3. board.sent + 1 \in 1 .. Len(g_usb_buffer) /\ board.sent + 1 \in Nat
    BY <2>1, <2>2
  <2>4. inbox' \in Seq(Piece)
    BY <1>0, <2>1, <2>3, ElementOfSeq, AppendProperties
  <2>5. board' \in Locals /\ board'.pc = "send" /\ board'.sent = board.sent + 1
          /\ board'.length = board.length
    BY <1>0, <2>1, <2>3 DEF Locals
  <2>6. BoardCounts'
    BY <2>1, <2>2, <2>5 DEF BoardCounts
  <2> QED
    BY <1>0, <1>1, <2>1, <2>4, <2>5, <2>6
<1>5. CASE SendFails
  <2>1. /\ board.pc = "send" /\ board.sent < board.length
        /\ board.length <= Len(g_usb_buffer) /\ g_usb_message_received > 0
        /\ board' = AfterFailure(board)
        /\ UNCHANGED << g_usb_buffer, g_usb_message_received, inbox, host, habit, log >>
    BY <1>5 DEF SendFails, BoardCounts
  <2>2. board.sent \in Nat /\ board.length \in Nat /\ Len(g_usb_buffer) \in Nat
    BY <1>0, LenProperties DEF Locals
  <2>3. CASE board' = [board EXCEPT !.send_retries = board.send_retries - 1, !.response_sent = FALSE]
             /\ board.send_retries > 0
    <3>1. board.send_retries - 1 \in 0 .. Retries
      <4>1. board.send_retries \in 0 .. Retries
        BY <1>0 DEF Locals
      <4> QED
        BY <2>3, <4>1, ReportAssumption
    <3>2. board' \in Locals /\ board'.pc = "send" /\ board'.sent = board.sent
            /\ board'.length = board.length
      BY <1>0, <2>1, <2>3, <3>1 DEF Locals
    <3>3. BoardCounts'
      BY <2>1, <2>2, <3>2 DEF BoardCounts
    <3> QED
      BY <1>0, <1>1, <2>1, <3>2, <3>3
  <2>4. CASE board' = [board EXCEPT !.pc = "clear", !.response_sent = FALSE]
    <3>1. board' \in Locals /\ board'.pc = "clear"
      BY <1>0, <2>4 DEF Locals
    <3>2. BoardCounts'
      BY <2>1, <3>1 DEF BoardCounts
    <3> QED
      BY <1>0, <1>1, <2>1, <3>1, <3>2
  <2> QED
    BY <2>1, <2>3, <2>4 DEF AfterFailure
<1>6. CASE SendEnds \/ ClearBuffer \/ ResetLength
  <2>1. /\ board.pc \in {"send", "clear", "length"} /\ g_usb_message_received > 0
        /\ g_usb_buffer' \in {g_usb_buffer, << >>}
        /\ \E to \in {"clear", "length", "load"} : board' = [board EXCEPT !.pc = to]
        /\ UNCHANGED << g_usb_message_received, inbox, host, habit, log >>
    BY <1>6 DEF SendEnds, ClearBuffer, ResetLength, BoardCounts
  <2>2. board' \in Locals /\ board'.pc \in {"clear", "length", "load"}
    BY <1>0, <2>1 DEF Locals
  <2>3. g_usb_buffer' \in Seq(Piece)
    BY <1>0, <2>1, EmptySeq
  <2>4. BoardCounts'
    BY <2>1, <2>2 DEF BoardCounts
  <2> QED
    BY <1>0, <1>1, <2>1, <2>2, <2>3, <2>4
<1>7. CASE LoadCount
  <2>1. /\ board.pc = "load" /\ g_usb_message_received > 0
        /\ board' = [board EXCEPT !.pc = "store", !.count = g_usb_message_received]
        /\ UNCHANGED << g_usb_buffer, g_usb_message_received, inbox, host, habit, log >>
    BY <1>7 DEF LoadCount, BoardCounts
  <2>2. board' \in Locals /\ board'.pc = "store" /\ board'.count = g_usb_message_received
    BY <1>0, <2>1 DEF Locals
  <2>3. BoardCounts'
    BY <2>1, <2>2 DEF BoardCounts
  <2> QED
    BY <1>0, <1>1, <2>1, <2>2, <2>3
<1>8. CASE StoreCount
  <2>1. /\ board.pc = "store" /\ board.count > 0
        /\ g_usb_message_received' = board.count - 1
        /\ board' = [board EXCEPT !.pc = "idle", !.count = 0]
        /\ UNCHANGED << g_usb_buffer, inbox, host, habit, log >>
    BY <1>8 DEF StoreCount, BoardCounts
  <2>2. board' \in Locals /\ board'.pc = "idle"
    BY <1>0, <2>1 DEF Locals
  <2>3. g_usb_message_received' \in Nat
    <3>1. board.count \in Nat
      BY <1>0 DEF Locals
    <3> QED
      BY <2>1, <3>1
  <2>4. BoardCounts'
    BY <2>2 DEF BoardCounts
  <2> QED
    BY <1>0, <1>1, <2>1, <2>2, <2>3, <2>4
<1> QED
  BY <1>2, <1>3, <1>4, <1>5, <1>6, <1>7, <1>8 DEF MainLoop

----------------------------------------------------------------------------
(* What is sent, executed and answered. *)

\* An execution adds its command to those that were executed.
LEMMA ExecutedMore ==
  ASSUME TypeOK, BoardCounts, Execute
  PROVE  /\ log' = [log EXCEPT !.executed = Append(log.executed, board.job.no)]
         /\ log'.sent = log.sent /\ Executed' = Executed \cup {board.job.no}
         /\ board.job.no \in Numbers
<1> DEFINE e == log.executed
           n == board.job.no
<1>1. e \in Seq(Numbers) /\ n \in Numbers
  BY DEF TypeOK, Execute, BoardCounts, Cmds
<1>2. log' = [log EXCEPT !.executed = Append(e, n)]
  BY DEF Execute
<1>3. log'.executed = Append(e, n) /\ log'.sent = log.sent
  BY <1>2 DEF TypeOK
<1>4. /\ DOMAIN e = 1 .. Len(e) /\ Len(e) \in Nat /\ DOMAIN Append(e, n) = 1 .. Len(e) + 1
      /\ \A i \in 1 .. Len(e) : Append(e, n)[i] = e[i]
      /\ Append(e, n)[Len(e) + 1] = n
  BY <1>1, AppendProperties, LenProperties
<1>5. Range(Append(e, n)) = Range(e) \cup {n}
  <2>1. 1 .. Len(e) + 1 = (1 .. Len(e)) \cup {Len(e) + 1}
    BY <1>4
  <2> HIDE DEF e, n
  <2> QED
    BY <1>4, <2>1 DEF Range
<1> QED
  BY <1>1, <1>2, <1>3, <1>5 DEF Executed

\* The script sends commands in the order of their numbers.
LEMMA OrderStep ==
  ASSUME TypeOK, BoardCounts, HostCounts, SentInOrder, PiecesHonest, Next
  PROVE  SentInOrder'
<1>0. /\ host \in [pc : {"ready", "writing", "waiting", "failed"},
                   cmd : Cmds \cup {NoCmd}, part : Parts,
                   next_app_cmd_id : 0..MaxCommands, app_responses : SUBSET Cmds]
      /\ log \in [sent : SUBSET Numbers, executed : Seq(Numbers),
                  accepted : SUBSET (Numbers \X Numbers)]
  BY DEF TypeOK
<1>1. host.cmd.no \in Nat /\ \A c \in log.sent : c \in Nat
  <2>1. host.cmd \in Cmds \/ host.cmd = NoCmd
    BY <1>0
  <2> QED
    BY <1>0, <2>1, ReportAssumption DEF Cmds, Numbers, NoCmd
<1>2. CASE HostBegins
  <2>1. /\ host'.pc = "writing" /\ host'.cmd.no = host.cmd.no + 1 /\ log' = log
    BY <1>0, <1>2 DEF HostBegins
  <2> QED
    BY <1>1, <2>1 DEF SentInOrder, Executed
<1>3. CASE ReportOut
  <2>1. CASE /\ host' = [host EXCEPT !.pc = "waiting"]
             /\ log' = [log EXCEPT !.sent = log.sent \cup {host.cmd.no}]
    <3>1. /\ host'.pc = "waiting" /\ host'.cmd = host.cmd
          /\ log'.sent = log.sent \cup {host.cmd.no} /\ Executed' = Executed
      BY <1>0, <2>1 DEF Executed
    <3> QED
      BY <1>1, <3>1 DEF SentInOrder
  <2>2. CASE host' = [host EXCEPT !.part = host.part + 1] /\ log' = log
    <3>1. host'.pc = host.pc /\ host'.cmd = host.cmd
      BY <1>0, <2>2
    <3> QED
      BY <2>2, <3>1 DEF SentInOrder, Executed
  <2> QED
    BY <1>3, <2>1, <2>2 DEF ReportOut
<1>4. CASE HostReads
  <2>1. host.pc = "waiting" /\ log' = log
    BY <1>4 DEF HostReads
  <2>2. host'.pc \in {host.pc, "failed"} /\ host'.cmd = host.cmd
    BY <1>0, <1>4 DEF HostReads
  <2> QED
    BY <2>1, <2>2 DEF SentInOrder, Executed
<1>5. CASE HostAccepts
  <2>1. host'.pc = "ready" /\ host'.cmd = host.cmd
    BY <1>0, <1>5 DEF HostAccepts
  <2>2. log'.sent = log.sent /\ Executed' = Executed
    BY <1>0, <1>5 DEF HostAccepts, Executed
  <2> QED
    BY <2>1, <2>2 DEF SentInOrder
<1>6. CASE HostRestarts
  <2>1. host'.pc = "ready" /\ host'.cmd = host.cmd /\ log' = log
    BY <1>0, <1>6 DEF HostRestarts
  <2> QED
    BY <2>1 DEF SentInOrder, Executed
<1>7. CASE Execute
  <2>1. log'.sent = log.sent /\ Executed' = Executed \cup {board.job.no} /\ host' = host
    BY <1>7, ExecutedMore DEF Execute
  <2>2. board.job.no \in log.sent
    BY <1>7 DEF Execute, PiecesHonest
  <2> QED
    BY <2>1, <2>2 DEF SentInOrder
<1>8. CASE Handle \/ SendReport \/ SendFails \/ SendEnds
             \/ ClearBuffer \/ ResetLength \/ LoadCount \/ StoreCount
  <2>1. host' = host /\ log' = log
    BY <1>8 DEF Handle, SendReport, SendFails, SendEnds, ClearBuffer, ResetLength, LoadCount, StoreCount
  <2> QED
    BY <2>1 DEF SentInOrder, Executed
<1> QED
  BY <1>2, <1>3, <1>4, <1>5, <1>6, <1>7, <1>8 DEF Next, Script, MainLoop

\* What is in the buffer stays new until it is executed, and is then replaced.
LEMMA PiecesStep ==
  ASSUME TypeOK, BoardCounts, HostCounts, SentInOrder, PiecesHonest, Next
  PROVE  PiecesHonest'
<1>0. /\ g_usb_buffer \in Seq(Piece) /\ board \in Locals
      /\ log \in [sent : SUBSET Numbers, executed : Seq(Numbers),
                  accepted : SUBSET (Numbers \X Numbers)]
  BY DEF TypeOK
<1>1. ASSUME Executed' = Executed, log.sent \subseteq log'.sent
      PROVE  /\ \A c : Fresh(c)' <=> Fresh(c)
             /\ \A i \in DOMAIN g_usb_buffer :
                  /\ g_usb_buffer[i].kind = "command" =>
                       /\ \A e \in Executed' : e < g_usb_buffer[i].of.no
                       /\ EndsMessage(g_usb_buffer[i]) => g_usb_buffer[i].of.no \in log'.sent
                  /\ g_usb_buffer[i].kind # "command" => g_usb_buffer[i].of.no \in Executed'
  BY <1>1 DEF Fresh, PiecesHonest, PieceHonest
<1>2. ASSUME Executed' = Executed, log.sent \subseteq log'.sent,
             g_usb_buffer' \in {g_usb_buffer, << >>}
      PROVE  \A i \in DOMAIN g_usb_buffer' : PieceHonest(g_usb_buffer[i])'
  <2>1. CASE g_usb_buffer' = << >>
    <3>1. DOMAIN g_usb_buffer' = {}
      BY <2>1, EmptySeq, LenProperties
    <3> QED
      BY <3>1
  <2>2. CASE g_usb_buffer' = g_usb_buffer
    BY <1>1, <1>2, <2>2 DEF PieceHonest, Fresh
  <2> QED
    BY <1>2, <2>1, <2>2
<1>3. CASE HostBegins \/ HostReads \/ HostAccepts \/ HostRestarts
  <2>1. Executed' = Executed /\ log'.sent = log.sent
    BY <1>0, <1>3 DEF HostBegins, HostReads, HostAccepts, HostRestarts, Executed
  <2>2. g_usb_buffer' = g_usb_buffer /\ board' = board
    BY <1>3 DEF HostBegins, HostReads, HostAccepts, HostRestarts, boardVars
  <2> QED
    BY <1>2, <2>1, <2>2 DEF PiecesHonest, Fresh
<1>4. CASE ReportOut
  <2> DEFINE p == [kind |-> "command", of |-> host.cmd, part |-> host.part]
  <2>1. p \in Piece /\ p.kind = "command" /\ p.of = host.cmd
    BY <1>4, Written DEF ReportOut
  <2> HIDE DEF p
  <2>2. g_usb_buffer' = Append(g_usb_buffer, p) /\ board' = board
    BY <1>4 DEF ReportOut, p
  <2>3. /\ Executed' = Executed /\ log.sent \subseteq log'.sent
        /\ EndsMessage(p) => host.cmd.no \in log'.sent
    <3>1. /\ EndsMessage(p) => log' = [log EXCEPT !.sent = log.sent \cup {host.cmd.no}]
          /\ ~EndsMessage(p) => log' = log
      BY <1>4 DEF ReportOut, p
    <3> QED
      BY <1>0, <3>1 DEF Executed
  <2>4. /\ DOMAIN g_usb_buffer = 1 .. Len(g_usb_buffer) /\ Len(g_usb_buffer) \in Nat
        /\ DOMAIN g_usb_buffer' = 1 .. Len(g_usb_buffer) + 1
        /\ \A i \in 1 .. Len(g_usb_buffer) : g_usb_buffer'[i] = g_usb_buffer[i]
        /\ g_usb_buffer'[Len(g_usb_buffer) + 1] = p
    BY <1>0, <2>1, <2>2, AppendProperties, LenProperties
  <2>5. Fresh(host.cmd.no)
    BY <1>4 DEF ReportOut, SentInOrder, Fresh
  <2>6. ASSUME NEW i \in DOMAIN g_usb_buffer'
        PROVE  PieceHonest(g_usb_buffer[i])'
    <3>1. CASE i = Len(g_usb_buffer) + 1
      <4>1. g_usb_buffer'[i] = p
        BY <2>4, <3>1
      <4>2. \A e \in Executed' : e < p.of.no
        BY <2>1, <2>3, <2>5 DEF Fresh
      <4>3. EndsMessage(p) => p.of.no \in log'.sent
        BY <2>1, <2>3
      <4> QED
        BY <2>1, <4>1, <4>2, <4>3 DEF PieceHonest, Fresh, EndsMessage
    <3>2. CASE i \in DOMAIN g_usb_buffer
      <4>1. g_usb_buffer'[i] = g_usb_buffer[i]
        BY <2>4, <3>2
      <4>2. /\ g_usb_buffer[i].kind = "command" =>
                 /\ \A e \in Executed' : e < g_usb_buffer[i].of.no
                 /\ EndsMessage(g_usb_buffer[i]) => g_usb_buffer[i].of.no \in log'.sent
            /\ g_usb_buffer[i].kind # "command" => g_usb_buffer[i].of.no \in Executed'
        BY <1>1, <2>3, <3>2
      <4> QED
        BY <4>1, <4>2 DEF PieceHonest, Fresh, EndsMessage
    <3>3. i \in DOMAIN g_usb_buffer \/ i = Len(g_usb_buffer) + 1
      BY <2>4, <2>6
    <3> QED
      BY <3>1, <3>2, <3>3
  <2>7. board'.pc = "execute" => board'.job.no \in log'.sent /\ Fresh(board.job.no)'
    BY <2>2, <2>3 DEF PiecesHonest, Fresh
  <2> QED
    BY <2>2, <2>6, <2>7 DEF PiecesHonest
<1>5. CASE Handle
  <2>1. UNCHANGED << g_usb_buffer, log >>
    BY <1>5 DEF Handle
  <2>2. CASE /\ Parses(g_usb_buffer)
             /\ board' = [board EXCEPT !.pc = "execute", !.job = Job(g_usb_buffer)]
    <3> DEFINE c == Head(g_usb_buffer).of
    <3>1. /\ c \in Cmds /\ 1 \in DOMAIN g_usb_buffer /\ c.len \in DOMAIN g_usb_buffer
          /\ g_usb_buffer[1].kind = "command" /\ g_usb_buffer[1].of = c
          /\ g_usb_buffer[c.len] = [kind |-> "command", of |-> c, part |-> c.len]
      BY <1>0, <2>2, Parsed
    <3> HIDE DEF c
    <3>2. Fresh(c.no)
      BY <3>1 DEF PiecesHonest, PieceHonest
    <3>3. c.no \in log.sent
      <4> DEFINE p == [kind |-> "command", of |-> c, part |-> c.len]
      <4>1. PieceHonest(p)
        BY <3>1 DEF PiecesHonest
      <4>2. p.kind = "command" /\ p.of = c /\ EndsMessage(p)
        BY DEF EndsMessage
      <4> HIDE DEF p
      <4> QED
        BY <4>1, <4>2 DEF PieceHonest
    <3>4. board'.job = c
      BY <1>0, <2>2 DEF Locals, Job, c
    <3> QED
      BY <1>2, <2>1, <3>2, <3>3, <3>4 DEF PiecesHonest, Fresh, Executed
  <2>3. CASE board' = [board EXCEPT !.pc = "send", !.sent = 0, !.send_retries = Retries,
                         !.length = Len(g_usb_buffer), !.response_sent = FALSE]
    <3>1. board'.pc = "send"
      BY <1>0, <2>3 DEF Locals
    <3> QED
      BY <1>2, <2>1, <3>1 DEF PiecesHonest, Executed
  <2> QED
    BY <1>5, <2>2, <2>3 DEF Handle
<1>6. CASE Execute
  <2>1. board.job \in Cmds /\ g_usb_buffer' = Reports("answer", board.job)
    BY <1>6 DEF Execute, BoardCounts
  <2>2. Executed' = Executed \cup {board.job.no} /\ board'.pc = "send"
    BY <1>0, <1>6, ExecutedMore DEF Execute, Locals
  <2>3. \A i \in DOMAIN g_usb_buffer' :
          g_usb_buffer'[i] = [kind |-> "answer", of |-> board.job, part |-> i]
    BY <2>1, ReportsAre
  <2>4. \A i \in DOMAIN g_usb_buffer' :
          g_usb_buffer'[i].kind = "answer" /\ g_usb_buffer'[i].of.no = board.job.no
    BY <2>3
  <2>5. \A i \in DOMAIN g_usb_buffer' : PieceHonest(g_usb_buffer[i])'
    BY <2>2, <2>4 DEF PieceHonest
  <2> QED
    BY <2>2, <2>5 DEF PiecesHonest
<1>7. CASE SendReport \/ SendFails \/ SendEnds \/ ClearBuffer \/ ResetLength \/ LoadCount \/ StoreCount
  <2>1. log' = log /\ g_usb_buffer' \in {g_usb_buffer, << >>}
    BY <1>7 DEF SendReport, SendFails, SendEnds, ClearBuffer, ResetLength, LoadCount, StoreCount
  <2>2. board'.pc # "execute"
    BY <1>0, <1>7 DEF SendReport, SendFails, SendEnds, ClearBuffer, ResetLength, LoadCount,
                      StoreCount, AfterFailure, Locals
  <2> QED
    BY <1>2, <2>1, <2>2 DEF PiecesHonest, Executed
<1> QED
  BY <1>3, <1>4, <1>5, <1>6, <1>7 DEF Next, Script, MainLoop

LEMMA AnswersStep ==
  ASSUME TypeOK, BoardCounts, HostCounts, PiecesHonest, AnswersHonest, Next
  PROVE  AnswersHonest'
<1>0. /\ host \in [pc : {"ready", "writing", "waiting", "failed"},
                   cmd : Cmds \cup {NoCmd}, part : Parts,
                   next_app_cmd_id : 0..MaxCommands, app_responses : SUBSET Cmds]
      /\ log \in [sent : SUBSET Numbers, executed : Seq(Numbers),
                  accepted : SUBSET (Numbers \X Numbers)]
      /\ inbox \in Seq(Piece) /\ g_usb_buffer \in Seq(Piece) /\ board \in Locals
  BY DEF TypeOK
<1>1. ASSUME Executed \subseteq Executed', inbox' = inbox,
             host'.app_responses \subseteq host.app_responses
      PROVE  AnswersHonest'
  BY <1>1 DEF AnswersHonest
<1>2. CASE HostBegins \/ ReportOut \/ HostAccepts
  <2>1. Executed' = Executed
    BY <1>0, <1>2 DEF HostBegins, ReportOut, HostAccepts, Executed
  <2>2. inbox' = inbox
    BY <1>2 DEF HostBegins, ReportOut, HostAccepts
  <2>3. host'.app_responses \subseteq host.app_responses
    <3>1. CASE HostBegins \/ ReportOut
      BY <1>0, <3>1 DEF HostBegins, ReportOut
    <3>2. CASE HostAccepts
      <4>1. PICK r \in host.app_responses :
              host' = [host EXCEPT !.pc = "ready", !.app_responses = host.app_responses \ {r}]
        BY <3>2 DEF HostAccepts
      <4> QED
        BY <1>0, <4>1
    <3> QED
      BY <1>2, <3>1, <3>2
  <2> QED
    BY <1>1, <2>1, <2>2, <2>3
<1>3. CASE HostReads
  <2>1. PICK n \in DOMAIN inbox :
          LET line   == SubSeq(inbox, 1, n)
              answer == Head(line).of
          IN /\ inbox' = SubSeq(inbox, n + 1, Len(inbox))
             /\ \/ /\ line = Reports("answer", answer)
                   /\ host' = [host EXCEPT !.app_responses =
                                 {r \in host.app_responses : r.id # answer.id} \cup {answer}]
                \/ host' = [host EXCEPT !.pc = "failed"]
    BY <1>3 DEF HostReads
  <2> DEFINE line   == SubSeq(inbox, 1, n)
             answer == Head(line).of
  <2>2. n \in 1 .. Len(inbox) /\ Len(inbox) \in Nat /\ DOMAIN inbox = 1 .. Len(inbox)
        /\ \A i \in 1 .. Len(inbox) : inbox[i] \in Piece
    BY <1>0, <2>1, LenProperties, ElementOfSeq
  <2>3. log' = log
    BY <1>3 DEF HostReads
  <2>4. \A i \in DOMAIN inbox' : i + n \in DOMAIN inbox /\ inbox'[i] = inbox[i + n]
    <3>1. n + 1 \in Int /\ Len(inbox) \in Int /\ \A i \in n + 1 .. Len(inbox) : inbox[i] \in Piece
      BY <2>2
    <3> DEFINE rest == SubSeq(inbox, n + 1, Len(inbox))
    <3>5. /\ rest \in Seq(Piece)
          /\ Len(rest) = IF n + 1 <= Len(inbox) THEN Len(inbox) - (n + 1) + 1 ELSE 0
          /\ \A i \in 1 .. Len(inbox) - (n + 1) + 1 : rest[i] = inbox[(n + 1) + i - 1]
      <4> DEFINE m == n + 1
                 l == Len(inbox)
      <4>1. m \in Int /\ l \in Int /\ \A i \in m .. l : inbox[i] \in Piece
        BY <3>1
      <4> HIDE DEF m, l, rest
      <4>2. /\ SubSeq(inbox, m, l) \in Seq(Piece)
            /\ Len(SubSeq(inbox, m, l)) = IF m <= l THEN l - m + 1 ELSE 0
            /\ \A i \in 1 .. l - m + 1 : SubSeq(inbox, m, l)[i] = inbox[m + i - 1]
        BY <4>1, SubSeqProperties
      <4> QED
        BY <4>2 DEF m, l, rest
    <3>2. /\ inbox' \in Seq(Piece)
          /\ Len(inbox') = IF n + 1 <= Len(inbox) THEN Len(inbox) - (n + 1) + 1 ELSE 0
          /\ \A i \in 1 .. Len(inbox) - (n + 1) + 1 : inbox'[i] = inbox[(n + 1) + i - 1]
      BY <2>1, <3>5
    <3>3. DOMAIN inbox' = 1 .. Len(inbox')
      BY <3>2, LenProperties
    <3>4. \A i \in 1 .. Len(inbox') : /\ i \in 1 .. Len(inbox) - (n + 1) + 1
                                      /\ (n + 1) + i - 1 = i + n /\ i + n \in 1 .. Len(inbox)
      BY <2>2, <3>2
    <3> QED
      BY <2>2, <3>2, <3>3, <3>4
  <2>5. \A i \in DOMAIN inbox' : inbox'[i].kind = "answer" => inbox'[i].of.no \in Executed'
    BY <2>3, <2>4 DEF AnswersHonest, Executed
  <2>6. Head(line) = inbox[1] /\ line[1] = inbox[1] /\ 1 \in DOMAIN inbox
    <3>1. 1 \in 1 .. Len(inbox)
      BY <2>2
    <3>2. Head(line) = inbox[1]
      BY <1>0, <2>2, <3>1, HeadTailOfSubSeq
    <3>3. line[1] = inbox[1]
      <4>1. 1 \in Int /\ n \in Int /\ \A i \in 1 .. n : inbox[i] \in Piece
        BY <2>2
      <4>2. \A i \in 1 .. n - 1 + 1 : line[i] = inbox[1 + i - 1]
        BY <4>1, SubSeqProperties
      <4> HIDE DEF line
      <4>3. \A i \in 1 .. n : i \in 1 .. n - 1 + 1 /\ 1 + i - 1 = i
        BY <4>1
      <4>4. \A i \in 1 .. n : line[i] = inbox[i]
        BY <4>2, <4>3
      <4>5. 1 \in 1 .. n
        BY <2>2
      <4> QED
        BY <4>4, <4>5
    <3> QED
      BY <2>2, <3>1, <3>2, <3>3
  <2>7. line = Reports("answer", answer) => answer.no \in Executed
    <3>1. SUFFICES ASSUME line = Reports("answer", answer)
                   PROVE  answer.no \in Executed
      OBVIOUS
    <3>2. answer \in Cmds /\ answer = inbox[1].of
      BY <2>2, <2>6 DEF Piece
    <3> HIDE DEF answer
    <3>3. line[1] = [kind |-> "answer", of |-> answer, part |-> 1]
      <4>1. AnswerLength \in Nat \ {0} /\ 1 \in 1 .. AnswerLength
        BY ReportAssumption
      <4>2. \A i \in 1 .. AnswerLength :
              Reports("answer", answer)[i] = [kind |-> "answer", of |-> answer, part |-> i]
        BY <3>2, ReportsAre DEF MessageLength
      <4> QED
        BY <3>1, <4>1, <4>2
    <3>4. inbox[1].kind = "answer"
      <4>1. line[1] = inbox[1]
        BY <2>6
      <4> HIDE DEF line
      <4> QED
        BY <3>3, <4>1
    <3> QED
      BY <2>6, <3>2, <3>4 DEF AnswersHonest
  <2> HIDE DEF line, answer
  <2>8. \A r \in host'.app_responses : r \in host.app_responses \/ (r = answer /\ answer.no \in Executed)
    <3>1. CASE /\ line = Reports("answer", answer)
               /\ host' = [host EXCEPT !.app_responses =
                             {r \in host.app_responses : r.id # answer.id} \cup {answer}]
      <4>1. host'.app_responses = {r \in host.app_responses : r.id # answer.id} \cup {answer}
        BY <1>0, <3>1
      <4> QED
        BY <2>7, <3>1, <4>1
    <3>2. CASE host' = [host EXCEPT !.pc = "failed"]
      <4>1. host'.app_responses = host.app_responses
        BY <1>0, <3>2
      <4> QED
        BY <4>1
    <3> QED
      BY <2>1, <3>1, <3>2 DEF line, answer
  <2> QED
    BY <2>3, <2>5, <2>8 DEF AnswersHonest, Executed
<1>4. CASE HostRestarts
  <2>1. inbox' = << >> /\ host'.app_responses = {}
    BY <1>0, <1>4 DEF HostRestarts
  <2>2. DOMAIN inbox' = {}
    BY <2>1, EmptySeq, LenProperties
  <2> QED
    BY <2>1, <2>2 DEF AnswersHonest
<1>5. CASE Execute
  <2>1. Executed' = Executed \cup {board.job.no} /\ inbox' = inbox /\ host' = host
    BY <1>5, ExecutedMore DEF Execute
  <2> QED
    BY <1>1, <2>1
<1>6. CASE SendReport
  <2> DEFINE p == g_usb_buffer[board.sent + 1]
  <2>1. inbox' = Append(inbox, p) /\ host' = host /\ log' = log
    BY <1>6 DEF SendReport
  <2>2. board.sent + 1 \in DOMAIN g_usb_buffer
    <3>1. board.sent \in Nat /\ board.length \in Nat /\ Len(g_usb_buffer) \in Nat
          /\ DOMAIN g_usb_buffer = 1 .. Len(g_usb_buffer)
      BY <1>0, LenProperties DEF Locals
    <3>2. board.sent < board.length /\ board.length <= Len(g_usb_buffer)
      BY <1>6 DEF SendReport, BoardCounts
    <3> QED
      BY <3>1, <3>2
  <2>3. p \in Piece
    BY <1>0, <2>2, LenProperties, ElementOfSeq
  <2>4. p.kind = "answer" => p.of.no \in Executed
    BY <2>2 DEF PiecesHonest, PieceHonest
  <2> HIDE DEF p
  <2>5. /\ DOMAIN inbox = 1 .. Len(inbox) /\ Len(inbox) \in Nat /\ DOMAIN inbox' = 1 .. Len(inbox) + 1
        /\ \A i \in 1 .. Len(inbox) : inbox'[i] = inbox[i]
        /\ inbox'[Len(inbox) + 1] = p
    BY <1>0, <2>1, <2>3, AppendProperties, LenProperties
  <2>6. \A i \in DOMAIN inbox' : i \in DOMAIN inbox \/ i = Len(inbox) + 1
    BY <2>5
  <2>7. \A i \in DOMAIN inbox' : inbox'[i].kind = "answer" => inbox'[i].of.no \in Executed'
    BY <2>1, <2>4, <2>5, <2>6 DEF AnswersHonest, Executed
  <2> QED
    BY <2>1, <2>7 DEF AnswersHonest, Executed
<1>7. CASE Handle \/ SendFails \/ SendEnds \/ ClearBuffer \/ ResetLength \/ LoadCount \/ StoreCount
  <2>1. UNCHANGED << inbox, host, log >>
    BY <1>7 DEF Handle, SendFails, SendEnds, ClearBuffer, ResetLength, LoadCount, StoreCount
  <2> QED
    BY <1>1, <2>1 DEF Executed
<1> QED
  BY <1>2, <1>3, <1>4, <1>5, <1>6, <1>7 DEF Next, Script, MainLoop

----------------------------------------------------------------------------
(* The theorems. *)

LEMMA InvariantInit == Init => IInv
<1> SUFFICES ASSUME Init
             PROVE  IInv
  OBVIOUS
<1>1. board.pc = "idle" /\ host.pc = "ready" /\ host.app_responses = {}
  BY DEF Init
<1>2. DOMAIN g_usb_buffer = {} /\ DOMAIN inbox = {}
  BY EmptySeq, LenProperties DEF Init
<1>3. TypeOK
  <2>1. 1 \in Parts /\ 0 \in 0 .. MaxCommands
    BY ReportAssumption DEF Parts
  <2>2. host \in [pc : {"ready", "writing", "waiting", "failed"},
                  cmd : Cmds \cup {NoCmd}, part : Parts,
                  next_app_cmd_id : 0..MaxCommands, app_responses : SUBSET Cmds]
    BY <2>1 DEF Init
  <2>3. board \in Locals
    <3>1. Retries \in 0 .. Retries
      BY ReportAssumption
    <3> QED
      BY <3>1 DEF Init, Locals
  <2>4. log \in [sent : SUBSET Numbers, executed : Seq(Numbers),
                 accepted : SUBSET (Numbers \X Numbers)]
    BY DEF Init
  <2>5. g_usb_buffer \in Seq(Piece) /\ inbox \in Seq(Piece)
    BY EmptySeq DEF Init
  <2> QED
    BY <2>2, <2>3, <2>4, <2>5 DEF Init, TypeOK
<1>4. BoardCounts
  BY <1>1 DEF BoardCounts
<1>5. HostCounts
  BY <1>1 DEF Init, HostCounts, NoCmd
<1>6. SentInOrder
  <2>1. Executed = {}
    <3>1. DOMAIN << >> = {}
      OBVIOUS
    <3>2. log.executed = << >>
      BY DEF Init
    <3> QED
      BY <3>1, <3>2 DEF Executed, Range
  <2> QED
    BY <1>1, <2>1 DEF Init, SentInOrder
<1>7. PiecesHonest
  BY <1>1, <1>2 DEF PiecesHonest
<1>8. AnswersHonest
  BY <1>1, <1>2 DEF AnswersHonest
<1> QED
  BY <1>3, <1>4, <1>5, <1>6, <1>7, <1>8 DEF IInv

LEMMA InvariantStep == IInv /\ [Next]_vars => IInv'
<1> SUFFICES ASSUME IInv, [Next]_vars
             PROVE  IInv'
  OBVIOUS
<1>1. CASE Next
  <2>1. TypeOK /\ BoardCounts /\ HostCounts /\ SentInOrder /\ PiecesHonest /\ AnswersHonest
    BY DEF IInv
  <2>2. TypeOK' /\ BoardCounts' /\ HostCounts'
    BY <1>1, <2>1, ScriptTypes, BoardTypes DEF Next
  <2>3. SentInOrder' /\ PiecesHonest' /\ AnswersHonest'
    BY <1>1, <2>1, OrderStep, PiecesStep, AnswersStep
  <2> QED
    BY <2>2, <2>3 DEF IInv
<1>2. CASE UNCHANGED vars
  BY <1>2 DEF vars, IInv, TypeOK, BoardCounts, HostCounts, SentInOrder, PiecesHonest,
              AnswersHonest, PieceHonest, Fresh, Executed
<1> QED
  BY <1>1, <1>2

\* The counts of the interrupt and of the main loop always fit the messages in
\* the buffer they share, whenever the interrupt strikes.
THEOREM Invariance == Spec => []IInv
<1> QED
  BY InvariantInit, InvariantStep, PTL DEF Spec

\* The variables keep their types; in particular g_usb_message_received is never
\* decremented below zero.
THEOREM TypeCorrect == Spec => []TypeOK
<1>1. IInv => TypeOK
  BY DEF IInv
<1> QED
  BY <1>1, Invariance, PTL

\* A step is a step of the channel or leaves it alone.
LEMMA ChannelStep ==
  ASSUME IInv, [Next]_vars
  PROVE  [Channel!Next]_(Channel!vars)
<1>0. /\ TypeOK /\ BoardCounts /\ HostCounts /\ SentInOrder /\ PiecesHonest /\ AnswersHonest
      /\ log \in [sent : SUBSET Numbers, executed : Seq(Numbers),
                  accepted : SUBSET (Numbers \X Numbers)]
  BY DEF IInv, TypeOK
<1>8. \A i \in DOMAIN log.executed : log.executed[i] \in Executed
  BY DEF Executed, Range
<1>9. Executed \subseteq Numbers
  BY <1>0 DEF SentInOrder
<1>1. CASE ReportOut
  <2> DEFINE p == [kind |-> "command", of |-> host.cmd, part |-> host.part]
  <2>1. CASE EndsMessage(p)
    <3>1. log' = [log EXCEPT !.sent = log.sent \cup {host.cmd.no}]
      BY <1>1, <2>1 DEF ReportOut
    <3>2. \A s \in log.sent : s < host.cmd.no
      BY <1>0, <1>1 DEF ReportOut, SentInOrder
    <3>3. host.cmd.no \in Numbers
      <4>1. host.cmd \in Cmds
        BY <1>0, <1>1, Written DEF ReportOut
      <4> QED
        BY <4>1 DEF Cmds
    <3>4. Channel!Send(host.cmd.no)
      BY <1>0, <3>1, <3>2 DEF Channel!Send
    <3> QED
      BY <3>3, <3>4 DEF Channel!Next
  <2>2. CASE ~EndsMessage(p)
    <3>1. log' = log
      BY <1>1, <2>2 DEF ReportOut
    <3> QED
      BY <3>1 DEF Channel!vars
  <2> QED
    BY <2>1, <2>2
<1>2. CASE Execute
  <2>1. log' = [log EXCEPT !.executed = Append(log.executed, board.job.no)]
    BY <1>2 DEF Execute
  <2>2. board.job.no \in log.sent /\ \A e \in Executed : e < board.job.no
    BY <1>0, <1>2 DEF Execute, PiecesHonest, Fresh
  <2>3. board.job.no \in Numbers
    BY <1>0, <2>2
  <2>4. Channel!Execute(board.job.no)
    BY <1>0, <1>8, <2>1, <2>2 DEF Channel!Execute
  <2> QED
    BY <2>3, <2>4 DEF Channel!Next
<1>3. CASE HostAccepts
  <2>1. PICK r \in host.app_responses :
          log' = [log EXCEPT !.accepted = log.accepted \cup {<< host.cmd.no, r.no >>}]
    BY <1>3 DEF HostAccepts
  <2>2. host.cmd.no \in log.sent /\ r.no \in Executed
    BY <1>0, <1>3 DEF HostAccepts, SentInOrder, AnswersHonest
  <2>3. host.cmd.no \in Numbers /\ r.no \in Numbers
    BY <1>0, <1>9, <2>2
  <2>4. \E i \in DOMAIN log.executed : log.executed[i] = r.no
    BY <2>2 DEF Executed, Range
  <2>5. Channel!Accept(host.cmd.no, r.no)
    BY <1>0, <2>1, <2>2, <2>4 DEF Channel!Accept
  <2> QED
    BY <2>3, <2>5 DEF Channel!Next
<1>4. CASE \/ HostBegins \/ HostReads \/ HostRestarts
           \/ Handle \/ SendReport \/ SendFails \/ SendEnds
           \/ ClearBuffer \/ ResetLength \/ LoadCount \/ StoreCount
           \/ UNCHANGED vars
  <2>1. log' = log
    BY <1>4 DEF HostBegins, HostReads, HostRestarts, Handle, SendReport, SendFails,
                SendEnds, ClearBuffer, ResetLength, LoadCount, StoreCount, vars
  <2> QED
    BY <2>1 DEF Channel!vars
<1> QED
  BY <1>1, <1>2, <1>3, <1>4 DEF Next, Script, MainLoop

\* However scripts are used and wherever the interrupt strikes, no command is
\* executed twice, late behind a newer one or before all of it was sent, and
\* every answer a script takes comes from a command that was executed.
THEOREM ImplementsChannel == Spec => ChannelSpec
<1>1. Init => Channel!Init
  BY DEF Init, Channel!Init
<1>2. IInv /\ [Next]_vars => [Channel!Next]_(Channel!vars)
  BY ChannelStep
<1> QED
  BY <1>1, <1>2, Invariance, PTL DEF Spec, ChannelSpec, Channel!Spec

----------------------------------------------------------------------------
(* Patient scripts. *)

\* A sequence that begins another one, grows with it, and is it at last.
LEMMA Whole ==
  ASSUME NEW s \in Seq(Piece), NEW t \in Seq(Piece), Begins(s, t), Len(s) = Len(t)
  PROVE  s = t
<1> QED
  BY SeqEqual DEF Begins

LEMMA Longer ==
  ASSUME NEW s \in Seq(Piece), NEW t \in Seq(Piece), NEW p \in Piece,
         Begins(s, t), Len(s) < Len(t), p = t[Len(s) + 1]
  PROVE  Begins(Append(s, p), t) /\ Len(Append(s, p)) = Len(s) + 1
<1>1. /\ Len(Append(s, p)) = Len(s) + 1 /\ Len(s) \in Nat /\ Len(t) \in Nat
      /\ \A i \in 1 .. Len(s) : Append(s, p)[i] = s[i]
      /\ Append(s, p)[Len(s) + 1] = p
  BY AppendProperties, LenProperties
<1>2. \A i \in 1 .. Len(s) + 1 : i \in 1 .. Len(s) \/ i = Len(s) + 1
  BY <1>1
<1>3. \A i \in 1 .. Len(s) + 1 : Append(s, p)[i] = t[i]
  BY <1>1, <1>2 DEF Begins
<1> QED
  BY <1>1, <1>3 DEF Begins

LEMMA NothingBegins == \A t : Len(t) \in Nat => Begins(<< >>, t)
<1>1. Len(<< >>) = 0 /\ 1 .. 0 = {}
  BY EmptySeq
<1> QED
  BY <1>1 DEF Begins

\* A sequence as long as its beginning is a line of its own.
LEMMA PrefixOfAll ==
  ASSUME NEW s \in Seq(Piece)
  PROVE  SubSeq(s, 1, Len(s)) = s
<1>1. Len(s) \in Nat /\ \A i \in 1 .. Len(s) : s[i] \in Piece
  BY LenProperties, ElementOfSeq
<1>2. 1 \in Int /\ Len(s) \in Int
  BY <1>1
<1> DEFINE u == SubSeq(s, 1, Len(s))
<1>3. /\ u \in Seq(Piece) /\ Len(u) = IF 1 <= Len(s) THEN Len(s) - 1 + 1 ELSE 0
      /\ \A i \in 1 .. Len(s) - 1 + 1 : u[i] = s[1 + i - 1]
  BY <1>1, <1>2, SubSeqProperties
<1> HIDE DEF u
<1>4. Len(u) = Len(s)
  BY <1>1, <1>3
<1>5. \A i \in 1 .. Len(s) : i \in 1 .. Len(s) - 1 + 1 /\ 1 + i - 1 = i
  BY <1>1
<1>6. \A i \in 1 .. Len(u) : u[i] = s[i]
  BY <1>3, <1>4, <1>5
<1>7. u = s
  BY <1>3, <1>4, <1>6, SeqEqual
<1> QED
  BY <1>7 DEF u

\* A whole command parses, and as that command.
LEMMA CommandParses ==
  ASSUME NEW c \in Cmds
  PROVE  Parses(Reports("command", c)) /\ Head(Reports("command", c)).of = c
<1> DEFINE q == Reports("command", c)
<1>1. /\ q \in Seq(Piece) /\ Len(q) = c.len /\ c.len \in Nat \ {0}
      /\ \A i \in 1 .. c.len : q[i] = [kind |-> "command", of |-> c, part |-> i]
  BY ReportsAre DEF MessageLength
<1> HIDE DEF q
<1>2. q # << >>
  BY <1>1, EmptySeq
<1>3. Head(q) = [kind |-> "command", of |-> c, part |-> 1]
  <2>1. Head(q) = q[1] /\ 1 \in 1 .. c.len
    BY <1>1, <1>2
  <2> QED
    BY <1>1, <2>1
<1>4. Head(q).of = c
  BY <1>3
<1>5. IsPrefix(q, q)
  BY <1>1 DEF IsPrefix
<1> QED
  BY <1>2, <1>4, <1>5 DEF Parses, q

\* The records that the steps update.
LEMMA Records ==
  ASSUME IInv
  PROVE  /\ host \in [pc : {"ready", "writing", "waiting", "failed"},
                      cmd : Cmds \cup {NoCmd}, part : Parts,
                      next_app_cmd_id : 0..MaxCommands, app_responses : SUBSET Cmds]
         /\ log \in [sent : SUBSET Numbers, executed : Seq(Numbers),
                     accepted : SUBSET (Numbers \X Numbers)]
         /\ board \in Locals /\ g_usb_message_received \in Nat
         /\ inbox \in Seq(Piece) /\ g_usb_buffer \in Seq(Piece)
         /\ Len(inbox) \in Nat /\ Len(g_usb_buffer) \in Nat
         /\ host.pc \in {"writing", "waiting"} => host.cmd \in Cmds
         /\ TypeOK /\ HostCounts
<1>1. inbox \in Seq(Piece) /\ g_usb_buffer \in Seq(Piece)
  BY DEF IInv, TypeOK
<1>2. Len(inbox) \in Nat /\ Len(g_usb_buffer) \in Nat
  BY <1>1, LenProperties
<1> QED
  BY <1>1, <1>2 DEF IInv, TypeOK, HostCounts

\* A patient script begins a command when the buffer is empty.
LEMMA PatientBegins ==
  ASSUME IInv, Patient, InStep, OwnAnswer, HostBegins
  PROVE  (InStep /\ OwnAnswer)'
<1>1. PICK n \in Lengths :
        host' = [host EXCEPT !.pc = "writing", !.part = 1,
                   !.next_app_cmd_id = host.next_app_cmd_id + 1,
                   !.cmd = [no |-> host.cmd.no + 1, id |-> host.next_app_cmd_id, len |-> n]]
  BY DEF HostBegins
<1>2. /\ host'.pc = "writing" /\ host'.part = 1 /\ host'.app_responses = host.app_responses
      /\ UNCHANGED << boardVars, inbox, log >>
  BY <1>1, Records DEF HostBegins
<1>3. board.pc = "idle" /\ g_usb_message_received = 0 /\ host.pc = "ready"
  BY DEF HostBegins, Quiet
<1>4. g_usb_buffer = << >> /\ inbox = << >> /\ host.app_responses = {}
  BY <1>3 DEF InStep, Collecting, HasCommand, Answering, Clearing, OwnAnswer
<1>5. host'.cmd \in Cmds \cup {NoCmd}
  <2>1. TypeOK'
    BY ScriptTypes DEF Script, IInv
  <2> QED
    BY <2>1 DEF TypeOK
<1>6. /\ Len(Reports("command", host'.cmd)) \in Nat
      /\ Len(Reports("answer", host'.cmd)) \in Nat
  BY <1>5, ReportsAre
<1>7. /\ Begins(<< >>, Reports("command", host'.cmd))
      /\ Begins(<< >>, Reports("answer", host'.cmd))
  BY <1>6, NothingBegins
<1>8. Len(<< >>) = 0
  BY EmptySeq
<1>9. /\ board'.pc = "idle" /\ g_usb_message_received' = 0 /\ g_usb_buffer' = << >>
      /\ inbox' = << >> /\ log' = log
  BY <1>2, <1>3, <1>4 DEF boardVars
<1>10. Len(g_usb_buffer') = host'.part - 1 /\ Begins(g_usb_buffer', Reports("command", host'.cmd))
  BY <1>2, <1>7, <1>8, <1>9
<1>11. InStep'
  BY <1>2, <1>9, <1>10 DEF InStep, Collecting, Reports, Begins
<1>12. Begins(inbox', Reports("answer", host'.cmd))
  BY <1>7, <1>9
<1>13. OwnAnswer'
  BY <1>2, <1>4, <1>9, <1>12 DEF OwnAnswer, Begins, Reports
<1> QED
  BY <1>11, <1>13

\* Its reports come in order, and the last one makes a command of them.
LEMMA PatientWrites ==
  ASSUME IInv, Patient, InStep, OwnAnswer, ReportOut
  PROVE  (InStep /\ OwnAnswer)'
<1> DEFINE p == [kind |-> "command", of |-> host.cmd, part |-> host.part]
           q == Reports("command", host.cmd)
<1>1. /\ host.cmd \in Cmds /\ p \in Piece /\ host.part \in 1 .. host.cmd.len
      /\ EndsMessage(p) <=> host.part = host.cmd.len
  BY Records, Written DEF ReportOut
<1>2. /\ q \in Seq(Piece) /\ Len(q) = host.cmd.len /\ host.cmd.len \in Nat \ {0}
      /\ \A i \in 1 .. host.cmd.len : q[i] = [kind |-> "command", of |-> host.cmd, part |-> i]
  BY <1>1, ReportsAre DEF MessageLength
<1>3. q[host.part] = p
  BY <1>1, <1>2
<1>4. /\ board.pc = "idle" /\ g_usb_message_received = 0
      /\ Len(g_usb_buffer) = host.part - 1 /\ Begins(g_usb_buffer, q)
  BY DEF ReportOut, InStep, Collecting, HasCommand, Answering, Clearing
<1> HIDE DEF q
<1>5. /\ Begins(Append(g_usb_buffer, p), q)
      /\ Len(Append(g_usb_buffer, p)) = host.part
      /\ Append(g_usb_buffer, p) \in Seq(Piece)
  <2>1. /\ host.part \in Nat /\ Len(g_usb_buffer) + 1 = host.part /\ Len(g_usb_buffer) < Len(q)
        /\ p = q[Len(g_usb_buffer) + 1]
    BY <1>1, <1>2, <1>3, <1>4
  <2>2. Append(g_usb_buffer, p) \in Seq(Piece)
    BY <1>1, AppendProperties, Records
  <2> HIDE DEF p
  <2> QED
    BY <1>1, <1>2, <1>4, <2>1, <2>2, Longer, Records
<1>6. g_usb_buffer' = Append(g_usb_buffer, p) /\ UNCHANGED << board, inbox >>
  BY DEF ReportOut
<1>7. inbox = << >> /\ host.app_responses = {}
  BY DEF ReportOut, OwnAnswer
<1>8. CASE EndsMessage(p)
  <2>1. host' = [host EXCEPT !.pc = "waiting"] /\ log' = [log EXCEPT !.sent = log.sent \cup {host.cmd.no}]
    BY <1>8 DEF ReportOut
  <2>2. /\ host'.pc = "waiting" /\ host'.cmd = host.cmd /\ host'.app_responses = {}
        /\ log'.accepted = log.accepted
    BY <1>7, <2>1, Records
  <2>3. Append(g_usb_buffer, p) = q
    <3>1. Len(Append(g_usb_buffer, p)) = Len(q)
      BY <1>1, <1>2, <1>5, <1>8
    <3> HIDE DEF p
    <3> QED
      BY <1>2, <1>5, <3>1, Whole
  <2>4. g_usb_message_received' = 1
    BY <1>4, <1>8 DEF ReportOut, Received
  <2>5. g_usb_buffer' = Reports("command", host'.cmd)
    BY <1>6, <2>2, <2>3 DEF q
  <2>6. board'.pc = "idle" /\ inbox' = << >>
    BY <1>4, <1>6, <1>7
  <2>7. HasCommand'
    BY <2>2, <2>4, <2>5, <2>6 DEF HasCommand, Reports
  <2>8. OwnAnswer'
    <3>1. Begins(inbox', Reports("answer", host'.cmd))
      BY <1>6, <2>2 DEF OwnAnswer
    <3>2. \A a \in log'.accepted : a[1] = a[2]
      BY <2>2 DEF OwnAnswer
    <3> QED
      BY <2>2, <2>6, <3>1, <3>2 DEF OwnAnswer, Begins, Reports
  <2> QED
    BY <2>7, <2>8 DEF InStep
<1>9. CASE ~EndsMessage(p)
  <2>1. host' = [host EXCEPT !.part = host.part + 1] /\ log' = log
    BY <1>9 DEF ReportOut
  <2>2. /\ host'.pc = "writing" /\ host'.cmd = host.cmd /\ host'.app_responses = {}
        /\ host'.part = host.part + 1
    BY <1>7, <2>1, Records DEF ReportOut
  <2>3. g_usb_message_received' = 0 /\ board'.pc = "idle"
    BY <1>4, <1>6, <1>9 DEF ReportOut, Received
  <2>4. Len(g_usb_buffer') = host'.part - 1
    BY <1>1, <1>5, <1>6, <2>2
  <2>5. Begins(g_usb_buffer', Reports("command", host'.cmd))
    BY <1>5, <1>6, <2>2 DEF q
  <2>6. Collecting'
    BY <2>2, <2>3, <2>4, <2>5 DEF Collecting, Reports, Begins
  <2>7. OwnAnswer'
    <3>1. Begins(inbox', Reports("answer", host'.cmd))
      BY <1>6, <2>2 DEF OwnAnswer
    <3>2. \A a \in log'.accepted : a[1] = a[2]
      BY <2>1 DEF OwnAnswer
    <3> QED
      BY <1>6, <1>7, <2>2, <3>1, <3>2 DEF OwnAnswer, Begins, Reports
  <2> QED
    BY <2>6, <2>7 DEF InStep
<1> QED
  BY <1>8, <1>9

\* It reads nothing but the whole answer to its command.
LEMMA PatientReads ==
  ASSUME IInv, Patient, InStep, OwnAnswer, HostReads
  PROVE  (InStep /\ OwnAnswer)'
<1> DEFINE a == Reports("answer", host.cmd)
<1>1. PICK n \in DOMAIN inbox :
        /\ FirstLine(n)
        /\ inbox' = SubSeq(inbox, n + 1, Len(inbox))
        /\ LET line   == SubSeq(inbox, 1, n)
               answer == Head(line).of
           IN IF line = Reports("answer", answer)
              THEN host' = [host EXCEPT !.app_responses =
                              {r \in host.app_responses : r.id # answer.id} \cup {answer}]
              ELSE host' = [host EXCEPT !.pc = "failed"]
  BY DEF HostReads
<1>2. /\ host.pc = "waiting" /\ host.cmd \in Cmds /\ host.app_responses = {}
      /\ UNCHANGED << boardVars, log >>
  BY Records DEF HostReads, OwnAnswer
<1>3. /\ a \in Seq(Piece) /\ Len(a) = AnswerLength /\ AnswerLength \in Nat \ {0}
      /\ \A i \in 1 .. AnswerLength : a[i] = [kind |-> "answer", of |-> host.cmd, part |-> i]
      /\ \A i \in 1 .. AnswerLength : EndsMessage(a[i]) <=> i = AnswerLength
  BY <1>2, ReportsAre DEF MessageLength
<1>4. n \in 1 .. Len(inbox) /\ Len(inbox) \in Nat
  BY Records, LenProperties
<1>5. Begins(inbox, a)
  BY DEF OwnAnswer
<1> HIDE DEF a
<1>6. n = AnswerLength /\ Len(inbox) = AnswerLength
  <2>1. Len(inbox) <= AnswerLength /\ inbox[n] = a[n] /\ n \in 1 .. AnswerLength
    BY <1>3, <1>4, <1>5 DEF Begins
  <2>2. EndsMessage(a[n])
    BY <1>1, <2>1 DEF FirstLine
  <2> QED
    BY <1>3, <1>4, <2>1, <2>2
<1>7. inbox = a
  BY <1>3, <1>5, <1>6, Records, Whole
<1>8. SubSeq(inbox, 1, n) = a
  BY <1>6, <1>7, Records, PrefixOfAll
<1>9. Head(a).of = host.cmd
  <2>1. a # << >>
    BY <1>3, EmptySeq
  <2>2. Head(a) = a[1] /\ 1 \in 1 .. AnswerLength
    BY <1>3, <2>1
  <2>3. Head(a) = [kind |-> "answer", of |-> host.cmd, part |-> 1]
    BY <1>3, <2>2
  <2> QED
    BY <2>3
<1>10. host' = [host EXCEPT !.app_responses =
                  {r \in host.app_responses : r.id # host.cmd.id} \cup {host.cmd}]
  BY <1>1, <1>8, <1>9 DEF a
<1>11. host'.pc = "waiting" /\ host'.cmd = host.cmd /\ host'.app_responses = {host.cmd}
  BY <1>2, <1>10, Records
<1>12. inbox' = << >>
  <2>1. n + 1 \in Int /\ Len(inbox) \in Int /\ Len(inbox) < n + 1
    BY <1>4, <1>6
  <2> QED
    BY <1>1, <2>1, SubSeqEmpty
<1>13. Len(inbox) = AnswerLength /\ inbox # << >>
  BY <1>3, <1>6, EmptySeq
<1>14. \/ /\ board.pc = "send" /\ g_usb_message_received = 1 /\ g_usb_buffer = a
          /\ board.length = AnswerLength /\ board.sent = AnswerLength
       \/ Clearing \/ Collecting
  <2>1. ~HasCommand
    BY <1>13 DEF HasCommand
  <2>2. Answering => board.sent = AnswerLength
    BY <1>13 DEF Answering
  <2>3. Answering => /\ board.pc = "send" /\ g_usb_message_received = 1 /\ g_usb_buffer = a
                     /\ board.length = AnswerLength
    BY DEF Answering, a
  <2> QED
    BY <2>1, <2>2, <2>3 DEF InStep
<1>15. UNCHANGED << board, g_usb_message_received, g_usb_buffer >>
  BY <1>2 DEF boardVars
<1>16. InStep'
  <2>1. CASE Clearing \/ Collecting
    BY <1>2, <1>11, <1>15, <2>1 DEF InStep, Clearing, Collecting
  <2>2. CASE /\ board.pc = "send" /\ g_usb_message_received = 1 /\ g_usb_buffer = a
             /\ board.length = AnswerLength /\ board.sent = AnswerLength
    <3>1. g_usb_buffer' = Reports("answer", host'.cmd)
      BY <1>11, <1>15, <2>2 DEF a
    <3>2. Answering'
      BY <1>11, <1>15, <2>2, <3>1 DEF Answering, Reports
    <3> QED
      BY <3>2 DEF InStep
  <2> QED
    BY <1>14, <2>1, <2>2
<1>17. Begins(inbox', Reports("answer", host'.cmd))
  <2>1. Len(Reports("answer", host'.cmd)) \in Nat
    BY <1>3, <1>11 DEF a
  <2> QED
    BY <1>12, <2>1, NothingBegins
<1>18. \A b \in log'.accepted : b[1] = b[2]
  BY <1>2 DEF OwnAnswer
<1>19. OwnAnswer'
  BY <1>11, <1>12, <1>17, <1>18 DEF OwnAnswer, Begins, Reports
<1> QED
  BY <1>16, <1>19

\* It takes that answer, or is started again.
LEMMA PatientAccepts ==
  ASSUME IInv, Patient, InStep, OwnAnswer, HostAccepts \/ HostRestarts
  PROVE  (InStep /\ OwnAnswer)'
<1>1. UNCHANGED << board, g_usb_message_received, g_usb_buffer >>
  BY DEF HostAccepts, HostRestarts, boardVars
<1>2. CASE HostAccepts
  <2>1. PICK r \in host.app_responses :
          /\ host' = [host EXCEPT !.pc = "ready", !.app_responses = host.app_responses \ {r}]
          /\ log' = [log EXCEPT !.accepted = log.accepted \cup {<< host.cmd.no, r.no >>}]
    BY <1>2 DEF HostAccepts
  <2>2. r = host.cmd /\ host.app_responses = {host.cmd} /\ inbox = << >>
    BY <2>1 DEF OwnAnswer
  <2>3. host'.pc = "ready" /\ host'.cmd = host.cmd /\ host'.app_responses = {}
    BY <2>1, <2>2, Records
  <2>4. log'.accepted = log.accepted \cup {<< host.cmd.no, host.cmd.no >>}
    BY <2>1, <2>2, Records
  <2>5. inbox' = << >>
    BY <1>2, <2>2 DEF HostAccepts
  <2>6. host.pc = "waiting"
    BY <1>2 DEF HostAccepts
  <2>7. InStep'
    <3>1. CASE Answering
      <4>1. board.sent = AnswerLength
        BY <2>2, <3>1 DEF Answering
      <4>2. g_usb_buffer' = Reports("answer", host'.cmd)
        BY <1>1, <2>3, <3>1 DEF Answering
      <4>3. Answering'
        BY <1>1, <2>3, <3>1, <4>1, <4>2 DEF Answering, Reports
      <4> QED
        BY <4>3 DEF InStep
    <3>2. CASE Clearing
      BY <1>1, <2>3, <3>2 DEF InStep, Clearing
    <3>3. CASE Collecting
      BY <1>1, <2>3, <2>6, <3>3 DEF InStep, Collecting
    <3>4. ~HasCommand
      BY <2>2 DEF HasCommand
    <3> QED
      BY <3>1, <3>2, <3>3, <3>4 DEF InStep
  <2>8. Begins(inbox', Reports("answer", host'.cmd))
    BY <2>2, <2>3, <2>5 DEF OwnAnswer
  <2>9. \A a \in log'.accepted : a[1] = a[2]
    <3>1. \A a \in log.accepted : a[1] = a[2]
      BY DEF OwnAnswer
    <3> QED
      BY <2>4, <3>1
  <2>10. OwnAnswer'
    BY <2>3, <2>5, <2>8, <2>9 DEF OwnAnswer, Begins, Reports
  <2> QED
    BY <2>7, <2>10
<1>3. CASE HostRestarts
  <2>1. board.pc = "idle" /\ g_usb_message_received = 0 /\ host.pc # "writing"
    BY <1>3 DEF HostRestarts, Quiet
  <2>2. g_usb_buffer = << >>
    BY <2>1 DEF InStep, Collecting, HasCommand, Answering, Clearing
  <2>3. host' = [host EXCEPT !.pc = "ready", !.next_app_cmd_id = 0, !.app_responses = {}]
    BY <1>3 DEF HostRestarts
  <2>4. host'.pc = "ready" /\ host'.cmd = host.cmd /\ host'.app_responses = {}
    BY <2>3, Records
  <2>5. inbox' = << >> /\ log' = log
    BY <1>3 DEF HostRestarts
  <2>6. InStep'
    BY <1>1, <2>1, <2>2, <2>4 DEF InStep, Collecting
  <2>7. Begins(inbox', Reports("answer", host'.cmd))
    <3>1. host.cmd \in Cmds \cup {NoCmd}
      BY Records
    <3>2. Len(Reports("answer", host.cmd)) \in Nat
      BY <3>1, ReportsAre
    <3> QED
      BY <2>4, <2>5, <3>2, NothingBegins
  <2>8. \A a \in log'.accepted : a[1] = a[2]
    BY <2>5 DEF OwnAnswer
  <2>9. OwnAnswer'
    BY <2>4, <2>5, <2>7, <2>8 DEF OwnAnswer, Begins, Reports
  <2> QED
    BY <2>6, <2>9
<1> QED
  BY <1>2, <1>3

\* The board executes that command, and its answer goes out in order.
LEMMA PatientBoard ==
  ASSUME IInv, Patient, InStep, OwnAnswer, MainLoop
  PROVE  (InStep /\ OwnAnswer)'
<1>0. /\ board \in Locals /\ host' = host /\ log'.accepted = log.accepted
      /\ inbox \in Seq(Piece) /\ Len(inbox) \in Nat
  <2>1. host' = host /\ (log' = log \/ Execute)
    BY DEF MainLoop, Handle, Execute, SendReport, SendFails, SendEnds, ClearBuffer,
           ResetLength, LoadCount, StoreCount
  <2>2. Execute => log'.accepted = log.accepted
    BY Records DEF Execute
  <2> QED
    BY <2>1, <2>2, Records
<1>1. ASSUME inbox' = inbox
      PROVE  OwnAnswer'
  <2>1. Begins(inbox', Reports("answer", host'.cmd))
    BY <1>0, <1>1 DEF OwnAnswer
  <2>2. \A a \in log'.accepted : a[1] = a[2]
    BY <1>0 DEF OwnAnswer
  <2>3. /\ host'.pc # "failed" /\ host'.app_responses \subseteq {host'.cmd}
        /\ host'.pc # "waiting" \/ host'.app_responses # {} => inbox' = << >>
        /\ host'.pc # "waiting" => host'.app_responses = {}
    BY <1>0, <1>1 DEF OwnAnswer
  <2> QED
    BY <2>1, <2>2, <2>3 DEF OwnAnswer, Begins, Reports
<1>2. CASE Handle
  <2>1. board.pc = "idle" /\ g_usb_message_received # 0
    BY <1>2 DEF Handle, MessageWaits
  <2>2. HasCommand
    BY <2>1 DEF InStep, Collecting, Answering, Clearing
  <2>3. host.cmd \in Cmds
    BY <2>2, Records DEF HasCommand
  <2>4. Parses(g_usb_buffer) /\ Head(g_usb_buffer).of = host.cmd
    BY <2>2, <2>3, CommandParses DEF HasCommand
  <2>5. board' = [board EXCEPT !.pc = "execute", !.job = host.cmd]
    BY <1>2, <2>4 DEF Handle, Job
  <2>6. board'.pc = "execute" /\ board'.job = host.cmd
    BY <1>0, <2>5 DEF Locals
  <2>7. UNCHANGED << g_usb_buffer, g_usb_message_received, inbox >>
    BY <1>2 DEF Handle
  <2>8. HasCommand'
    BY <1>0, <2>2, <2>6, <2>7 DEF HasCommand, Reports
  <2> QED
    BY <1>1, <2>7, <2>8 DEF InStep
<1>3. CASE Execute
  <2>1. board.pc = "execute"
    BY <1>3 DEF Execute
  <2>2. HasCommand
    BY <2>1 DEF InStep, Collecting, Answering, Clearing
  <2>3. board.job = host.cmd /\ host.pc = "waiting" /\ inbox = << >> /\ host.app_responses = {}
        /\ g_usb_message_received = 1
    BY <2>1, <2>2 DEF HasCommand
  <2>4. board'.pc = "send" /\ board'.sent = 0 /\ board'.length = AnswerLength
    BY <1>0, <1>3 DEF Execute, Locals
  <2>5. g_usb_buffer' = Reports("answer", host'.cmd)
    BY <1>0, <1>3, <2>3 DEF Execute
  <2>6. UNCHANGED << inbox, g_usb_message_received >>
    BY <1>3 DEF Execute
  <2>7. Len(inbox') = board'.sent
    BY <2>3, <2>4, <2>6, EmptySeq
  <2>8. Answering'
    BY <1>0, <2>3, <2>4, <2>5, <2>6, <2>7 DEF Answering, Reports
  <2> QED
    BY <1>1, <2>6, <2>8 DEF InStep
<1>4. CASE SendReport
  <2>1. /\ board.pc = "send" /\ board.sent < board.length
        /\ inbox' = Append(inbox, g_usb_buffer[board.sent + 1])
        /\ board' = [board EXCEPT !.sent = board.sent + 1, !.response_sent = TRUE]
        /\ UNCHANGED << g_usb_buffer, g_usb_message_received >>
    BY <1>4 DEF SendReport
  <2>2. Answering
    BY <2>1 DEF InStep, Collecting, HasCommand, Clearing
  <2>3. /\ host.pc = "waiting" /\ host.app_responses = {} /\ Len(inbox) = board.sent
        /\ g_usb_buffer = Reports("answer", host.cmd) /\ board.length = AnswerLength
        /\ g_usb_message_received = 1
    <3>1. board.sent \in Nat /\ AnswerLength \in Nat
      BY <1>0, ReportAssumption DEF Locals
    <3>2. board.length = AnswerLength /\ board.sent # AnswerLength
      BY <2>1, <2>2, <3>1 DEF Answering
    <3> QED
      BY <2>2, <3>2 DEF Answering
  <2> DEFINE a == Reports("answer", host.cmd)
  <2>4. /\ a \in Seq(Piece) /\ Len(a) = AnswerLength /\ AnswerLength \in Nat \ {0}
    BY <2>3, Records, ReportsAre DEF MessageLength
  <2>5. Begins(inbox, a)
    BY DEF OwnAnswer
  <2> HIDE DEF a
  <2> DEFINE p == a[Len(inbox) + 1]
  <2>6. Len(inbox) < Len(a) /\ Len(inbox) + 1 \in 1 .. Len(a)
    BY <1>0, <2>1, <2>3, <2>4
  <2>7. p \in Piece
    BY <2>4, <2>6, ElementOfSeq
  <2>8. inbox' = Append(inbox, p)
    BY <2>1, <2>3 DEF a
  <2> HIDE DEF p
  <2>9. Begins(Append(inbox, p), a) /\ Len(Append(inbox, p)) = Len(inbox) + 1
    BY <1>0, <2>4, <2>5, <2>6, <2>7, Longer DEF p
  <2>10. board'.pc = "send" /\ board'.length = AnswerLength /\ board'.sent = board.sent + 1
    BY <1>0, <2>1, <2>3 DEF Locals
  <2>11. Len(inbox') = board'.sent
    BY <2>3, <2>8, <2>9, <2>10
  <2>12. Answering'
    BY <1>0, <2>1, <2>3, <2>10, <2>11 DEF Answering, Reports
  <2>13. Begins(inbox', Reports("answer", host'.cmd))
    BY <1>0, <2>8, <2>9 DEF a
  <2>14. \A b \in log'.accepted : b[1] = b[2]
    BY <1>0 DEF OwnAnswer
  <2>15. OwnAnswer'
    BY <1>0, <2>3, <2>13, <2>14 DEF OwnAnswer, Begins, Reports
  <2> QED
    BY <2>12, <2>15 DEF InStep
<1>5. CASE SendFails \/ SendEnds
  <2>1. Answering
    BY <1>5 DEF SendFails, SendEnds, InStep, Collecting, HasCommand, Clearing
  <2>2. UNCHANGED << g_usb_buffer, g_usb_message_received, inbox >>
    BY <1>5 DEF SendFails, SendEnds
  <2>3. \/ board'.pc = "clear"
        \/ /\ board'.pc = "send" /\ board'.sent = board.sent /\ board'.length = board.length
    BY <1>0, <1>5 DEF SendFails, SendEnds, AfterFailure, Locals
  <2>4. CASE board'.pc = "clear"
    <3>1. Clearing'
      BY <1>0, <2>1, <2>2, <2>4 DEF Answering, Clearing
    <3> QED
      BY <1>1, <2>2, <3>1 DEF InStep
  <2>5. CASE /\ board'.pc = "send" /\ board'.sent = board.sent /\ board'.length = board.length
    <3>1. Answering'
      BY <1>0, <2>1, <2>2, <2>5 DEF Answering, Reports
    <3> QED
      BY <1>1, <2>2, <3>1 DEF InStep
  <2> QED
    BY <2>3, <2>4, <2>5
<1>6. CASE ClearBuffer \/ ResetLength \/ LoadCount
  <2>1. Clearing
    BY <1>6 DEF ClearBuffer, ResetLength, LoadCount, InStep, Collecting, HasCommand, Answering
  <2>2. UNCHANGED << g_usb_message_received, inbox >>
    BY <1>6 DEF ClearBuffer, ResetLength, LoadCount
  <2>3. /\ board'.pc \in {"length", "load", "store"}
        /\ board'.pc \in {"load", "store"} => g_usb_buffer' = << >>
    BY <1>0, <1>6, <2>1 DEF ClearBuffer, ResetLength, LoadCount, Locals, Clearing
  <2>4. board'.pc = "store" => board'.count = 1
    BY <1>0, <1>6, <2>1 DEF ClearBuffer, ResetLength, LoadCount, Locals, Clearing
  <2>5. Clearing'
    BY <1>0, <2>1, <2>2, <2>3, <2>4 DEF Clearing
  <2> QED
    BY <1>1, <2>2, <2>5 DEF InStep
<1>7. CASE StoreCount
  <2>1. Clearing /\ board.pc = "store"
    BY <1>7 DEF StoreCount, InStep, Collecting, HasCommand, Answering
  <2>2. board.count = 1 /\ g_usb_buffer = << >> /\ host.pc # "writing"
    BY <2>1 DEF Clearing
  <2>3. g_usb_message_received' = 0 /\ UNCHANGED << g_usb_buffer, inbox >>
    BY <1>7, <2>2 DEF StoreCount
  <2>4. board'.pc = "idle"
    BY <1>0, <1>7 DEF StoreCount, Locals
  <2>5. Collecting'
    BY <1>0, <2>2, <2>3, <2>4 DEF Collecting
  <2> QED
    BY <1>1, <2>3, <2>5 DEF InStep
<1> QED
  BY <1>2, <1>3, <1>4, <1>5, <1>6, <1>7 DEF MainLoop

LEMMA PatientInit == Init => PatientInv
<1> SUFFICES ASSUME Init
             PROVE  InStep /\ OwnAnswer
  BY DEF PatientInv
<1>1. InStep
  BY DEF Init, InStep, Collecting
<1>2. Begins(inbox, Reports("answer", host.cmd))
  <2>1. host.cmd \in Cmds \cup {NoCmd} /\ inbox = << >>
    BY DEF Init
  <2>2. Len(Reports("answer", host.cmd)) \in Nat
    BY <2>1, ReportsAre
  <2> QED
    BY <2>1, <2>2, NothingBegins
<1>3. OwnAnswer
  BY <1>2 DEF Init, OwnAnswer
<1> QED
  BY <1>1, <1>3

LEMMA PatientStep == IInv /\ PatientInv /\ [Next]_vars => PatientInv'
<1> SUFFICES ASSUME IInv, PatientInv, [Next]_vars, Patient'
             PROVE  (InStep /\ OwnAnswer)'
  BY DEF PatientInv
<1>1. Patient /\ InStep /\ OwnAnswer
  <2>1. habit' = habit
    BY DEF Next, Script, MainLoop, HostBegins, ReportOut, HostReads, HostAccepts, HostRestarts,
           Handle, Execute, SendReport, SendFails, SendEnds, ClearBuffer, ResetLength,
           LoadCount, StoreCount, vars
  <2> QED
    BY <2>1 DEF Patient, PatientInv
<1>2. CASE Next
  BY <1>1, <1>2, PatientBegins, PatientWrites, PatientReads, PatientAccepts, PatientBoard
     DEF Next, Script
<1>3. CASE UNCHANGED vars
  <2>1. UNCHANGED << board, g_usb_buffer, g_usb_message_received, inbox, host, log >>
    BY <1>3 DEF vars
  <2>2. ASSUME Collecting
        PROVE  Collecting'
    <3>1. CASE host.pc # "writing" /\ g_usb_buffer = << >>
      BY <2>1, <2>2, <3>1 DEF Collecting
    <3>2. CASE /\ host.pc = "writing" /\ Len(g_usb_buffer) = host.part - 1
               /\ Begins(g_usb_buffer, Reports("command", host.cmd))
      <4>1. Begins(g_usb_buffer', Reports("command", host'.cmd))
        BY <2>1, <3>2
      <4> QED
        BY <2>1, <2>2, <3>2, <4>1 DEF Collecting, Begins, Reports
    <3> QED
      BY <2>2, <3>1, <3>2 DEF Collecting
  <2>3. HasCommand => HasCommand'
    BY <2>1 DEF HasCommand, Reports
  <2>4. Answering => Answering'
    BY <2>1 DEF Answering, Reports
  <2>5. Clearing => Clearing'
    BY <2>1 DEF Clearing
  <2>6. OwnAnswer'
    <3>1. Begins(inbox', Reports("answer", host'.cmd))
      BY <1>1, <2>1 DEF OwnAnswer
    <3>2. \A a \in log'.accepted : a[1] = a[2]
      BY <1>1, <2>1 DEF OwnAnswer
    <3>3. /\ host'.pc # "failed" /\ host'.app_responses \subseteq {host'.cmd}
          /\ host'.pc # "waiting" \/ host'.app_responses # {} => inbox' = << >>
          /\ host'.pc # "waiting" => host'.app_responses = {}
      BY <1>1, <2>1 DEF OwnAnswer
    <3> QED
      BY <3>1, <3>2, <3>3 DEF OwnAnswer, Begins, Reports
  <2> QED
    BY <1>1, <2>2, <2>3, <2>4, <2>5, <2>6 DEF InStep
<1> QED
  BY <1>2, <1>3

\* The board stays in step with a patient script, one command at a time.
THEOREM PatientInvariance == Spec => []PatientInv
<1> QED
  BY PatientInit, PatientStep, Invariance, PTL DEF Spec

\* With the pauses of the scripts, the answer a script takes is that of the
\* command it sent last, though identifiers restart at zero in every script.
THEOREM AnswerIsItsOwn == Spec => []AnswerIsOwn
<1>1. PatientInv => AnswerIsOwn
  BY DEF PatientInv, OwnAnswer, AnswerIsOwn
<1> QED
  BY <1>1, PatientInvariance, PTL

\* With the pauses of the scripts, g_usb_message_received tells the loop exactly
\* whether a whole command is in the buffer.
THEOREM FlagIsRight == Spec => []FlagTellsMessage
<1>1. ASSUME IInv, PatientInv
      PROVE  FlagTellsMessage
  <2> SUFFICES ASSUME Patient, board.pc = "idle"
               PROVE  /\ MessageWaits <=> Parses(g_usb_buffer)
                      /\ host.pc # "writing" /\ ~MessageWaits => g_usb_buffer = << >>
    BY DEF FlagTellsMessage
  <2>1. Collecting \/ HasCommand
    BY <1>1 DEF PatientInv, InStep, Answering, Clearing
  <2>2. CASE HasCommand
    <3>1. host.cmd \in Cmds
      BY <1>1, <2>2, Records DEF HasCommand
    <3>2. Parses(g_usb_buffer)
      BY <2>2, <3>1, CommandParses DEF HasCommand
    <3> QED
      BY <2>2, <3>2 DEF HasCommand, MessageWaits
  <2>3. CASE Collecting
    <3>1. ~MessageWaits
      BY <2>3 DEF Collecting, MessageWaits
    <3>2. ASSUME Parses(g_usb_buffer)
          PROVE  FALSE
      <4> DEFINE c == Head(g_usb_buffer).of
      <4>1. /\ c \in Cmds /\ g_usb_buffer # << >>
            /\ 1 \in DOMAIN g_usb_buffer /\ c.len \in DOMAIN g_usb_buffer
            /\ g_usb_buffer[1].of = c
        BY <1>1, <3>2, Parsed, Records
      <4> HIDE DEF c
      <4>2. /\ host.pc = "writing" /\ Begins(g_usb_buffer, Reports("command", host.cmd))
            /\ Len(g_usb_buffer) = host.part - 1
        BY <2>3, <4>1 DEF Collecting
      <4>3. host.cmd \in Cmds /\ host.part \in 1 .. host.cmd.len
        BY <1>1, <4>2, Records, Written
      <4>4. /\ DOMAIN g_usb_buffer = 1 .. Len(g_usb_buffer) /\ Len(g_usb_buffer) \in Nat
        BY <1>1, Records, LenProperties
      <4>5. host.cmd.len \in Nat \ {0}
        BY <4>3, ReportAssumption DEF Cmds
      <4>6. c = host.cmd
        <5>1. g_usb_buffer[1] = Reports("command", host.cmd)[1]
          BY <4>1, <4>2, <4>4 DEF Begins
        <5>2. Reports("command", host.cmd)[1] = [kind |-> "command", of |-> host.cmd, part |-> 1]
          <6>1. 1 \in 1 .. host.cmd.len
            BY <4>5
          <6>2. \A i \in 1 .. host.cmd.len :
                  Reports("command", host.cmd)[i] = [kind |-> "command", of |-> host.cmd, part |-> i]
            BY <4>3, ReportsAre DEF MessageLength
          <6> QED
            BY <6>1, <6>2
        <5>3. g_usb_buffer[1] = [kind |-> "command", of |-> host.cmd, part |-> 1]
          BY <5>1, <5>2
        <5>4. g_usb_buffer[1].of = host.cmd
          BY <5>3
        <5> QED
          BY <4>1, <5>4
      <4>7. host.cmd.len \in 1 .. host.part - 1
        BY <4>1, <4>2, <4>4, <4>6
      <4> QED
        BY <4>3, <4>5, <4>7
    <3> QED
      BY <2>3, <3>1, <3>2 DEF Collecting
  <2> QED
    BY <2>1, <2>2, <2>3
<1> QED
  BY <1>1, Invariance, PatientInvariance, PTL
=============================================================================
