------------------------------- MODULE UsbKit -------------------------------
(***************************************************************************)
(* The transport of the kit protocol: the USB interrupt of usb_hid.c that  *)
(* collects reports in g_usb_buffer, the main loop that parses, executes   *)
(* and answers a message in place (zero_touch_provisioning_task,           *)
(* kit_interpreter_handle_message, usb_send_response_message), and a       *)
(* script of ProvisionScripts as the host.                                 *)
(*                                                                         *)
(* A report is one piece of a message; the buffer is the sequence of the   *)
(* pieces in it.  Only "board:app" commands are modelled: they are the     *)
(* ones the scripts send.  Abstracted: hex, JSON and the content of the    *)
(* commands (module EccProvisioning), the padding of reports, and bytes    *)
(* received between the memset and the reset of the length, which stay     *)
(* behind the end of the message.                                          *)
(***************************************************************************)
EXTENDS Integers, Sequences, SequencesExt

CONSTANTS
  MaxCommands,  \* bound: commands sent in all
  Lengths,      \* how many reports a command may take
  AnswerLength, \* reports of an answer
  Retries,      \* send_retries
  Habits        \* how scripts are used: "patient" and "hasty"

ASSUME ReportAssumption ==
  /\ MaxCommands \in Nat \ {0} /\ AnswerLength \in Nat \ {0} /\ Retries \in Nat
  /\ Lengths # {} /\ Lengths \subseteq Nat \ {0}
ASSUME HabitAssumption == Habits # {} /\ Habits \subseteq {"patient", "hasty"}

VARIABLES
  g_usb_buffer,           \* pieces in g_usb_buffer, g_usb_buffer_length of them
  g_usb_message_received, \* g_usb_message_received
  board,                  \* the main loop: where it is and its locals
  inbox,                  \* reports the host's system holds for the script
  host,                   \* the script
  habit,                  \* whether the script's user gives the board time
  log                     \* history: commands sent, every execution; answers taken

vars == << g_usb_buffer, g_usb_message_received, board, inbox, host, habit, log >>
boardVars == << g_usb_buffer, g_usb_message_received, board >>

Numbers == 1..MaxCommands
Cmds    == [no : Numbers, id : 0..(MaxCommands - 1), len : Lengths]
NoCmd   == [no |-> 0, id |-> 0, len |-> 1]
Parts   == UNION {1 .. n : n \in Lengths \cup {AnswerLength}}
Piece   == [kind : {"command", "answer"}, of : Cmds, part : Parts]

\* A message as its reports, and the report with the delimiter.
Reports(kind, c) ==
  [i \in 1 .. (IF kind = "command" THEN c.len ELSE AnswerLength) |->
     [kind |-> kind, of |-> c, part |-> i]]
EndsMessage(p) ==
  p.part = IF p.kind = "command" THEN p.of.len ELSE AnswerLength

\* Mutant: the beginning of a command is taken for all of it.
Parses_AtHead(buf) ==
  buf # << >> /\ Head(buf).kind = "command" /\ Head(buf).part = 1

\* kit_interpreter_parse: the buffer starts with a command, from target to
\* closing parenthesis.
Parses(buf) ==
  buf # << >> /\ IsPrefix(Reports("command", Head(buf).of), buf)

Locals == [pc : {"idle", "execute", "send", "clear", "length", "load", "store"},
           job : Cmds \cup {NoCmd}, sent : Nat, length : Nat,
           send_retries : 0..Retries, count : Nat, response_sent : BOOLEAN]

\* The board has nothing to do and knows of no message.
Quiet == board.pc = "idle" /\ g_usb_message_received = 0
Patient == habit = "patient"

Init ==
  /\ g_usb_buffer = << >>
  /\ g_usb_message_received = 0
  /\ board = [pc |-> "idle", job |-> NoCmd, sent |-> 0, length |-> 0,
              send_retries |-> Retries, count |-> 0, response_sent |-> TRUE]
  /\ inbox = << >>
  /\ host = [pc |-> "ready", cmd |-> NoCmd, part |-> 1, next_app_cmd_id |-> 0,
             app_responses |-> {}]
  /\ habit \in Habits
  /\ log = [sent |-> {}, executed |-> << >>, accepted |-> {}]

----------------------------------------------------------------------------
(* The script: mchp_aws_zt_kit.py. *)

\* kit_write_app.  The scripts pause two or three seconds between commands;
\* a hasty one sends as soon as it has an answer.
HostBegins ==
  /\ host.pc = "ready"
  /\ host.cmd.no < MaxCommands
  /\ Patient => Quiet
  /\ \E n \in Lengths :
       host' = [host EXCEPT !.pc = "writing", !.part = 1,
                  !.next_app_cmd_id = @ + 1,
                  !.cmd = [no |-> host.cmd.no + 1, id |-> host.next_app_cmd_id,
                           len |-> n]]
  /\ UNCHANGED << boardVars, inbox, habit, log >>

\* Mutant: every report counts as a message.
Received_EveryReport(p) == 1

\* What a report adds to g_usb_message_received.
Received(p) == IF EndsMessage(p) THEN 1 ELSE 0

\* raw_write of one report: the interrupt of the board,
\* usb_hid_report_out_callback, runs at once wherever the main loop is.
ReportOut ==
  LET p == [kind |-> "command", of |-> host.cmd, part |-> host.part] IN
  /\ host.pc = "writing"
  /\ g_usb_buffer' = Append(g_usb_buffer, p)
  /\ g_usb_message_received' = g_usb_message_received + Received(p)
  /\ IF EndsMessage(p)
     THEN /\ host' = [host EXCEPT !.pc = "waiting"]
          /\ log' = [log EXCEPT !.sent = @ \cup {host.cmd.no}]
     ELSE /\ host' = [host EXCEPT !.part = @ + 1]
          /\ log' = log
  /\ UNCHANGED << board, inbox, habit >>

\* The line that ends at report n of the inbox is the first one.
FirstLine(n) ==
  /\ EndsMessage(inbox[n])
  /\ \A m \in 1 .. (n - 1) : ~EndsMessage(inbox[m])

\* kit_read and parse_kit_reply: a line that is not one whole answer raises an
\* error and ends the script; an answer is kept under its id.
HostReads ==
  /\ host.pc = "waiting"
  /\ ~ \E r \in host.app_responses : r.id = host.cmd.id
  /\ \E n \in DOMAIN inbox :
       LET line   == SubSeq(inbox, 1, n)
           answer == Head(line).of
       IN /\ FirstLine(n)
          /\ inbox' = SubSeq(inbox, n + 1, Len(inbox))
          /\ IF line = Reports("answer", answer)
             THEN host' = [host EXCEPT !.app_responses =
                             {r \in @ : r.id # answer.id} \cup {answer}]
             ELSE host' = [host EXCEPT !.pc = "failed"]
  /\ UNCHANGED << boardVars, habit, log >>

\* kit_read_app: the response with the id of the command is taken.
HostAccepts ==
  /\ host.pc = "waiting"
  /\ \E r \in host.app_responses :
       /\ r.id = host.cmd.id
       /\ host' = [host EXCEPT !.pc = "ready", !.app_responses = @ \ {r}]
       /\ log' = [log EXCEPT !.accepted = @ \cup {<< host.cmd.no, r.no >>}]
  /\ UNCHANGED << boardVars, inbox, habit >>

\* Another script is started, after the last one ended or was interrupted:
\* it opens the device afresh and numbers its commands from zero.
HostRestarts ==
  /\ Patient => Quiet /\ host.pc # "writing"
  /\ host' = [host EXCEPT !.pc = "ready", !.next_app_cmd_id = 0,
                          !.app_responses = {}]
  /\ inbox' = << >>
  /\ UNCHANGED << boardVars, habit, log >>

----------------------------------------------------------------------------
(* The main loop of the board. *)

\* Mutant: the data of the previous command is still there.
Job_Stale(buf) == IF board.job.no = 0 THEN Head(buf).of ELSE board.job

\* The command the parser finds.
Job(buf) == Head(buf).of

\* Mutant: the flag is not looked at.
MessageWaits_Always == TRUE

\* zero_touch_provisioning_task: something was received.
MessageWaits == g_usb_message_received > 0

\* kit_interpreter_handle_message up to the call of board_application.  What
\* does not parse stays in the buffer and is sent back as it is.
Handle ==
  /\ board.pc = "idle"
  /\ MessageWaits
  /\ board' =
       IF Parses(g_usb_buffer)
       THEN [board EXCEPT !.pc = "execute", !.job = Job(g_usb_buffer)]
       ELSE [board EXCEPT !.pc = "send", !.sent = 0, !.send_retries = Retries,
                          !.length = Len(g_usb_buffer), !.response_sent = FALSE]
  /\ UNCHANGED << g_usb_buffer, g_usb_message_received, inbox, host, habit, log >>

\* kit_board_application and kit_interpreter_serialize: the command is carried
\* out and its answer is written over the buffer and its length.
Execute ==
  /\ board.pc = "execute"
  /\ g_usb_buffer' = Reports("answer", board.job)
  /\ board' = [board EXCEPT !.pc = "send", !.sent = 0, !.send_retries = Retries,
                            !.length = AnswerLength, !.response_sent = FALSE]
  /\ log' = [log EXCEPT !.executed = Append(@, board.job.no)]
  /\ UNCHANGED << g_usb_message_received, inbox, host, habit >>

\* One report of usb_send_response_message, with the 50 ms that follow.
SendReport ==
  /\ board.pc = "send"
  /\ board.sent < board.length
  /\ inbox' = Append(inbox, g_usb_buffer[board.sent + 1])
  /\ board' = [board EXCEPT !.sent = @ + 1, !.response_sent = TRUE]
  /\ UNCHANGED << g_usb_buffer, g_usb_message_received, host, habit, log >>

\* Mutant: the result of the report before is returned.
AfterFailure_Silent(b) ==
  IF b.send_retries > 0
  THEN [b EXCEPT !.send_retries = @ - 1] ELSE [b EXCEPT !.pc = "clear"]

\* The retries are for the whole answer; without any left the rest is dropped.
AfterFailure(b) ==
  IF b.send_retries > 0
  THEN [b EXCEPT !.send_retries = @ - 1, !.response_sent = FALSE]
  ELSE [b EXCEPT !.pc = "clear", !.response_sent = FALSE]

\* udi_hid_generic_send_report_in refuses a report.
SendFails ==
  /\ board.pc = "send"
  /\ board.sent < board.length
  /\ board' = AfterFailure(board)
  /\ UNCHANGED << g_usb_buffer, g_usb_message_received, inbox, host, habit, log >>

SendEnds ==
  /\ board.pc = "send"
  /\ board.sent = board.length
  /\ board' = [board EXCEPT !.pc = "clear"]
  /\ UNCHANGED << g_usb_buffer, g_usb_message_received, inbox, host, habit, log >>

\* The memset of the buffer.
ClearBuffer ==
  /\ board.pc = "clear"
  /\ g_usb_buffer' = << >>
  /\ board' = [board EXCEPT !.pc = "length"]
  /\ UNCHANGED << g_usb_message_received, inbox, host, habit, log >>

\* g_usb_buffer_length = 0: what came since the memset is out of reach.
ResetLength ==
  /\ board.pc = "length"
  /\ g_usb_buffer' = << >>
  /\ board' = [board EXCEPT !.pc = "load"]
  /\ UNCHANGED << g_usb_message_received, inbox, host, habit, log >>

\* g_usb_message_received--, a load and a store with the interrupt enabled.
LoadCount ==
  /\ board.pc = "load"
  /\ board' = [board EXCEPT !.pc = "store", !.count = g_usb_message_received]
  /\ UNCHANGED << g_usb_buffer, g_usb_message_received, inbox, host, habit, log >>
StoreCount ==
  /\ board.pc = "store"
  /\ g_usb_message_received' = board.count - 1
  /\ board' = [board EXCEPT !.pc = "idle", !.count = 0]
  /\ UNCHANGED << g_usb_buffer, inbox, host, habit, log >>

Script == HostBegins \/ ReportOut \/ HostReads \/ HostAccepts
MainLoop ==
  \/ Handle \/ Execute \/ SendReport \/ SendFails \/ SendEnds
  \/ ClearBuffer \/ ResetLength \/ LoadCount \/ StoreCount
Next == Script \/ HostRestarts \/ MainLoop

\* The main loop never stops, and a running script goes on by itself.
Fairness == WF_vars(MainLoop) /\ WF_vars(ReportOut) /\ WF_vars(HostReads \/ HostAccepts)
Spec == Init /\ [][Next]_vars /\ Fairness

----------------------------------------------------------------------------
TypeOK ==
  /\ g_usb_buffer \in Seq(Piece) /\ inbox \in Seq(Piece)
  /\ g_usb_message_received \in Nat
  /\ board \in Locals
  /\ host \in [pc : {"ready", "writing", "waiting", "failed"},
               cmd : Cmds \cup {NoCmd}, part : Parts,
               next_app_cmd_id : 0..MaxCommands, app_responses : SUBSET Cmds]
  /\ habit \in Habits
  /\ log \in [sent : SUBSET Numbers, executed : Seq(Numbers),
              accepted : SUBSET (Numbers \X Numbers)]

\* However scripts are used and wherever the interrupt strikes, the buffer
\* shared with it and the count that is not decremented atomically
\* (usb_hid.c:123-126) never make the board execute a command twice, late
\* behind a newer one, or before all of it was sent: every execution is of a
\* command newer than those of all executions before it.
Channel == INSTANCE KitChannel WITH
  Commands <- Numbers, sent <- log.sent, executed <- log.executed,
  accepted <- log.accepted
ChannelSpec == Channel!Spec

\* With the pauses of the scripts, the answer a script takes (kit_read_app,
\* which goes by an id that restarts at zero in every script) is that of the
\* command it sent last, after lost answers and interrupted scripts too.
AnswerIsOwn ==
  Patient => \A a \in log.accepted : a[1] = a[2]

\* With the pauses of the scripts, g_usb_message_received is what usb_hid.c:59
\* says, "whether the USB message was received": when the loop looks, it is
\* set exactly when a whole command is at the head of the buffer, and between
\* two commands the buffer is empty.
FlagTellsMessage ==
  Patient /\ board.pc = "idle" =>
    /\ MessageWaits <=> Parses(g_usb_buffer)
    /\ host.pc # "writing" /\ ~MessageWaits => g_usb_buffer = << >>

\* With the pauses of the scripts, a script that waits for an answer, for which
\* kit_read sets no time-out, gets it unless the board gave up sending it.
GaveUp   == Quiet /\ ~board.response_sent
WaitEnds == Patient /\ host.pc = "waiting" ~> host.pc # "waiting" \/ GaveUp
=============================================================================
