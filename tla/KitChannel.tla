----------------------------- MODULE KitChannel -----------------------------
(***************************************************************************)
(* What the kit protocol promises between the provisioning scripts and     *)
(* the board, whatever the reports on the wire do: a command is executed   *)
(* at most once, in the order of sending and only after the whole of it    *)
(* was sent, and an answer a script takes is the answer of a command that  *)
(* was executed.  Commands and answers may be lost.                        *)
(***************************************************************************)
EXTENDS Integers, Sequences

CONSTANT Commands  \* natural numbers, in the order in which the scripts send them

VARIABLES
  sent,      \* commands sent to the last byte
  executed,  \* every execution of a command by the board, in order
  accepted   \* << asked, answered >> : the answer taken for a command

vars == << sent, executed, accepted >>

Init == sent = {} /\ executed = << >> /\ accepted = {}

Send(c) ==
  /\ \A s \in sent : s < c
  /\ sent' = sent \cup {c}
  /\ UNCHANGED << executed, accepted >>

\* An execution is never without effect: a second one of c is not allowed.
Execute(c) ==
  /\ c \in sent
  /\ \A i \in DOMAIN executed : executed[i] < c
  /\ executed' = Append(executed, c)
  /\ UNCHANGED << sent, accepted >>

Accept(asked, answered) ==
  /\ asked \in sent
  /\ \E i \in DOMAIN executed : executed[i] = answered
  /\ accepted' = accepted \cup {<< asked, answered >>}
  /\ UNCHANGED << sent, executed >>

Next ==
  \/ \E c \in Commands : Send(c) \/ Execute(c)
  \/ \E asked, answered \in Commands : Accept(asked, answered)

Spec == Init /\ [][Next]_vars
=============================================================================
