-------------------------------- MODULE Jitr --------------------------------
(***************************************************************************)
(* Just-in-time registration: the Lambda function of ZTLambdaJITR.py,      *)
(* which the service invokes when a board connects for the first time with *)
(* a certificate it does not know.                                         *)
(*                                                                         *)
(* An event may invoke the function more than once, and an invocation that *)
(* raises is made again; each starts over.  Abstracted: the contents of    *)
(* the policy, and what the function reads from the certificate.           *)
(***************************************************************************)
EXTENDS Naturals, Sequences

CONSTANT Invocations  \* how often one event may invoke the function
ASSUME JitrAssumption == Invocations # {}

VARIABLES
  certificate,  \* its status
  made,         \* what exists besides: the thing, its policy, ...
  next          \* next[i]: the call invocation i makes next; 0 before it starts

jitrVars == << certificate, made, next >>

\* Mutant: the certificate is activated before its policy is attached.
Calls_ActiveFirst ==
  << "describe", "type", "group", "thing", "member", "policy", "activate", "attached" >>

\* The calls of lambda_handler, in order.
Calls ==
  << "describe", "type", "group", "thing", "member", "policy", "attached", "activate" >>

JitrInit ==
  /\ certificate \in {"UNKNOWN", "ACTIVE"}
  /\ made = IF certificate = "ACTIVE"
            THEN {"type", "group", "thing", "member", "policy", "attached"} ELSE {}
  /\ next = [i \in Invocations |-> IF certificate = "ACTIVE" THEN Len(Calls) + 1 ELSE 0]

\* A connection with a certificate that is not active is refused; with an
\* unknown one it registers the certificate, which is what invokes the function.
ConnectRefused ==
  /\ certificate = "UNKNOWN"
  /\ certificate' = "PENDING_ACTIVATION"
  /\ UNCHANGED << made, next >>

Invoked(i) ==
  /\ certificate # "UNKNOWN" /\ next[i] = 0
  /\ next' = [next EXCEPT ![i] = 1]
  /\ UNCHANGED << certificate, made >>

\* Mutant: the error of a policy that exists is raised again.
Call_PolicyOnce(i) ==
  /\ next[i] \in DOMAIN Calls
  /\ next' = [next EXCEPT ![i] = IF Calls[@] = "policy" /\ "policy" \in made THEN 1 ELSE @ + 1]
  /\ LET call == Calls[next[i]]
     IN /\ certificate' = IF call = "activate" THEN "ACTIVE" ELSE certificate
        /\ made' = IF call \in {"describe", "activate"} THEN made ELSE made \cup {call}

\* A call; every one of them does no harm when it is made again.
Call(i) ==
  /\ next[i] \in DOMAIN Calls
  /\ next' = [next EXCEPT ![i] = @ + 1]
  /\ LET call == Calls[next[i]]
     IN /\ certificate' = IF call = "activate" THEN "ACTIVE" ELSE certificate
        /\ made' = IF call \in {"describe", "activate"} THEN made ELSE made \cup {call}

\* It raises: the service invokes the function again.
Raises(i) ==
  /\ next[i] \in DOMAIN Calls
  /\ next' = [next EXCEPT ![i] = 1]
  /\ UNCHANGED << certificate, made >>

\* A certificate that is active has its policy attached, and its thing is in
\* the group: a board that may connect may also use its shadow, whatever
\* invocation was cut short or made twice.
ActiveIsComplete ==
  certificate = "ACTIVE" => {"thing", "member", "policy", "attached"} \subseteq made
=============================================================================
