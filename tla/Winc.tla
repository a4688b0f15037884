-------------------------------- MODULE Winc --------------------------------
(***************************************************************************)
(* The WINC1500 network controller and the radio environment, as the host  *)
(* firmware sees them.  The controller's own firmware is not part of the   *)
(* repository: what follows is the behaviour the driver headers document   *)
(* (m2m_wifi.h, socket.h) and winc15x0.c relies on.                        *)
(*                                                                         *)
(* The controller's state is one record, and every host request is an      *)
(* operator from a record to a record, so that a handler which makes       *)
(* several requests in a row is written as their composition.              *)
(*                                                                         *)
(* The controller answers through notifications.  A notification is first  *)
(* `due` (the controller owes it) and later raised, that is appended to    *)
(* the host's event queue, so that the host may take steps in between.     *)
(***************************************************************************)
EXTENDS Naturals, Sequences

CONSTANT MaxConns   \* bound: TCP connections the phone opens during one visit
ASSUME ConnsAssumption == MaxConns \in Nat \ {0}

\* What the controller can owe the host: a lost or failed association (or a
\* client that left the soft AP), an address, the system time, and the
\* answers to bind and accept.
Notice == {"DISCONNECTED", "DHCP_CONF", "SYS_TIME", "BIND", "ACCEPT"}

WincState ==
  [ sta    : {"idle", "joining", "joined"},          \* station interface
    ap     : BOOLEAN,                                \* soft AP up
    client : BOOLEAN,                                \* phone on the soft AP
    srv    : {"closed", "binding", "listening"},     \* provisioning server
    conns  : Nat,                                    \* data connections
    armed  : Nat,                                    \* those being read
    due    : SUBSET Notice ]

WincReset ==
  [ sta |-> "idle", ap |-> FALSE, client |-> FALSE, srv |-> "closed",
    conns |-> 0, armed |-> 0, due |-> {} ]

----------------------------------------------------------------------------
(* Host requests. *)

\* m2m_wifi_connect: starts an association.
Connect(w) == [w EXCEPT !.sta = IF @ = "idle" THEN "joining" ELSE @]

\* Whatever ends an association or the visit of a client withdraws the
\* notices of the old link and owes a DISCONNECTED.
DropLink(w) ==
  [w EXCEPT !.due = (@ \ {"DHCP_CONF", "ACCEPT"}) \cup {"DISCONNECTED"}]

\* m2m_wifi_disconnect: "If the WINC is not in the connected state, a call to
\* this function will hold insignificant" (m2m_wifi.h).
Disconnect(w) ==
  IF w.sta = "joined" THEN [DropLink(w) EXCEPT !.sta = "idle"] ELSE w

\* m2m_wifi_get_sytem_time: asynchronous, answered by SYS_TIME.
GetSystemTime(w) == [w EXCEPT !.due = @ \cup {"SYS_TIME"}]

\* m2m_wifi_enable_ap: the radio leaves the station role.
EnableAp(w) == [w EXCEPT !.ap = TRUE, !.sta = "idle"]

\* m2m_wifi_disable_ap: a client that is associated is put off the air, which
\* the controller reports.
DisableAp(w) ==
  [ (IF w.client THEN DropLink(w) ELSE w)
      EXCEPT !.ap = FALSE, !.client = FALSE, !.conns = 0, !.armed = 0 ]

\* socket + bind, listen, close of the server socket, recv on a data socket
\* (which fails once the phone is gone).
OpenServer(w)  == [w EXCEPT !.srv = "binding", !.due = @ \cup {"BIND"}]
Listen(w)      == [w EXCEPT !.srv = "listening"]
CloseServer(w) == [w EXCEPT !.srv = "closed", !.due = @ \ {"BIND", "ACCEPT"}]
Recv(w)        == [w EXCEPT !.armed = IF @ < w.conns THEN @ + 1 ELSE @]

----------------------------------------------------------------------------
(* What the radio environment does by itself. *)

JoinSucceeds(w, n) ==
  /\ w.sta = "joining"
  /\ n = [w EXCEPT !.sta = "joined", !.due = @ \cup {"DHCP_CONF"}]

JoinFails(w, n) ==
  /\ w.sta = "joining"
  /\ n = [DropLink(w) EXCEPT !.sta = "idle"]

LinkLost(w, n) ==
  /\ w.sta = "joined"
  /\ n = [DropLink(w) EXCEPT !.sta = "idle"]

LeaseRenewed(w, n) ==
  /\ w.sta = "joined"
  /\ n = [w EXCEPT !.due = @ \cup {"DHCP_CONF"}]

ClientJoins(w, n) ==
  /\ w.ap /\ ~w.client
  /\ n = [w EXCEPT !.client = TRUE, !.due = @ \cup {"DHCP_CONF"}]

ClientLeaves(w, n) ==
  /\ w.client
  /\ n = [DropLink(w) EXCEPT !.client = FALSE, !.conns = 0, !.armed = 0]

ClientOpensTcp(w, n) ==
  /\ w.client /\ w.srv = "listening"
  /\ w.due \cap {"DHCP_CONF", "ACCEPT"} = {} /\ w.conns < MaxConns
  /\ n = [w EXCEPT !.conns = @ + 1, !.due = @ \cup {"ACCEPT"}]

\* The phone sends one frame on a connection the host is reading.
ClientSends(w, n) ==
  /\ w.client /\ w.armed > 0
  /\ n = [w EXCEPT !.armed = @ - 1]

\* The controller raises a notice it owes; a link's end is reported before
\* anything about the next link.
Raises(w, k, n) ==
  /\ k \in w.due
  /\ k \in {"DHCP_CONF", "ACCEPT"} => "DISCONNECTED" \notin w.due
  /\ n = [w EXCEPT !.due = @ \ {k}]
=============================================================================
