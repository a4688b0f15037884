------------------------- MODULE MCEccProvisioning -------------------------
(* A small instance of EccProvisioning: two networks, two device keys, an   *)
(* offer for each key, and one that is not signed by its own CA.            *)
EXTENDS EccProvisioning
CONSTANTS k1, k2

MCOffers == {[name |-> "first", key |-> k1, chained |-> TRUE],
             [name |-> "second", key |-> k2, chained |-> TRUE],
             [name |-> "broken", key |-> k1, chained |-> FALSE]}
=============================================================================
