-------------------------------- MODULE MCOutbox --------------------------------
(***************************************************************************)
(* Two matches, one of two registered players and one of one of them.      *)
(***************************************************************************)
EXTENDS OutboxProperties

CONSTANTS first, second, ann, bob

Rosters == [m \in Match |-> IF m = first THEN {ann, bob} ELSE {ann}]
=============================================================================
