-------------------------------- MODULE MCSessions --------------------------------
(***************************************************************************)
(* A browser with three requests at a time; two accounts have one email.   *)
(***************************************************************************)
EXTENDS SessionsProperties, TLC

CONSTANTS ann, bob, mail

Profiles == {[subject |-> ann, email |-> mail], [subject |-> bob, email |-> mail]}
Alike == Permutations(Request)
=============================================================================
