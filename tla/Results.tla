---------------------------------- MODULE Results ----------------------------------
(***************************************************************************)
(* What the players see of the results of their matches: the statistics of *)
(* the registered players of a match that was played get it all at once,   *)
(* one time, and keep it.                                                  *)
(***************************************************************************)
EXTENDS Naturals

CONSTANTS Match, Player, Registered

VARIABLES played,  \* the matches that have been reported
          rows     \* how many rows each match has for each player

vars == <<played, rows>>

Nothing == [p \in Player |-> 0]

Whole(m) == [p \in Player |-> IF p \in Registered[m] THEN 1 ELSE 0]

Init == played = {} /\ rows = [m \in Match |-> Nothing]

Finish ==
  \E m \in Match \ played :
    /\ played' = played \cup {m}
    /\ UNCHANGED rows

Store ==
  \E m \in played :
    /\ rows[m] = Nothing
    /\ rows' = [rows EXCEPT ![m] = Whole(m)]
    /\ UNCHANGED played

Next == Finish \/ Store

Spec == Init /\ [][Next]_vars
=============================================================================
