-------------------------------- MODULE MCJoins --------------------------------
(***************************************************************************)
(* The tabs of a guest, who tries two rooms, and of somebody else who      *)
(* tries the first; and two tabs of one person in one room.                *)
(***************************************************************************)
EXTENDS JoinsProperties, TLC

CONSTANTS t1, t2, t3, ann, bob, r1, r2

Owners == [t \in Tab |-> IF t \in {t1, t2} THEN ann ELSE bob]
TwoRooms == [t \in Tab |-> IF t = t2 THEN r2 ELSE r1]

OneOwner == t1 :> ann @@ t2 :> ann
OneRoom == t1 :> r1 @@ t2 :> r1
=============================================================================
