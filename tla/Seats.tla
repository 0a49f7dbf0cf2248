---------------------------------- MODULE Seats ----------------------------------
(***************************************************************************)
(* What the registries of the game server promise: an account has a seat   *)
(* in one room at most, and an account that is bound to a room, as a guest *)
(* is when the room starts, never has a seat in another.                   *)
(***************************************************************************)
VARIABLES seats,   \* the pairs of an account and a room where it has a seat
          bound    \* the pairs of an account and the room it is bound to

vars == <<seats, bound>>

Init == seats = {} /\ bound = {}

Others(pairs, a, r) == {p \in pairs : p[1] = a /\ p[2] # r}

Sit ==
  \E p \in seats' \ seats :
    /\ seats' = seats \cup {p}
    /\ \A q \in seats : q[1] # p[1]
    /\ Others(bound, p[1], p[2]) = {}
    /\ UNCHANGED bound

Stand ==
  \E p \in seats \ seats' :
    /\ seats' = seats \ {p}
    /\ UNCHANGED bound

Bind ==
  \E p \in bound' \ bound :
    /\ bound' = bound \cup {p}
    /\ \A q \in bound : q[1] # p[1]
    /\ Others(seats, p[1], p[2]) = {}
    /\ UNCHANGED seats

Next == Sit \/ Stand \/ Bind

Spec == Init /\ [][Next]_vars
=============================================================================
