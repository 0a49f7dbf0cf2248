-------------------------------- MODULE Match --------------------------------
(***************************************************************************)
(* What a match promises to the room that runs it, without its cards: who  *)
(* is still in, whose turn it is, and who has yet to place opening Jokers. *)
(* Players drop out one by one and the last of them wins.                  *)
(* CipherDeckGame implements this specification.                           *)
(***************************************************************************)
EXTENDS Integers

CONSTANT NumPlayers   \* three to six

Player == 0..(NumPlayers - 1)

VARIABLES stage,      \* "opening", "turns" or "over"
          active,     \* the players still in
          turnOf,     \* the player to act once the opening is over
          unplaced    \* the players with an opening Joker to place

vars == <<stage, active, turnOf, unplaced>>

TypeOK ==
  /\ stage \in {"opening", "turns", "over"}
  /\ active \in SUBSET Player
  /\ turnOf \in Player
  /\ unplaced \in SUBSET Player

\* q acts after p when everyone between them is out.
Follows(p, q, in) ==
  \E k \in 1..NumPlayers :
     /\ q = (p + k) % NumPlayers
     /\ q \in in
     /\ \A j \in 1..(k - 1) : (p + j) % NumPlayers \notin in

Init ==
  /\ unplaced \in SUBSET Player
  /\ stage = IF unplaced = {} THEN "turns" ELSE "opening"
  /\ active = Player
  /\ turnOf \in Player

\* A player places one of their opening Jokers, perhaps the last one.
Place ==
  /\ stage = "opening"
  /\ \E p \in unplaced : unplaced' = unplaced \ {p}
  /\ stage' = IF unplaced' = {} THEN "turns" ELSE "opening"
  /\ UNCHANGED <<active, turnOf>>

\* The players in out leave the match; one player is left with the victory.
Leave(out) ==
  /\ active' = active \ out
  /\ active' # {}
  /\ unplaced' \subseteq unplaced
  /\ IF \E p \in Player : active' = {p}
     THEN stage' = "over" /\ turnOf' \in Player
     ELSE stage' # "over" /\ turnOf' \in active'

\* Before turn one the timer or a forfeit may take several players out; the
\* turn moves only from a player who is out.
OpeningLeave ==
  /\ stage = "opening"
  /\ \E out \in (SUBSET active) \ {{}} :
       /\ Leave(out)
       /\ stage' # "over" =>
            /\ unplaced' = unplaced \ out
            /\ stage' = IF unplaced' = {} THEN "turns" ELSE "opening"
            /\ turnOf' = turnOf \/ Follows(turnOf, turnOf', active')
            /\ turnOf \in active' => turnOf' = turnOf

\* A turn goes on or passes to the next player in; at most one player is out
\* with it.
Turn ==
  /\ stage = "turns"
  /\ \E out \in {{}} \cup {{p} : p \in active} :
       /\ Leave(out)
       /\ unplaced' = unplaced
       /\ stage' # "over" =>
            /\ stage' = "turns"
            /\ turnOf' = turnOf \/ Follows(turnOf, turnOf', active')

Next == Place \/ OpeningLeave \/ Turn

Spec == Init /\ [][Next]_vars
=============================================================================
