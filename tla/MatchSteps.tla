------------------------------ MODULE MatchSteps ------------------------------
(***************************************************************************)
(* What the room knows of a match (game.ts): whether it is in its opening, *)
(* in turns or over, who is still in, whose turn it is (of a match that is *)
(* over: the winner) and who has an opening Joker to place.  Each operator *)
(* gives the matches that one call of the engine may return, with the      *)
(* order of the seats forgotten, so that the players may be any set.       *)
(***************************************************************************)
EXTENDS Integers, FiniteSets

\* createGame, after any selection.
NewMatches(players) ==
  {[stage |-> IF unplaced = {} THEN "turns" ELSE "opening",
    active |-> players, turn |-> turn, unplaced |-> unplaced] :
      unplaced \in SUBSET players, turn \in players}

(***************************************************************************)
(* forfeitPlayer, and what a reveal does: the players in out are out.  The *)
(* match is over when one is left, the opening when its Jokers are placed, *)
(* and the turn moves only from a player who is out.                       *)
(***************************************************************************)
AfterOut(g, out) ==
  LET active == g.active \ out
      over   == Cardinality(active) = 1
      late   == IF over THEN {} ELSE g.unplaced \ out
  IN  {[stage |-> IF over THEN "over"
                  ELSE IF g.stage = "opening" /\ late # {} THEN "opening"
                  ELSE "turns",
        active |-> active, turn |-> turn, unplaced |-> late] :
          turn \in IF g.turn \in active THEN {g.turn} ELSE active}

\* A move of the player whose turn it is: it may show the last card of one
\* player, and the turn may pass.
AfterMove(g) ==
  UNION {{[h EXCEPT !.turn = p] : p \in h.active} :
           h \in {g} \cup UNION {AfterOut(g, {p}) : p \in g.active}}

\* resolveTurnTimeout: in the opening everyone with a Joker left is out, but
\* the last of the players.
AfterTimeout(g) ==
  IF g.stage = "turns" THEN AfterOut(g, {g.turn})
  ELSE IF g.unplaced # g.active THEN AfterOut(g, g.unplaced)
  ELSE UNION {AfterOut(g, g.active \ {p}) : p \in g.active}

\* placeStartingJoker: p places a Joker of the opening, perhaps their last.
AfterPlacing(g, p) ==
  {g, [g EXCEPT !.unplaced = @ \ {p},
                !.stage = IF g.unplaced = {p} THEN "turns" ELSE @]}
=============================================================================
