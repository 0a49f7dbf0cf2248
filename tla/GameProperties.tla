---------------------------- MODULE GameProperties ----------------------------
(***************************************************************************)
(* What a match of CipherDeckGame promises.                                *)
(***************************************************************************)
EXTENDS CipherDeckGame, MatchSteps

\* The game state has the shape of GameState in types.ts.
TypeOK == game \in GameState

\* Every card of the deck is in exactly one place, a rack, the draw pile or
\* the table beside the rack, through draws, placements, sorts and forfeits
\* ("so no card disappears").
Conserved(g) ==
  LET rack(p) == ToSet(g.rack[p])
      pile    == ToSet(g.drawPile)
      table   == {g.pendingDraw} \ {NoCard}
  IN  /\ Card = (UNION {rack(p) : p \in Player}) \cup pile \cup table
      /\ pile \cap table = {}
      /\ IsInjective(g.drawPile)
      /\ \A p \in Player :
           /\ rack(p) \cap (pile \cup table) = {}
           /\ \A q \in Player \ {p} : rack(p) \cap rack(q) = {}
           /\ IsInjective(g.rack[p])

CardsConserved == Conserved(game)

\* The standard cards of every rack are always in order, whatever was
\* inserted, sorted in by a forfeit, or moved while placing opening Jokers.
Ordered(g) == \A p \in Player : IsValidRackOrder(g.rack[p])

RacksOrdered == Ordered(game)

\* A player is eliminated exactly when every card in their rack is revealed.
EliminatedIffAllRevealed ==
  game.eliminated = {p \in Player : AllRevealed(game, p)}

\* The match ends when one active player remains, who is the winner, and
\* it does not end before.
Decided(g) ==
  IF g.phase = "game-over"
  THEN g.winner \in Player /\ g.eliminated = Player \ {g.winner}
  ELSE g.winner = NoPlayer /\ Cardinality(Player \ g.eliminated) >= 2

LastActivePlayerWins == Decided(game)

\* A card is drawn exactly during the phases that resolve it; it is face up
\* exactly when a wrong guess turned it, and face down on the table before.
DrawFits(g) ==
  /\ g.phase \in {"starter-place", "draw", "self-penalty"} =>
       g.pendingDraw = NoCard
  /\ g.phase \in {"place", "penalty-place"} => g.pendingDraw # NoCard
  /\ g.phase = "penalty-place" => g.pendingDraw \in g.revealed
  /\ g.phase \in {"guess", "place"} => g.pendingDraw \notin g.revealed
  /\ g.phase = "guess" /\ g.pendingDraw = NoCard => g.drawPile = <<>>

DrawnCardMatchesPhase == DrawFits(game)

\* Whoever has to act can: the active player is in the game and has a legal
\* move in every phase, so a turn is never stuck on a player without one.
CurrentPlayerCanMove ==
  LET p == game.current IN
  game.phase # "game-over" =>
    /\ p \notin game.eliminated
    /\ CASE game.phase = "draw" -> game.drawPile # <<>>
         [] game.phase = "guess" ->
              \E q \in Player, card \in Card : GuessTarget(p, q, card)
         [] game.phase \in {"place", "penalty-place"} ->
              ValidInsertionIndexes(game.rack[p], game.pendingDraw) # {}
         [] game.phase = "self-penalty" ->
              ToSet(game.rack[p]) \ game.revealed # {}
         [] OTHER -> HasPendingStartingJokerPlacements(game)

\* Turn one starts exactly when every opening Joker is placed; the Jokers
\* still to place belong to players in the game and are in their racks.
OpeningJokersGateTheFirstTurn ==
  game.phase # "game-over" =>
    /\ game.phase = "starter-place" <=> HasPendingStartingJokerPlacements(game)
    /\ \A p \in Player :
         /\ ToSet(game.pendingJokers[p]) \subseteq Joker \cap ToSet(game.rack[p])
         /\ game.pendingJokers[p] # <<>> => p \notin game.eliminated

\* A revealed card stays revealed, an eliminated player stays out, and a
\* finished game does not change.
NothingIsTakenBack ==
  [][/\ game.revealed \subseteq game'.revealed
     /\ game.eliminated \subseteq game'.eliminated
     /\ game.phase # "game-over"]_vars

\* A drawn card leaves the table only into the rack of the player who drew
\* it: no turn change, timeout or other player's forfeit makes it vanish.
DrawnCardIsKept ==
  [][game.pendingDraw # NoCard /\ game'.pendingDraw # game.pendingDraw =>
       game.pendingDraw \in ToSet(game'.rack[game.current])]_vars

\* Every step is progress: this measure falls, so no game goes on for ever.
Measure(g) ==
  2 * (  2 * Len(g.drawPile)
       + Cardinality({g.pendingDraw} \ {NoCard})
       + Cardinality(Card \ g.revealed)
       + Cardinality(Player \ g.eliminated)
       + Cardinality(UNION {ToSet(g.pendingJokers[p]) : p \in Player}))
  + (IF g.phase = "guess" THEN 1 ELSE 0)

EveryStepIsProgress == [][Measure(game') < Measure(game)]_vars

\* With the action timer on the game ends, whoever stops playing.
GameEnds == <>(game.phase = "game-over")

-----------------------------------------------------------------------------
(***************************************************************************)
(* A match is the abstract one: the turn goes round the table past those   *)
(* who are out and skips nobody else, the opening lasts until its Jokers   *)
(* are placed, a turn takes at most one player out, and the match is over  *)
(* exactly when one player is left.                                        *)
(***************************************************************************)
Stage(g) ==
  CASE g.phase = "starter-place" -> "opening"
    [] g.phase = "game-over"     -> "over"
    [] OTHER                     -> "turns"

Unplaced(g) ==
  {p \in Player : g.phase # "game-over" /\ g.pendingJokers[p] # <<>>}

Abstract == INSTANCE Match WITH
  stage    <- Stage(game),
  active   <- Player \ game.eliminated,
  turnOf   <- game.current,
  unplaced <- Unplaced(game)

ImplementsMatch == Abstract!Spec

(***************************************************************************)
(* What the room may count on: every move, forfeit and timeout changes     *)
(* what the room knows of a match as MatchSteps says of that call.  A move *)
(* takes one player out at most, a forfeit nobody but who gives up, the    *)
(* deadline of the opening all who are late and nobody else.  (A timeout   *)
(* after the opening is a forfeit of the player whose turn it is.)         *)
(***************************************************************************)
Seen(g) ==
  [stage |-> Stage(g), active |-> Player \ g.eliminated,
   turn |-> IF g.phase = "game-over" THEN g.winner ELSE g.current,
   unplaced |-> Unplaced(g)]

Moves(g, h) ==
  IF g.stage = "opening" THEN \E p \in g.unplaced : h \in AfterPlacing(g, p)
  ELSE h \in AfterMove(g)

RoomSeesTheMatch ==
  /\ Seen(game) \in NewMatches(Player)
  /\ [](Stage(game) # "over" =>
          \A p \in Player \ game.eliminated :
            Seen(ForfeitPlayer(game, p)) \in AfterOut(Seen(game), {p}))
  /\ [](Stage(game) = "opening" =>
          Seen(StartingJokersTimeout) \in AfterTimeout(Seen(game)))
  /\ [][Moves(Seen(game), Seen(game')) \/ ~ Move]_vars
=============================================================================
