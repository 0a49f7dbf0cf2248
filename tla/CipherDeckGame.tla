---------------------------- MODULE CipherDeckGame ----------------------------
(***************************************************************************)
(* The authoritative rules engine (shared/src/game.ts): one match from the *)
(* deal to the last player with a hidden card.  The engine is a set of     *)
(* pure functions on GameState that throw a RuleViolation when a move is   *)
(* illegal; here the state is the variable game, each exported function is *)
(* an action, and each condition that throws is the action's guard.        *)
(*                                                                         *)
(* An operator F_Xyz that stands before F is F with a bug a programmer     *)
(* might have written; the README says which property each one breaks.     *)
(***************************************************************************)
EXTENDS OpeningDeal

CONSTANTS DrawRounds,   \* draws reserved for every player, one to eight
          MaxHand,      \* cap on the base hand size, 8 in the code
          Openings,     \* the results of the starting selection to deal from
          JokerGuess,   \* the guess that names a Joker; the others are keys
          NoCard, NoPlayer

(***************************************************************************)
(* computeInitialHandSizes: the base hand, which must be at least two.     *)
(***************************************************************************)
BaseHand ==
  LET fits == (Cardinality(Card) - DrawRounds * NumPlayers) \div NumPlayers
  IN  IF fits < MaxHand THEN fits ELSE MaxHand

ASSUME GameAssumption ==
  /\ NumPlayers \in 3..6
  /\ DrawRounds \in 1..8
  /\ MaxHand \in Nat
  /\ BaseHand >= 2
  /\ \A o \in Openings : IsOpening(o)
  /\ NoCard \notin Card
  /\ NoPlayer \notin Player
  /\ JokerGuess \notin Nat

Guesses == {Value[c] : c \in Standard} \cup {JokerGuess}

TurnPhase == {"starter-place", "draw", "guess", "place", "penalty-place",
              "self-penalty", "game-over"}

VARIABLE game

vars == game

(***************************************************************************)
(* GameState.  revealed holds the cards whose revealed flag is set, and    *)
(* pendingJokers[p] is pendingStartingJokerCardIdsByPlayer (an absent      *)
(* entry is the empty sequence).  startingCardIds and the turn counter are *)
(* not kept: the engine writes them and never reads them.                  *)
(***************************************************************************)
GameState ==
  [rack : [Player -> Seq(Card)], revealed : SUBSET Card,
   eliminated : SUBSET Player, drawPile : Seq(Card), current : Player,
   phase : TurnPhase, pendingDraw : Card \cup {NoCard},
   drawnCard : Card \cup {NoCard}, correctGuesses : Nat,
   pendingJokers : [Player -> Seq(Card)],
   winner : Player \cup {NoPlayer}]

-----------------------------------------------------------------------------
(***************************************************************************)
(* The deal (createGame).                                                  *)
(***************************************************************************)
HandSize(o, p) ==
  LET offset == (p - o.starter + NumPlayers) % NumPlayers
  IN  CASE offset = 0              -> BaseHand + 1
        [] offset = NumPlayers - 1 -> BaseHand - 1
        [] OTHER                   -> BaseHand

\* The deals made up to player p's r-th card: the loop goes round the table,
\* skipping the players whose hand (without the starting card) is full.
DealtUpTo(o, p, r) ==
  {d \in Player \X (1..BaseHand) :
     /\ d[2] < HandSize(o, d[1])
     /\ d[2] < r \/ (d[2] = r /\ d[1] <= p)}

DealtRack(o, p) ==
  [r \in 1..(HandSize(o, p) - 1) |-> o.deck[Cardinality(DealtUpTo(o, p, r))]]

NumDealt(o) == Cardinality(DealtUpTo(o, NumPlayers - 1, BaseHand))

\* A starting Joker goes to the end, a standard card to its first legal slot.
OpeningRack(o, p) ==
  LET rack == SortRackKeepingJokers(DealtRack(o, p))
      card == o.starting[p]
      slot == IF card \in Joker THEN Len(rack)
              ELSE CHOOSE i \in ValidInsertionIndexes(rack, card) :
                     \A j \in ValidInsertionIndexes(rack, card) : i <= j
  IN  InsertCard(rack, card, slot)

CreateGame(o) ==
  LET racks  == [p \in Player |-> OpeningRack(o, p)]
      jokers == [p \in Player |-> Filter(racks[p], Joker)]
  IN  [rack |-> racks,
       revealed |-> {o.starting[p] : p \in Player},
       eliminated |-> {},
       drawPile |-> SubSeq(o.deck, NumDealt(o) + 1, Len(o.deck)),
       current |-> o.starter,
       phase |-> IF \E p \in Player : jokers[p] # <<>>
                 THEN "starter-place" ELSE "draw",
       pendingDraw |-> NoCard,
       drawnCard |-> NoCard,
       correctGuesses |-> 0,
       pendingJokers |-> jokers,
       winner |-> NoPlayer]

Init == \E o \in Openings : game = CreateGame(o)

-----------------------------------------------------------------------------
(***************************************************************************)
(* Helpers of the transitions: functions from a state to a state.          *)
(***************************************************************************)
AllRevealed(g, p) == g.rack[p] # <<>> /\ ToSet(g.rack[p]) \subseteq g.revealed

UpdateEndGame_LastCardToo(g) ==
  LET out    == {p \in Player : AllRevealed(g, p)}
      active == Player \ out
  IN  IF active = {} THEN [g EXCEPT !.eliminated = out, !.phase = "game-over"]
      ELSE [g EXCEPT !.eliminated = out]

UpdateEndGame(g) ==
  LET out    == {p \in Player : AllRevealed(g, p)}
      active == Player \ out
  IN  IF Cardinality(active) <= 1
      THEN [g EXCEPT !.eliminated = out,
                     !.phase = "game-over",
                     !.winner = IF active = {} THEN NoPlayer
                                ELSE CHOOSE p \in active : TRUE]
      ELSE [g EXCEPT !.eliminated = out]

Seat(p, offset) == (p + offset) % NumPlayers

\* The first player after p, p itself last, who is not eliminated.
NextActive_Neighbor(g, p) == Seat(p, 1)

NextActive_Backwards(g, p) ==
  LET next == CHOOSE k \in 1..NumPlayers :
                /\ Seat(p, k) \notin g.eliminated
                /\ \A j \in (k + 1)..(NumPlayers - 1) : Seat(p, j) \in g.eliminated
  IN  Seat(p, next)

NextActive(g, p) ==
  LET next == CHOOSE k \in 1..NumPlayers :
                /\ Seat(p, k) \notin g.eliminated
                /\ \A j \in 1..(k - 1) : Seat(p, j) \in g.eliminated
  IN  Seat(p, next)

AdvanceTurn_AlwaysDraw(g) ==
  [g EXCEPT !.current = NextActive(g, g.current), !.phase = "draw",
            !.drawnCard = NoCard, !.pendingDraw = NoCard,
            !.correctGuesses = 0]

AdvanceTurn(g) ==
  IF Player \subseteq g.eliminated THEN UpdateEndGame(g)
  ELSE [g EXCEPT !.current = NextActive(g, g.current),
                 !.phase = IF g.drawPile # <<>> THEN "draw" ELSE "guess",
                 !.drawnCard = NoCard,
                 !.pendingDraw = NoCard,
                 !.correctGuesses = 0]

\* What ends every action that finishes a turn.
EndTurn_NoEndGame(g) == AdvanceTurn(g)

EndTurn(g) ==
  LET updated == UpdateEndGame(g)
  IN  IF updated.phase = "game-over" THEN updated ELSE AdvanceTurn(updated)

HasPendingStartingJokerPlacements(g) ==
  \E p \in Player : g.pendingJokers[p] # <<>>

\* A forfeiting player's drawn card joins the rack before it is revealed.
HasDrawn(g, p) == p = g.current /\ g.pendingDraw # NoCard

RackWithDrawnCard_Forgets(g, p) == g.rack[p]

RackWithDrawnCard_Unsorted(g, p) ==
  IF HasDrawn(g, p) THEN Append(g.rack[p], g.pendingDraw) ELSE g.rack[p]

RackWithDrawnCard(g, p) ==
  IF HasDrawn(g, p)
  THEN SortRackKeepingJokers(Append(g.rack[p], g.pendingDraw))
  ELSE g.rack[p]

JokersAfterForfeit_Kept(g, p) == g.pendingJokers

JokersAfterForfeit(g, p) ==
  IF g.phase = "starter-place" THEN [g.pendingJokers EXCEPT ![p] = <<>>]
  ELSE g.pendingJokers

ForfeitPlayer(g, p) ==
  LET rack    == RackWithDrawnCard(g, p)
      shown   == [g EXCEPT
                    !.rack[p] = rack,
                    !.revealed = @ \cup ToSet(rack),
                    !.pendingDraw = IF HasDrawn(g, p) THEN NoCard ELSE @,
                    !.drawnCard = IF HasDrawn(g, p) THEN g.pendingDraw ELSE @,
                    !.pendingJokers = JokersAfterForfeit(g, p)]
      updated == UpdateEndGame(shown)
  IN  IF updated.phase = "game-over" THEN updated
      ELSE IF g.phase = "starter-place"
      THEN [updated EXCEPT
              !.current = IF p = g.current THEN NextActive(updated, p) ELSE @,
              !.phase = IF HasPendingStartingJokerPlacements(updated)
                        THEN "starter-place" ELSE "draw"]
      ELSE IF p = g.current THEN AdvanceTurn(updated) ELSE updated

-----------------------------------------------------------------------------
(***************************************************************************)
(* The moves of the active player.                                         *)
(***************************************************************************)
\* assertActor
IsActor(p) ==
  /\ game.phase # "game-over"
  /\ p = game.current
  /\ p \notin game.eliminated

DrawCard(p) ==
  /\ IsActor(p)
  /\ game.phase = "draw"
  /\ game.drawPile # <<>>
  /\ game' = [game EXCEPT !.drawPile = Tail(@),
                          !.pendingDraw = Head(game.drawPile),
                          !.drawnCard = Head(game.drawPile),
                          !.correctGuesses = 0,
                          !.phase = "guess"]

StopGuessingAndPlace(p) ==
  /\ IsActor(p)
  /\ game.phase = "guess"
  /\ game.pendingDraw # NoCard
  /\ game.correctGuesses >= 1
  /\ game' = [game EXCEPT !.phase = "place"]

InsertDrawnCard(p, index) ==
  /\ IsActor(p)
  /\ game.phase \in {"place", "penalty-place"}
  /\ game.pendingDraw # NoCard
  /\ index \in ValidInsertionIndexes(game.rack[p], game.pendingDraw)
  /\ game' = EndTurn([game EXCEPT
                        !.rack[p] = InsertCard(@, game.pendingDraw, index),
                        !.pendingDraw = NoCard,
                        !.drawnCard = game.pendingDraw])

GuessIsCorrect(card, guess) ==
  IF card \in Joker THEN guess = JokerGuess ELSE guess = Value[card]

GuessTarget(p, target, card) ==
  /\ target # p
  /\ target \notin game.eliminated
  /\ card \in ToSet(game.rack[target]) \ game.revealed

\* A correct guess reveals the card; with a card drawn the player may go on,
\* without one the turn passes.
AfterCorrectGuess(card) ==
  LET shown   == [game EXCEPT !.revealed = @ \cup {card}]
      updated == UpdateEndGame(shown)
  IN  IF game.pendingDraw = NoCard THEN EndTurn(shown)
      ELSE IF updated.phase = "game-over" THEN updated
      ELSE [updated EXCEPT !.correctGuesses = @ + 1]

AfterWrongGuess_FaceDown ==
  [game EXCEPT !.phase = IF game.pendingDraw = NoCard THEN "self-penalty"
                         ELSE "penalty-place"]

AfterWrongGuess_NoPenalty ==
  IF game.pendingDraw = NoCard THEN AdvanceTurn(game)
  ELSE [game EXCEPT !.revealed = @ \cup {game.pendingDraw},
                    !.phase = "penalty-place"]

AfterWrongGuess ==
  IF game.pendingDraw = NoCard THEN [game EXCEPT !.phase = "self-penalty"]
  ELSE [game EXCEPT !.revealed = @ \cup {game.pendingDraw},
                    !.phase = "penalty-place"]

ResolveGuess(p, target, card, guess) ==
  /\ IsActor(p)
  /\ game.phase = "guess"
  /\ GuessTarget(p, target, card)
  /\ game' = IF GuessIsCorrect(card, guess) THEN AfterCorrectGuess(card)
             ELSE AfterWrongGuess

RevealSelfPenalty(p, card) ==
  /\ IsActor(p)
  /\ game.phase = "self-penalty"
  /\ game.pendingDraw = NoCard
  /\ card \in ToSet(game.rack[p]) \ game.revealed
  /\ game' = EndTurn([game EXCEPT !.revealed = @ \cup {card}])

-----------------------------------------------------------------------------
(***************************************************************************)
(* Moves out of turn: opening Jokers, forfeits, and the action timer.      *)
(***************************************************************************)
\* The Jokers a player has not placed stay behind the cards already in order.
PlacedCards(p) ==
  Filter(game.rack[p], Card \ ToSet(game.pendingJokers[p]))

RackAfterPlacing_DropsOthers(p, index) ==
  InsertCard(PlacedCards(p), Head(game.pendingJokers[p]), index)

RackAfterPlacing(p, index) ==
  InsertCard(PlacedCards(p), Head(game.pendingJokers[p]), index)
    \o Filter(game.rack[p], ToSet(Tail(game.pendingJokers[p])))

PlaceStartingJoker(p, index) ==
  /\ game.phase = "starter-place"
  /\ game.pendingJokers[p] # <<>>
  /\ index \in ValidInsertionIndexes(PlacedCards(p), Head(game.pendingJokers[p]))
  /\ LET after == [game EXCEPT !.rack[p] = RackAfterPlacing(p, index),
                               !.pendingJokers[p] = Tail(@)]
     IN  game' = IF HasPendingStartingJokerPlacements(after) THEN after
                 ELSE [after EXCEPT !.phase = "draw"]

\* A player who leaves, or who does not reconnect in time.
Forfeit_AfterTheEnd(p) ==
  /\ p \notin game.eliminated
  /\ game' = ForfeitPlayer(game, p)

Forfeit(p) ==
  /\ game.phase # "game-over"
  /\ p \notin game.eliminated
  /\ game' = ForfeitPlayer(game, p)

\* resolveTurnTimeout's loop over the owners of unplaced Jokers, of which
\* there are at most six.
TimeoutStep_OnTurnOnly(g, p) ==
  IF g.phase # "starter-place" \/ p # g.current THEN g ELSE ForfeitPlayer(g, p)

TimeoutStep(g, p) ==
  IF \/ p \notin Player
     \/ g.phase = "game-over"
     \/ g.pendingJokers[p] = <<>>
     \/ p \in g.eliminated
  THEN g ELSE ForfeitPlayer(g, p)

StartingJokersTimeout ==
  LET t0 == TimeoutStep(game, 0)  t1 == TimeoutStep(t0, 1)
      t2 == TimeoutStep(t1, 2)    t3 == TimeoutStep(t2, 3)
      t4 == TimeoutStep(t3, 4)
  IN  TimeoutStep(t4, 5)

ResolveTurnTimeout ==
  /\ game.phase # "game-over"
  /\ \/ /\ game.phase = "starter-place"
        /\ game' = StartingJokersTimeout
     \/ /\ game.phase # "starter-place"
        /\ game.current \notin game.eliminated
        /\ game' = ForfeitPlayer(game, game.current)

-----------------------------------------------------------------------------
Move ==
  \E p \in Player :
     \/ DrawCard(p)
     \/ StopGuessingAndPlace(p)
     \/ \E index \in 0..Len(game.rack[p]) :
           InsertDrawnCard(p, index) \/ PlaceStartingJoker(p, index)
     \/ \E target \in Player, card \in Card, guess \in Guesses :
           ResolveGuess(p, target, card, guess)
     \/ \E card \in Card : RevealSelfPenalty(p, card)

Next ==
  \/ Move
  \/ \E p \in Player : Forfeit(p)
  \/ ResolveTurnTimeout

Spec == Init /\ [][Next]_vars

(***************************************************************************)
(* With the action timer on, the room's deadline (turnTimer of             *)
(* CipherDeckRoom) fires for whoever does not act; no move is assumed.     *)
(***************************************************************************)
TimedSpec == Spec /\ WF_vars(ResolveTurnTimeout)
=============================================================================
