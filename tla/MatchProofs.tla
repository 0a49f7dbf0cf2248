------------------------------ MODULE MatchProofs ------------------------------
(***************************************************************************)
(* What a step of a match does: nothing is taken back, every step is       *)
(* progress, and a match of CipherDeckGame is one of Match.  The steps are *)
(* first put into a few kinds by their effect (Drawn, Guessed, Placed,     *)
(* Turned, Opened), and the properties are then proved of each kind.       *)
(***************************************************************************)
EXTENDS GameProofs, BotGuesses

Out(g) == {p \in Player : AllRevealed(g, p)}

\* Those who are out are known to be.
Exact(g) == g.eliminated = Out(g)

Over(g) == g.phase = "game-over"

In(g) == Player \ g.eliminated

\* The turn stays, or passes over those who are out.
TurnPasses(g, h) ==
  \/ h.current = g.current
  \/ Abstract!Follows(g.current, h.current, In(h))

-----------------------------------------------------------------------------
(***************************************************************************)
(* The kinds of steps.                                                     *)
(***************************************************************************)
\* The fields no step of a kind changes.
SameTable(g, h) ==
  /\ h.eliminated = g.eliminated /\ h.current = g.current
  /\ \A q \in Player : ToSet(h.rack[q]) = ToSet(g.rack[q])
  /\ \A q \in Player : ToSet(g.rack[q]) \cap h.revealed \subseteq g.revealed

\* A card is drawn.
Drawn(g, h) ==
  /\ SameTable(g, h)
  /\ h.revealed = g.revealed /\ h.pendingJokers = g.pendingJokers
  /\ g.phase = "draw" /\ h.phase = "guess"
  /\ g.pendingDraw = NoCard
  /\ g.drawPile # <<>> /\ h.drawPile = Tail(g.drawPile)

\* Guessing is over, and the turn is not.
Guessed(g, h) ==
  /\ SameTable(g, h)
  /\ g.revealed \subseteq h.revealed /\ h.pendingJokers = g.pendingJokers
  /\ g.phase = "guess" /\ h.phase \in {"place", "penalty-place", "self-penalty"}
  /\ h.pendingDraw = g.pendingDraw /\ h.drawPile = g.drawPile

\* p places an opening Joker.
Placed(g, h, p) ==
  /\ SameTable(g, h)
  /\ h.revealed = g.revealed
  /\ g.pendingJokers[p] # <<>>
  /\ h.pendingJokers = [g.pendingJokers EXCEPT ![p] = Tail(@)]
  /\ g.phase = "starter-place"
  /\ h.phase = IF HasPendingStartingJokerPlacements(h) THEN "starter-place" ELSE "draw"
  /\ h.pendingDraw = g.pendingDraw /\ h.drawPile = g.drawPile

\* Cards of one player alone are turned, or join the rack.
Reveals(g, h, who) ==
  /\ g.revealed \subseteq h.revealed
  /\ ToSet(g.rack[who]) \subseteq ToSet(h.rack[who])
  /\ \A q \in Player \ {who} :
       /\ ToSet(h.rack[q]) = ToSet(g.rack[q])
       /\ ToSet(g.rack[q]) \cap h.revealed \subseteq g.revealed

\* The card on the table goes into the rack of the player who drew it, or
\* stays.
TableKept(g, h) ==
  \/ h.pendingDraw = g.pendingDraw
  \/ h.pendingDraw = NoCard /\ g.pendingDraw \in ToSet(h.rack[g.current])

\* A move or a forfeit in a turn, which touches the player who.
Turned(g, h, who) ==
  /\ ~ Over(g) /\ g.phase # "starter-place" /\ h.phase # "starter-place"
  /\ who \notin g.eliminated
  /\ Reveals(g, h, who)
  /\ Exact(h)
  /\ h.pendingJokers = g.pendingJokers /\ h.drawPile = g.drawPile
  /\ TableKept(g, h)
  /\ ~ Over(h) => TurnPasses(g, h)
  /\ \/ h.pendingDraw # g.pendingDraw
     \/ \E c \in Card : c \in h.revealed \ g.revealed
     \/ who \in h.eliminated

\* Forfeits before turn one, of those who are out by them.
Opened(g, h) ==
  /\ g.phase = "starter-place"
  /\ g.revealed \subseteq h.revealed /\ g.eliminated \subseteq h.eliminated
  /\ h.pendingDraw = g.pendingDraw /\ h.drawPile = g.drawPile
  /\ \A q \in Player : h.pendingJokers[q] \in {g.pendingJokers[q], <<>>}
  /\ ~ Over(h) =>
       /\ h.phase = IF HasPendingStartingJokerPlacements(h) THEN "starter-place" ELSE "draw"
       /\ \A q \in Player :
            h.pendingJokers[q] = IF q \in h.eliminated \ g.eliminated THEN <<>>
                                 ELSE g.pendingJokers[q]
       /\ TurnPasses(g, h)
       /\ g.current \in In(h) => h.current = g.current

\* What every step of a match does.
Effect(g, h) ==
  \/ Drawn(g, h) \/ Guessed(g, h)
  \/ \E p \in Player : Placed(g, h, p) \/ Turned(g, h, p)
  \/ Opened(g, h) /\ Exact(h) /\ h.eliminated # g.eliminated

-----------------------------------------------------------------------------
(***************************************************************************)
(* The ends of turns.                                                      *)
(***************************************************************************)
LEMMA NextActiveFollows ==
  ASSUME NEW g, NEW p \in Player, NEW q \in Player, q \notin g.eliminated
  PROVE  /\ NextActive(g, p) \in Player
         /\ Abstract!Follows(p, NextActive(g, p), In(g))
BY NextActiveIs DEF Abstract!Follows, Seat, In

\* What EndTurn does once some player is still in.
LEMMA EndTurnEffect ==
  ASSUME NEW g \in GameState, ~ Over(g), g.winner = NoPlayer,
         \E p \in Player : Hidden(g, p)
  PROVE  LET e == EndTurn(g)
         IN  /\ e.rack = g.rack /\ e.revealed = g.revealed
             /\ e.drawPile = g.drawPile /\ e.pendingJokers = g.pendingJokers
             /\ Exact(e)
             /\ IF Over(e) THEN e.pendingDraw = g.pendingDraw
                ELSE /\ e.pendingDraw = NoCard
                     /\ e.phase \in {"draw", "guess"}
                     /\ Abstract!Follows(g.current, e.current, In(e))
<1> DEFINE u == UpdateEndGame(g)
           a == AdvanceTurn(u)
           e == EndTurn(g)
<1>1. /\ u \in GameState
      /\ SameCards(g, u)
      /\ u.current = g.current
      /\ u.eliminated = Out(g)
      /\ \/ Over(u) /\ PlayersFit(u)
         \/ u.phase = g.phase /\ u.winner = NoPlayer /\ TwoHidden(u)
  BY UpdateEndGameFacts DEF Over, Out
<1>2. e = IF Over(u) THEN u ELSE a
  BY DEF EndTurn, Over
<1> HIDE DEF u, e
<1>3. \A p \in Player : AllRevealed(u, p) <=> AllRevealed(g, p)
  BY <1>1, SameCardsFit
<1>4. CASE Over(u)
  BY <1>1, <1>2, <1>3, <1>4 DEF SameCards, Exact, Out, e
<1>5. CASE ~ Over(u)
  <2>1. TwoHidden(u) /\ g.current \in Player
    BY <1>1, <1>5, StateParts
  <2>2. PICK q \in Player : q \notin u.eliminated
    BY <1>1, <1>3, <2>1 DEF TwoHidden, Hidden, Out
  <2>3. /\ a.rack = u.rack /\ a.revealed = u.revealed
        /\ a.drawPile = u.drawPile /\ a.pendingJokers = u.pendingJokers
        /\ a.eliminated = u.eliminated /\ a.pendingDraw = NoCard
        /\ a.phase \in {"draw", "guess"}
    BY <1>1, <2>2, AdvanceTurnFacts
  <2>4. a.current = NextActive(u, u.current)
    <3>1. ~ (Player \subseteq u.eliminated)
      BY <2>2
    <3> HIDE DEF Player
    <3> QED
      BY <1>1, <3>1 DEF AdvanceTurn, GameState
  <2> HIDE DEF a
  <2>5. Abstract!Follows(g.current, a.current, In(a))
    <3>1. In(a) = In(u) /\ a.current = NextActive(u, g.current)
      BY <1>1, <2>3, <2>4 DEF In
    <3>2. Abstract!Follows(g.current, NextActive(u, g.current), In(u))
      BY <2>1, <2>2, NextActiveFollows
    <3> QED
      BY <3>1, <3>2
  <2>6. Exact(a)
    BY <1>1, <2>3 DEF SameCards, Exact, Out, AllRevealed
  <2>7. e = a
    BY <1>2, <1>5
  <2> QED
    BY <1>1, <2>3, <2>5, <2>6, <2>7 DEF SameCards, e, Over
<1> QED
  BY <1>4, <1>5

-----------------------------------------------------------------------------
(***************************************************************************)
(* The effect of every action.                                             *)
(***************************************************************************)
LEMMA DrawEffect ==
  ASSUME Safe(game), NEW p \in Player, DrawCard(p)
  PROVE  Drawn(game, game')
<1>1. game \in GameState /\ PhaseFits(game)
  BY DEF Safe
<1>2. /\ game.phase = "draw" /\ game.drawPile # <<>>
      /\ game' = [game EXCEPT !.drawPile = Tail(game.drawPile),
                              !.pendingDraw = Head(game.drawPile),
                              !.drawnCard = Head(game.drawPile),
                              !.correctGuesses = 0, !.phase = "guess"]
  BY DEF DrawCard
<1>3. /\ game'.drawPile = Tail(game.drawPile) /\ game'.phase = "guess"
      /\ game'.rack = game.rack /\ game'.revealed = game.revealed
      /\ game'.eliminated = game.eliminated /\ game'.current = game.current
      /\ game'.pendingJokers = game.pendingJokers
  BY <1>1, <1>2 DEF GameState
<1>4. game.pendingDraw = NoCard
  BY <1>1, <1>2 DEF PhaseFits, DrawFits
<1> QED
  BY <1>2, <1>3, <1>4 DEF Drawn, SameTable

LEMMA StopEffect ==
  ASSUME Safe(game), NEW p \in Player, StopGuessingAndPlace(p)
  PROVE  Guessed(game, game')
<1>1. game \in GameState
  BY DEF Safe
<1>2. game.phase = "guess" /\ game' = [game EXCEPT !.phase = "place"]
  BY DEF StopGuessingAndPlace
<1>3. /\ game'.drawPile = game.drawPile /\ game'.phase = "place"
      /\ game'.rack = game.rack /\ game'.revealed = game.revealed
      /\ game'.eliminated = game.eliminated /\ game'.current = game.current
      /\ game'.pendingJokers = game.pendingJokers /\ game'.pendingDraw = game.pendingDraw
  BY <1>1, <1>2 DEF GameState
<1> QED
  BY <1>2, <1>3 DEF Guessed, SameTable

LEMMA WrongGuessEffect ==
  ASSUME Safe(game), game.phase = "guess", game' = AfterWrongGuess
  PROVE  Guessed(game, game')
<1>1. game \in GameState /\ CardsFit(game)
  BY DEF Safe
<1>2. CASE game.pendingDraw = NoCard
  <2>1. game' = [game EXCEPT !.phase = "self-penalty"]
    BY <1>2 DEF AfterWrongGuess
  <2>2. /\ game'.drawPile = game.drawPile /\ game'.phase = "self-penalty"
        /\ game'.rack = game.rack /\ game'.revealed = game.revealed
        /\ game'.eliminated = game.eliminated /\ game'.current = game.current
        /\ game'.pendingJokers = game.pendingJokers /\ game'.pendingDraw = game.pendingDraw
    BY <1>1, <2>1 DEF GameState
  <2> QED
    BY <2>2 DEF Guessed, SameTable
<1>3. CASE game.pendingDraw # NoCard
  <2>1. game' = [game EXCEPT !.revealed = @ \cup {game.pendingDraw},
                             !.phase = "penalty-place"]
    BY <1>3 DEF AfterWrongGuess
  <2>2. /\ game'.drawPile = game.drawPile /\ game'.phase = "penalty-place"
        /\ game'.rack = game.rack /\ game'.revealed = game.revealed \cup {game.pendingDraw}
        /\ game'.eliminated = game.eliminated /\ game'.current = game.current
        /\ game'.pendingJokers = game.pendingJokers /\ game'.pendingDraw = game.pendingDraw
    BY <1>1, <2>1 DEF GameState
  <2>3. \A q \in Player : game.pendingDraw \notin ToSet(game.rack[q])
    BY <1>1, <1>3, ConservedParts DEF CardsFit, Table
  <2> QED
    BY <2>2, <2>3 DEF Guessed, SameTable
<1> QED
  BY <1>2, <1>3

LEMMA InsertEffect ==
  ASSUME Safe(game), NEW p \in Player, NEW index, InsertDrawnCard(p, index)
  PROVE  Turned(game, game', p)
<1> DEFINE card == game.pendingDraw
           rack == InsertCard(game.rack[p], card, index)
           h == [game EXCEPT !.rack[p] = rack, !.pendingDraw = NoCard,
                             !.drawnCard = card]
<1>0. game \in GameState /\ CardsFit(game) /\ PlayersFit(game) /\ PhaseFits(game)
  BY DEF Safe
<1>1. /\ game.phase \in {"place", "penalty-place"} /\ card # NoCard
      /\ index \in 0..Len(game.rack[p]) /\ p = game.current /\ p \notin game.eliminated
      /\ game' = EndTurn(h)
  BY <1>0 DEF InsertDrawnCard, ValidInsertionIndexes, GameState, IsActor
<1>2. card \in Card /\ game.rack[p] \in Seq(Card)
  BY <1>0, <1>1, StateParts
<1>3. rack \in Seq(Card) /\ ToSet(rack) = ToSet(game.rack[p]) \cup {card}
  BY <1>1, <1>2, InsertFacts
<1> HIDE DEF rack
<1>4. /\ h.rack = [game.rack EXCEPT ![p] = rack] /\ h.revealed = game.revealed
      /\ h.drawPile = game.drawPile /\ h.pendingDraw = NoCard
      /\ h.pendingJokers = game.pendingJokers /\ h.phase = game.phase
      /\ h.winner = game.winner /\ h.current = game.current
  BY <1>0 DEF GameState
<1>5. h \in GameState
  BY <1>0, <1>1, <1>2, <1>3 DEF GameState
<1> HIDE DEF h, card
<1>6. \E q \in Player : Hidden(h, q)
  <2>1. PICK q \in Player : q # p /\ Hidden(game, q)
    BY <1>0, <1>1, AnotherHidden DEF PlayersFit
  <2>2. h.rack[q] = game.rack[q]
    BY <1>0, <1>4, <2>1, StateParts
  <2> QED
    BY <1>4, <2>1, <2>2 DEF Hidden, AllRevealed
<1>7. h.winner = NoPlayer /\ ~ Over(h)
  BY <1>0, <1>1, <1>4 DEF PlayersFit, Over
<1>8. /\ game'.rack = h.rack /\ game'.revealed = h.revealed
      /\ game'.drawPile = h.drawPile /\ game'.pendingJokers = h.pendingJokers
      /\ Exact(game')
      /\ IF Over(game') THEN game'.pendingDraw = h.pendingDraw
         ELSE /\ game'.pendingDraw = NoCard
              /\ game'.phase \in {"draw", "guess"}
              /\ Abstract!Follows(h.current, game'.current, In(game'))
  BY <1>1, <1>5, <1>6, <1>7, EndTurnEffect
<1>9. /\ \A q \in Player \ {p} : game'.rack[q] = game.rack[q]
      /\ ToSet(game'.rack[p]) = ToSet(game.rack[p]) \cup {card}
  BY <1>0, <1>3, <1>4, <1>8, StateParts
<1>10. Reveals(game, game', p)
  BY <1>4, <1>8, <1>9 DEF Reveals
<1>11. game'.pendingDraw = NoCard /\ card \in ToSet(game'.rack[game.current])
  BY <1>1, <1>4, <1>8, <1>9
<1>12. ~ Over(game') => TurnPasses(game, game')
  BY <1>4, <1>8 DEF TurnPasses
<1>13. game'.phase # "starter-place"
  BY <1>8 DEF Over
<1> QED
  BY <1>1, <1>4, <1>8, <1>10, <1>11, <1>12, <1>13 DEF Turned, TableKept, Over, card

\* Turning one card of one player, and what is said of the other fields.
LEMMA OneCardShown ==
  ASSUME Safe(game), NEW who \in Player, NEW card \in ToSet(game.rack[who]),
         card \notin game.revealed, ~ Over(game), game.phase # "starter-place",
         \E q \in Player : q # who /\ Hidden(game, q),
         NEW h, h.rack = game.rack, h.revealed = game.revealed \cup {card}
  PROVE  /\ Reveals(game, h, who)
         /\ \E c \in Card : c \in h.revealed \ game.revealed
         /\ \E q \in Player : Hidden(h, q)
<1>1. /\ card \in Card
      /\ \A q \in Player : q # who => card \notin ToSet(game.rack[q])
  BY RackCard DEF Safe
<1> QED
  BY <1>1 DEF Reveals, Hidden, AllRevealed

LEMMA CorrectGuessEffect ==
  ASSUME Safe(game), game.phase = "guess",
         NEW target \in Player, target # game.current, target \notin game.eliminated,
         NEW card \in ToSet(game.rack[target]), card \notin game.revealed,
         game' = AfterCorrectGuess(card)
  PROVE  Turned(game, game', target)
<1> DEFINE shown == Shown(game, {card})
           u == UpdateEndGame(shown)
           more == [u EXCEPT !.correctGuesses = @ + 1]
<1>0. game \in GameState /\ CardsFit(game) /\ PlayersFit(game) /\ PhaseFits(game)
  BY DEF Safe
<1>1. card \in Card
  BY <1>0, RackCard
<1>2. /\ shown \in GameState
      /\ shown.rack = game.rack /\ shown.revealed = game.revealed \cup {card}
      /\ shown.drawPile = game.drawPile /\ shown.pendingDraw = game.pendingDraw
      /\ shown.pendingJokers = game.pendingJokers /\ shown.phase = game.phase
      /\ shown.winner = game.winner /\ shown.current = game.current
  BY <1>0, <1>1 DEF Shown, GameState
<1>3. game' = IF game.pendingDraw = NoCard THEN EndTurn(shown)
              ELSE IF Over(u) THEN u ELSE more
  BY DEF AfterCorrectGuess, Shown, Over
<1> HIDE DEF shown
<1>4. ~ Over(game) /\ game.phase # "starter-place"
      /\ \E q \in Player : q # target /\ Hidden(game, q)
  BY <1>0, StateParts DEF Over, PlayersFit
<1>5. /\ Reveals(game, shown, target)
      /\ \E c \in Card : c \in shown.revealed \ game.revealed
      /\ \E q \in Player : Hidden(shown, q)
  BY <1>2, <1>4, OneCardShown
<1>6. shown.winner = NoPlayer /\ ~ Over(shown)
  BY <1>0, <1>2, <1>4 DEF PlayersFit, Over
<1>7. /\ game'.rack = shown.rack /\ game'.revealed = shown.revealed
      /\ game'.drawPile = shown.drawPile /\ game'.pendingJokers = shown.pendingJokers
      /\ game'.pendingDraw = game.pendingDraw
      /\ Exact(game')
      /\ ~ Over(game') => game'.phase \in {"draw", "guess"} /\ TurnPasses(game, game')
  <2>1. CASE game.pendingDraw = NoCard
    <3>1. /\ game'.rack = shown.rack /\ game'.revealed = shown.revealed
          /\ game'.drawPile = shown.drawPile /\ game'.pendingJokers = shown.pendingJokers
          /\ Exact(game')
          /\ IF Over(game') THEN game'.pendingDraw = shown.pendingDraw
             ELSE /\ game'.pendingDraw = NoCard
                  /\ game'.phase \in {"draw", "guess"}
                  /\ Abstract!Follows(shown.current, game'.current, In(game'))
      BY <1>2, <1>3, <1>5, <1>6, <2>1, EndTurnEffect
    <3> QED
      BY <1>2, <2>1, <3>1 DEF TurnPasses
  <2>2. CASE game.pendingDraw # NoCard
    <3>1. /\ u \in GameState
          /\ SameCards(shown, u)
          /\ u.current = shown.current
          /\ u.eliminated = Out(shown)
          /\ \/ Over(u) /\ PlayersFit(u)
             \/ u.phase = shown.phase /\ u.winner = NoPlayer /\ TwoHidden(u)
      BY <1>2, <1>5, <1>6, UpdateEndGameFacts DEF Over, Out
    <3>2. game' = u \/ game' = more
      BY <1>3, <2>2
    <3> HIDE DEF u
    <3>3. /\ SameCards(u, game') /\ game'.phase = u.phase
          /\ game'.eliminated = u.eliminated /\ game'.current = u.current
      BY <3>1, <3>2 DEF GameState, SameCards
    <3>4. Exact(game')
      BY <3>1, <3>3 DEF SameCards, Exact, Out, AllRevealed
    <3>5. ~ Over(game') => game'.phase = "guess" /\ TurnPasses(game, game')
      BY <1>2, <3>1, <3>3 DEF Over, TurnPasses
    <3> QED
      BY <1>2, <3>1, <3>3, <3>4, <3>5 DEF SameCards
  <2> QED
    BY <2>1, <2>2
<1>8. Reveals(game, game', target)
      /\ \E c \in Card : c \in game'.revealed \ game.revealed
  BY <1>5, <1>7 DEF Reveals
<1>9. game'.phase # "starter-place"
  BY <1>7 DEF Over
<1> QED
  BY <1>2, <1>4, <1>7, <1>8, <1>9 DEF Turned, TableKept

LEMMA SelfPenaltyEffect ==
  ASSUME Safe(game), NEW p \in Player, NEW card, RevealSelfPenalty(p, card)
  PROVE  Turned(game, game', p)
<1> DEFINE shown == Shown(game, {card})
<1>0. game \in GameState /\ CardsFit(game) /\ PlayersFit(game) /\ PhaseFits(game)
  BY DEF Safe
<1>1. /\ game.phase = "self-penalty" /\ game.pendingDraw = NoCard
      /\ card \in ToSet(game.rack[p]) /\ card \notin game.revealed
      /\ p = game.current /\ p \notin game.eliminated
      /\ game' = EndTurn(shown)
  BY DEF RevealSelfPenalty, Shown, IsActor
<1>2. card \in Card
  BY <1>0, <1>1, RackCard
<1>3. /\ shown \in GameState
      /\ shown.rack = game.rack /\ shown.revealed = game.revealed \cup {card}
      /\ shown.drawPile = game.drawPile /\ shown.pendingDraw = game.pendingDraw
      /\ shown.pendingJokers = game.pendingJokers /\ shown.phase = game.phase
      /\ shown.winner = game.winner /\ shown.current = game.current
  BY <1>0, <1>2 DEF Shown, GameState
<1> HIDE DEF shown
<1>4. ~ Over(game) /\ game.phase # "starter-place"
      /\ \E q \in Player : q # p /\ Hidden(game, q)
  BY <1>0, <1>1, AnotherHidden DEF Over, PlayersFit
<1>5. /\ Reveals(game, shown, p)
      /\ \E c \in Card : c \in shown.revealed \ game.revealed
      /\ \E q \in Player : Hidden(shown, q)
  BY <1>1, <1>3, <1>4, OneCardShown
<1>6. shown.winner = NoPlayer /\ ~ Over(shown)
  BY <1>0, <1>3, <1>4 DEF PlayersFit, Over
<1>7. /\ game'.rack = shown.rack /\ game'.revealed = shown.revealed
      /\ game'.drawPile = shown.drawPile /\ game'.pendingJokers = shown.pendingJokers
      /\ Exact(game')
      /\ IF Over(game') THEN game'.pendingDraw = shown.pendingDraw
         ELSE /\ game'.pendingDraw = NoCard
              /\ game'.phase \in {"draw", "guess"}
              /\ Abstract!Follows(shown.current, game'.current, In(game'))
  BY <1>1, <1>3, <1>5, <1>6, EndTurnEffect
<1>8. Reveals(game, game', p) /\ \E c \in Card : c \in game'.revealed \ game.revealed
  BY <1>5, <1>7 DEF Reveals
<1>9. game'.pendingDraw = game.pendingDraw /\ game'.phase # "starter-place"
  BY <1>1, <1>3, <1>7 DEF Over
<1>10. ~ Over(game') => TurnPasses(game, game')
  BY <1>3, <1>7 DEF TurnPasses
<1> QED
  BY <1>1, <1>3, <1>4, <1>7, <1>8, <1>9, <1>10 DEF Turned, TableKept

LEMMA PlaceEffect ==
  ASSUME Safe(game), NEW p \in Player, NEW index, PlaceStartingJoker(p, index)
  PROVE  Placed(game, game', p)
<1> DEFINE rack == RackAfterPlacing(p, index)
           rest == Tail(game.pendingJokers[p])
           h == [game EXCEPT !.rack[p] = rack, !.pendingJokers[p] = rest]
           d == [h EXCEPT !.phase = "draw"]
<1>0. game \in GameState /\ CardsFit(game)
  BY DEF Safe
<1>1. /\ game.phase = "starter-place" /\ game.pendingJokers[p] # <<>>
      /\ index \in ValidInsertionIndexes(PlacedCards(p), Head(game.pendingJokers[p]))
      /\ game' = IF HasPendingStartingJokerPlacements(h) THEN h ELSE d
  BY DEF PlaceStartingJoker
<1>2. ToSet(rack) = ToSet(game.rack[p])
  BY <1>0, <1>1, RackAfterPlacingFacts
<1> HIDE DEF rack, rest
<1>3. /\ h.rack = [game.rack EXCEPT ![p] = rack] /\ h.revealed = game.revealed
      /\ h.eliminated = game.eliminated /\ h.current = game.current
      /\ h.drawPile = game.drawPile /\ h.pendingDraw = game.pendingDraw
      /\ h.pendingJokers = [game.pendingJokers EXCEPT ![p] = rest]
      /\ h.phase = game.phase
  BY <1>0 DEF GameState
<1>4. /\ d.rack = h.rack /\ d.revealed = h.revealed
      /\ d.eliminated = h.eliminated /\ d.current = h.current
      /\ d.drawPile = h.drawPile /\ d.pendingDraw = h.pendingDraw
      /\ d.pendingJokers = h.pendingJokers /\ d.phase = "draw"
  BY <1>0 DEF GameState
<1> HIDE DEF h, d
<1>5. /\ game'.rack = [game.rack EXCEPT ![p] = rack] /\ game'.revealed = game.revealed
      /\ game'.eliminated = game.eliminated /\ game'.current = game.current
      /\ game'.drawPile = game.drawPile /\ game'.pendingDraw = game.pendingDraw
      /\ game'.pendingJokers = [game.pendingJokers EXCEPT ![p] = rest]
      /\ game'.phase = IF HasPendingStartingJokerPlacements(h) THEN "starter-place" ELSE "draw"
  BY <1>1, <1>3, <1>4
<1>6. HasPendingStartingJokerPlacements(h) <=> HasPendingStartingJokerPlacements(game')
  BY <1>3, <1>5 DEF HasPendingStartingJokerPlacements
<1>7. \A q \in Player : ToSet(game'.rack[q]) = ToSet(game.rack[q])
  BY <1>0, <1>2, <1>5, StateParts
<1> QED
  BY <1>1, <1>5, <1>6, <1>7 DEF Placed, SameTable, rest

\* The player who forfeits is out, and so are those who were.
LEMMA SurrenderedOut ==
  ASSUME NEW g, Safe(g), NEW p \in Player, ~ Over(g)
  PROVE  /\ p \in Out(Surrendered(g, p))
         /\ g.eliminated \subseteq Out(Surrendered(g, p))
         /\ Reveals(g, Surrendered(g, p), p)
<1> DEFINE rack == RackWithDrawnCard(g, p)
           shown == Surrendered(g, p)
<1>0. g \in GameState /\ CardsFit(g) /\ PlayersFit(g)
  BY DEF Safe
<1>1. /\ shown.rack = [g.rack EXCEPT ![p] = rack]
      /\ shown.revealed = g.revealed \cup ToSet(rack)
      /\ rack # <<>>
  BY SurrenderedFacts DEF Over
<1>2. \A q \in Player : q # p => ToSet(rack) \cap ToSet(g.rack[q]) = {}
  BY SurrenderedFacts DEF Over
<1>3. ToSet(g.rack[p]) \subseteq ToSet(rack)
  BY <1>0, RackWithDrawnCardFacts
<1> HIDE DEF shown, rack
<1>4. shown.rack[p] = rack /\ \A q \in Player : q # p => shown.rack[q] = g.rack[q]
  BY <1>0, <1>1, StateParts
<1>5. g.eliminated \subseteq Player /\ \A q \in g.eliminated : AllRevealed(g, q)
  BY <1>0 DEF PlayersFit, GameState
<1>6. p \in Out(shown) /\ g.eliminated \subseteq Out(shown)
  BY <1>1, <1>4, <1>5 DEF Out, AllRevealed
<1>7. Reveals(g, shown, p)
  BY <1>1, <1>2, <1>3, <1>4 DEF Reveals
<1> QED
  BY <1>6, <1>7 DEF shown

\* A forfeit in a turn.
LEMMA ForfeitTurns ==
  ASSUME NEW g, Safe(g), NEW p \in Player, ~ Over(g), g.phase # "starter-place",
         p \notin g.eliminated
  PROVE  Turned(g, ForfeitPlayer(g, p), p)
<1> DEFINE drawn == HasDrawn(g, p)
           shown == Surrendered(g, p)
           u == UpdateEndGame(shown)
           h == ForfeitPlayer(g, p)
<1>0. g \in GameState /\ CardsFit(g) /\ PlayersFit(g)
  BY DEF Safe
<1>1. h = IF p = g.current THEN EndTurn(shown) ELSE u
  BY DEF ForfeitPlayer, Surrendered, EndTurn, Over
<1>2. /\ shown \in GameState
      /\ \E q \in Player : Hidden(shown, q)
  BY SurrenderedFacts DEF Over
<1>3. /\ shown.drawPile = g.drawPile
      /\ shown.pendingDraw = IF drawn THEN NoCard ELSE g.pendingDraw
      /\ shown.phase = g.phase /\ shown.winner = g.winner /\ shown.current = g.current
  BY SurrenderedFacts DEF Over
<1>4. shown.pendingJokers = g.pendingJokers
  BY SurrenderedFacts DEF Over, JokersAfterForfeit
<1>5. drawn => p = g.current /\ g.pendingDraw \in ToSet(shown.rack[p])
  <2>1. drawn => g.pendingDraw \in ToSet(RackWithDrawnCard(g, p)) /\ p = g.current
    BY <1>0, RackWithDrawnCardFacts DEF HasDrawn
  <2>2. shown.rack = [g.rack EXCEPT ![p] = RackWithDrawnCard(g, p)]
    BY SurrenderedFacts DEF Over
  <2>3. shown.rack[p] = RackWithDrawnCard(g, p)
    BY <1>0, <2>2, StateParts
  <2> QED
    BY <2>1, <2>3
<1>6. p = g.current /\ ~ drawn => g.pendingDraw = NoCard
  BY DEF HasDrawn
<1>7. p \in Out(shown) /\ Reveals(g, shown, p)
  BY SurrenderedOut
<1> HIDE DEF shown, drawn, h
<1>8. shown.winner = NoPlayer /\ ~ Over(shown)
  BY <1>0, <1>3 DEF PlayersFit, Over
<1>9. /\ h.rack = shown.rack /\ h.revealed = shown.revealed
      /\ h.drawPile = shown.drawPile /\ h.pendingJokers = shown.pendingJokers
      /\ Exact(h) /\ h.phase # "starter-place"
      /\ p = g.current => h.pendingDraw = NoCard
      /\ p # g.current => h.pendingDraw = g.pendingDraw
      /\ ~ Over(h) => TurnPasses(g, h)
  <2>1. CASE p = g.current
    <3>1. /\ h.rack = shown.rack /\ h.revealed = shown.revealed
          /\ h.drawPile = shown.drawPile /\ h.pendingJokers = shown.pendingJokers
          /\ Exact(h)
          /\ IF Over(h) THEN h.pendingDraw = shown.pendingDraw
             ELSE /\ h.pendingDraw = NoCard
                  /\ h.phase \in {"draw", "guess"}
                  /\ Abstract!Follows(shown.current, h.current, In(h))
      BY <1>1, <1>2, <1>8, <2>1, EndTurnEffect
    <3>2. shown.pendingDraw = NoCard
      BY <1>3, <1>6, <2>1
    <3> QED
      BY <1>3, <2>1, <3>1, <3>2 DEF TurnPasses, Over
  <2>2. CASE p # g.current
    <3>1. /\ u \in GameState
          /\ SameCards(shown, u)
          /\ u.current = shown.current
          /\ u.eliminated = Out(shown)
          /\ \/ Over(u) /\ PlayersFit(u)
             \/ u.phase = shown.phase /\ u.winner = NoPlayer /\ TwoHidden(u)
      BY <1>2, <1>8, UpdateEndGameFacts DEF Over, Out
    <3>2. h = u
      BY <1>1, <2>2
    <3> HIDE DEF u
    <3>3. Exact(h)
      BY <3>1, <3>2 DEF SameCards, Exact, Out, AllRevealed
    <3>4. shown.pendingDraw = g.pendingDraw
      BY <1>3, <1>5, <2>2
    <3> QED
      BY <1>3, <2>2, <3>1, <3>2, <3>3, <3>4 DEF SameCards, TurnPasses, Over
  <2> QED
    BY <2>1, <2>2
<1>10. Reveals(g, h, p) /\ p \in h.eliminated
  <2>1. Out(h) = Out(shown)
    BY <1>9 DEF Out, AllRevealed
  <2> QED
    BY <1>7, <1>9, <2>1 DEF Reveals, Exact
<1>11. TableKept(g, h)
  BY <1>5, <1>6, <1>9 DEF TableKept
<1>12. Turned(g, h, p)
  BY <1>3, <1>4, <1>9, <1>10, <1>11 DEF Turned
<1> QED
  BY <1>12 DEF h

\* A forfeit before turn one.
LEMMA ForfeitOpens ==
  ASSUME NEW g, Safe(g), NEW p \in Player, g.phase = "starter-place",
         p \notin g.eliminated
  PROVE  LET h == ForfeitPlayer(g, p)
         IN  Opened(g, h) /\ Exact(h) /\ p \in h.eliminated
<1> DEFINE jokers == JokersAfterForfeit(g, p)
           shown == Surrendered(g, p)
           u == UpdateEndGame(shown)
           next == IF p = g.current THEN NextActive(u, p) ELSE u.current
           stage == IF HasPendingStartingJokerPlacements(u) THEN "starter-place" ELSE "draw"
           opening == [u EXCEPT !.current = next, !.phase = stage]
           h == ForfeitPlayer(g, p)
<1>0. g \in GameState /\ CardsFit(g) /\ PlayersFit(g) /\ PhaseFits(g) /\ ~ Over(g)
  BY DEF Safe, Over
<1>1. h = IF Over(u) THEN u ELSE opening
  BY DEF ForfeitPlayer, Surrendered, Over
<1>2. /\ shown \in GameState
      /\ \E q \in Player : Hidden(shown, q)
  BY <1>0, SurrenderedFacts DEF Over
<1>3. /\ shown.drawPile = g.drawPile
      /\ shown.revealed = g.revealed \cup ToSet(RackWithDrawnCard(g, p))
      /\ shown.pendingJokers = jokers
      /\ shown.phase = g.phase /\ shown.winner = g.winner /\ shown.current = g.current
  BY <1>0, SurrenderedFacts DEF Over
<1>4. jokers = [g.pendingJokers EXCEPT ![p] = <<>>]
  BY DEF JokersAfterForfeit
<1>5. g.pendingDraw = NoCard /\ shown.pendingDraw = NoCard
  <2>1. g.pendingDraw = NoCard
    BY <1>0 DEF PhaseFits, DrawFits
  <2>2. ~ HasDrawn(g, p)
    BY <2>1 DEF HasDrawn
  <2>3. shown.pendingDraw = IF HasDrawn(g, p) THEN NoCard ELSE g.pendingDraw
    BY <1>0, SurrenderedFacts DEF Over
  <2> QED
    BY <2>1, <2>2, <2>3
<1>6. p \in Out(shown) /\ g.eliminated \subseteq Out(shown)
  BY <1>0, SurrenderedOut
<1>7. \A q \in Out(shown) \ {p} : g.pendingJokers[q] = <<>>
  <2>1. \A q \in Player : q # p /\ Hidden(g, q) => Hidden(shown, q)
    BY <1>0, SurrenderedFacts DEF Over
  <2> QED
    BY <1>0, <2>1 DEF PhaseFits, Out, Hidden, Over
<1> HIDE DEF shown, jokers, h
<1>8. shown.winner = NoPlayer /\ ~ Over(shown)
  BY <1>0, <1>3 DEF PlayersFit, Over
<1>9. /\ u \in GameState
      /\ SameCards(shown, u)
      /\ u.current = shown.current
      /\ u.eliminated = Out(shown)
      /\ \/ Over(u) /\ PlayersFit(u)
         \/ u.phase = shown.phase /\ u.winner = NoPlayer /\ TwoHidden(u)
  BY <1>2, <1>8, UpdateEndGameFacts DEF Over, Out
<1> HIDE DEF u
<1>10. /\ SameCards(u, h) /\ h.eliminated = u.eliminated
       /\ ~ Over(h) => ~ Over(u) /\ h.current = next /\ h.phase = stage
  <2>1. CASE Over(u)
    BY <1>1, <2>1 DEF SameCards
  <2>2. CASE ~ Over(u)
    <3> HIDE DEF next, stage
    <3>1. /\ SameCards(u, opening) /\ opening.eliminated = u.eliminated
          /\ opening.current = next /\ opening.phase = stage
      BY <1>9 DEF GameState, SameCards
    <3> QED
      BY <1>1, <2>2, <3>1
  <2> QED
    BY <2>1, <2>2
<1>11. Exact(h) /\ h.eliminated = Out(shown)
  BY <1>9, <1>10 DEF Exact, Out, SameCards, AllRevealed
<1>12. h.pendingJokers = jokers /\ h.drawPile = g.drawPile /\ h.pendingDraw = g.pendingDraw
       /\ g.revealed \subseteq h.revealed
  BY <1>3, <1>5, <1>9, <1>10 DEF SameCards
<1>13. g.pendingJokers \in [Player -> Seq(Card)]
  BY <1>0, StateParts
<1>14. \A q \in Player : h.pendingJokers[q] \in {g.pendingJokers[q], <<>>}
  BY <1>4, <1>12, <1>13
<1>15. \A q \in Player :
         h.pendingJokers[q] = IF q \in h.eliminated \ g.eliminated THEN <<>>
                              ELSE g.pendingJokers[q]
  BY <1>4, <1>6, <1>7, <1>11, <1>12, <1>13
<1>16. ASSUME ~ Over(h)
       PROVE  /\ h.phase = IF HasPendingStartingJokerPlacements(h)
                           THEN "starter-place" ELSE "draw"
              /\ TurnPasses(g, h)
              /\ g.current \in In(h) => h.current = g.current
  <2>1. HasPendingStartingJokerPlacements(h) <=> HasPendingStartingJokerPlacements(u)
    BY <1>10, SameCardsFit
  <2>2. h.current = next /\ h.phase = stage /\ ~ Over(u)
    BY <1>10, <1>16
  <2>3. CASE p = g.current
    <3>1. PICK q \in Player : q \notin u.eliminated
      BY <1>2, <1>9 DEF Hidden, Out
    <3>2. Abstract!Follows(p, NextActive(u, p), In(u))
      BY <3>1, NextActiveFollows
    <3>3. In(h) = In(u)
      BY <1>10 DEF In
    <3>4. TurnPasses(g, h)
      BY <2>2, <2>3, <3>2, <3>3 DEF TurnPasses
    <3>5. g.current \notin In(h)
      BY <1>6, <1>11, <2>3 DEF In
    <3> QED
      BY <2>1, <2>2, <3>4, <3>5
  <2>4. CASE p # g.current
    BY <1>3, <1>9, <2>1, <2>2, <2>4 DEF TurnPasses
  <2> QED
    BY <2>3, <2>4
<1>17. Opened(g, h)
  BY <1>6, <1>11, <1>12, <1>14, <1>15, <1>16 DEF Opened
<1> QED
  BY <1>6, <1>11, <1>17 DEF h

-----------------------------------------------------------------------------
(***************************************************************************)
(* The action timer before turn one: several forfeits in a row.            *)
(***************************************************************************)
\* Offsets round the table add up.
LEMMA SeatSum ==
  ASSUME NEW p \in Player, NEW j \in 0..NumPlayers, NEW k \in 0..NumPlayers
  PROVE  /\ (((p + j) % NumPlayers) + k) % NumPlayers = (p + j + k) % NumPlayers
         /\ (p + k + NumPlayers) % NumPlayers = (p + k) % NumPlayers
         /\ (p + k) % NumPlayers \in Player
<1>0. NumPlayers \in 3..6 /\ p \in 0..(NumPlayers - 1)
  BY GameAssumption DEF Player
<1>1. CASE NumPlayers = 3
  BY <1>0, <1>1 DEF Player
<1>2. CASE NumPlayers = 4
  BY <1>0, <1>2 DEF Player
<1>3. CASE NumPlayers = 5
  BY <1>0, <1>3 DEF Player
<1>4. CASE NumPlayers = 6
  BY <1>0, <1>4 DEF Player
<1> QED
  BY <1>0, <1>1, <1>2, <1>3, <1>4

\* Who follows in a larger company follows in a smaller one, if still in.
LEMMA FollowsFewer ==
  ASSUME NEW p, NEW q, NEW S, NEW T \in SUBSET S, q \in T, Abstract!Follows(p, q, S)
  PROVE  Abstract!Follows(p, q, T)
BY DEF Abstract!Follows

\* When q, who followed p, is out as well, who follows q follows p.
LEMMA FollowsThrough ==
  ASSUME NEW p \in Player, NEW q \in Player, NEW r, NEW S, NEW T \in SUBSET S,
         q \notin T, Abstract!Follows(p, q, S), Abstract!Follows(q, r, T)
  PROVE  Abstract!Follows(p, r, T)
<1>0. NumPlayers \in 3..6 /\ p \in 0..(NumPlayers - 1) /\ q \in 0..(NumPlayers - 1)
  BY GameAssumption DEF Player
<1>1. PICK j \in 1..NumPlayers :
        /\ q = (p + j) % NumPlayers
        /\ \A i \in 1..(j - 1) : (p + i) % NumPlayers \notin S
  BY DEF Abstract!Follows
<1>2. PICK k \in 1..NumPlayers :
        /\ r = (q + k) % NumPlayers /\ r \in T
        /\ \A i \in 1..(k - 1) : (q + i) % NumPlayers \notin T
  BY DEF Abstract!Follows
<1>3. r = (p + j + k) % NumPlayers
  <2>1. j \in 0..NumPlayers /\ k \in 0..NumPlayers
    BY <1>0
  <2>2. (((p + j) % NumPlayers) + k) % NumPlayers = (p + j + k) % NumPlayers
    BY <2>1, SeatSum
  <2> QED
    BY <1>1, <1>2, <2>2
<1>4. CASE j + k <= NumPlayers
  <2>1. \A i \in 1..(j + k - 1) : (p + i) % NumPlayers \notin T
    <3> SUFFICES ASSUME NEW i \in 1..(j + k - 1)
                 PROVE  (p + i) % NumPlayers \notin T
      OBVIOUS
    <3>1. CASE i < j
      <4>1. i \in 1..(j - 1)
        BY <1>0, <3>1
      <4> QED
        BY <1>1, <4>1
    <3>2. CASE i = j
      BY <1>1, <3>2
    <3>3. CASE i > j
      <4>1. i - j \in 1..(k - 1) /\ i - j \in 0..NumPlayers /\ j \in 0..NumPlayers
        BY <1>0, <3>3
      <4>2. (q + (i - j)) % NumPlayers = (p + j + (i - j)) % NumPlayers
        BY <1>1, <4>1, SeatSum
      <4>3. p + j + (i - j) = p + i
        BY <1>0
      <4> QED
        BY <1>2, <4>1, <4>2, <4>3
    <3> QED
      BY <1>0, <3>1, <3>2, <3>3
  <2>2. j + k \in 1..NumPlayers /\ p + (j + k) = p + j + k
    BY <1>0, <1>4
  <2>3. r = (p + (j + k)) % NumPlayers
    BY <1>3, <2>2
  <2> DEFINE n == j + k
  <2>4. n \in 1..NumPlayers /\ r = (p + n) % NumPlayers
        /\ \A i \in 1..(n - 1) : (p + i) % NumPlayers \notin T
    BY <2>1, <2>2, <2>3
  <2> HIDE DEF n
  <2> QED
    BY <1>2, <2>4 DEF Abstract!Follows
<1>5. CASE j + k > NumPlayers
  <2> DEFINE i == j + k - NumPlayers
  <2>1. i \in 1..j /\ i \in 0..NumPlayers /\ p + j + k = p + i + NumPlayers
    BY <1>0, <1>5
  <2>2. r = (p + i) % NumPlayers
    BY <1>3, <2>1, SeatSum
  <2>3. CASE i < j
    <3>1. i \in 1..(j - 1)
      BY <1>0, <2>1, <2>3
    <3> QED
      BY <1>1, <1>2, <2>2, <3>1
  <2>4. CASE i = j
    BY <1>1, <1>2, <2>2, <2>4
  <2> QED
    BY <1>0, <2>1, <2>3, <2>4
<1> QED
  BY <1>0, <1>4, <1>5

\* Two forfeits are like one of two players.
LEMMA OpenedTwice ==
  ASSUME NEW g, NEW t, NEW h, Opened(g, t), Opened(t, h),
         g.current \in Player, t.current \in Player, h.current \in Player,
         ~ Over(h) => h.current \notin h.eliminated
  PROVE  Opened(g, h)
<1>1. ~ Over(t)
  BY DEF Opened, Over
<1>2. /\ g.phase = "starter-place"
      /\ g.revealed \subseteq h.revealed /\ g.eliminated \subseteq h.eliminated
      /\ h.pendingDraw = g.pendingDraw /\ h.drawPile = g.drawPile
      /\ \A q \in Player : h.pendingJokers[q] \in {g.pendingJokers[q], <<>>}
  BY DEF Opened
<1>3. ASSUME ~ Over(h)
      PROVE  \A q \in Player :
               h.pendingJokers[q] = IF q \in h.eliminated \ g.eliminated THEN <<>>
                                    ELSE g.pendingJokers[q]
  BY <1>1, <1>3 DEF Opened
<1>4. ASSUME ~ Over(h)
      PROVE  g.current \in In(h) => h.current = g.current
  <2>1. In(h) \subseteq In(t)
    BY DEF Opened, In
  <2> QED
    BY <1>1, <1>4, <2>1 DEF Opened
<1>5. ASSUME ~ Over(h)
      PROVE  TurnPasses(g, h)
  <2>1. In(h) \subseteq In(t) /\ h.current \in In(h)
    BY <1>5 DEF Opened, In
  <2>2. TurnPasses(g, t) /\ TurnPasses(t, h)
    BY <1>1, <1>5 DEF Opened
  <2>3. CASE t.current = g.current
    BY <2>2, <2>3 DEF TurnPasses
  <2>4. CASE h.current = t.current /\ Abstract!Follows(g.current, t.current, In(t))
    BY <2>1, <2>4, FollowsFewer DEF TurnPasses
  <2>5. CASE /\ h.current # t.current
             /\ Abstract!Follows(g.current, t.current, In(t))
             /\ Abstract!Follows(t.current, h.current, In(h))
    <3>1. t.current \notin In(h)
      BY <1>5, <2>5 DEF Opened
    <3> QED
      BY <2>1, <2>5, <3>1, FollowsThrough DEF TurnPasses
  <2> QED
    BY <2>2, <2>3, <2>4, <2>5 DEF TurnPasses
<1>6. ~ Over(h) => h.phase = IF HasPendingStartingJokerPlacements(h)
                             THEN "starter-place" ELSE "draw"
  BY DEF Opened
<1> QED
  BY <1>2, <1>3, <1>4, <1>5, <1>6 DEF Opened

\* The loop of resolveTurnTimeout when it has come to player i: nobody is
\* out by it yet, and none of the players has a Joker to place, or some are.
Looped(t, i) ==
  /\ Safe(t)
  /\ \/ t = game /\ \A q \in Player : q <= i => game.pendingJokers[q] = <<>>
     \/ Opened(game, t) /\ Exact(t) /\ t.eliminated # game.eliminated

LEMMA LoopStep ==
  ASSUME Safe(game), game.phase = "starter-place", NEW t, NEW i \in 0..5,
         Looped(t, i - 1)
  PROVE  Looped(TimeoutStep(t, i), i)
<1> DEFINE h == TimeoutStep(t, i)
<1>0. /\ Safe(t) /\ t \in GameState /\ PlayersFit(t) /\ PhaseFits(t)
      /\ game \in GameState
  BY DEF Looped, Safe
<1>1. Player \subseteq Nat
  BY HandNumbers
<1>2. CASE i \notin Player \/ Over(t) \/ t.pendingJokers[i] = <<>> \/ i \in t.eliminated
  <2>1. h = t
    BY <1>2 DEF TimeoutStep, Over
  <2>2. CASE t = game /\ \A q \in Player : q <= i - 1 => game.pendingJokers[q] = <<>>
    <3>1. i \in Player => game.pendingJokers[i] = <<>>
      BY <1>0, <1>2, <2>2 DEF Over, PhaseFits, PlayersFit, Hidden
    <3>2. \A q \in Player : q <= i => game.pendingJokers[q] = <<>>
      BY <1>1, <2>2, <3>1
    <3> QED
      BY <2>1, <2>2, <3>2 DEF Looped
  <2>3. CASE Opened(game, t) /\ Exact(t) /\ t.eliminated # game.eliminated
    BY <1>0, <2>1, <2>3 DEF Looped
  <2> QED
    BY <2>2, <2>3 DEF Looped
<1>3. CASE ~ (i \notin Player \/ Over(t) \/ t.pendingJokers[i] = <<>> \/ i \in t.eliminated)
  <2>1. h = ForfeitPlayer(t, i)
    BY <1>3 DEF TimeoutStep, Over
  <2>2. i \in Player /\ i \notin t.eliminated /\ t.phase = "starter-place"
    BY <1>0, <1>3 DEF PhaseFits, Over
  <2>3. Safe(h) /\ Opened(t, h) /\ Exact(h) /\ i \in h.eliminated
    BY <1>0, <2>1, <2>2, ForfeitSafe, ForfeitOpens
  <2>4. CASE t = game
    BY <2>2, <2>3, <2>4 DEF Looped
  <2>5. CASE Opened(game, t) /\ Exact(t) /\ t.eliminated # game.eliminated
    <3>1. game.current \in Player /\ t.current \in Player
      BY <1>0, StateParts
    <3>2. h.current \in Player /\ (~ Over(h) => h.current \notin h.eliminated)
      BY <2>3, StateParts DEF Safe, PlayersFit, Hidden, Over
    <3>3. Opened(game, h)
      BY <2>3, <2>5, <3>1, <3>2, OpenedTwice
    <3>4. h.eliminated # game.eliminated
      BY <2>2, <2>3, <2>5 DEF Opened
    <3> QED
      BY <2>3, <3>3, <3>4 DEF Looped
  <2> QED
    BY <2>4, <2>5 DEF Looped
<1> QED
  BY <1>2, <1>3

LEMMA TimeoutEffect ==
  ASSUME Safe(game), game.phase = "starter-place"
  PROVE  LET h == StartingJokersTimeout
         IN  Opened(game, h) /\ Exact(h) /\ h.eliminated # game.eliminated
<1> DEFINE t0 == TimeoutStep(game, 0)  t1 == TimeoutStep(t0, 1)
           t2 == TimeoutStep(t1, 2)    t3 == TimeoutStep(t2, 3)
           t4 == TimeoutStep(t3, 4)    t5 == TimeoutStep(t4, 5)
<1>0. NumPlayers \in 3..6 /\ Player = 0..(NumPlayers - 1)
  BY GameAssumption DEF Player
<1>1. StartingJokersTimeout = t5
  BY DEF StartingJokersTimeout
<1>2. Looped(game, 0 - 1)
  <2>1. \A q \in Player : ~ (q <= 0 - 1)
    BY <1>0
  <2> QED
    BY <2>1 DEF Looped
<1>3. Looped(t0, 1 - 1)
  BY <1>2, LoopStep
<1> HIDE DEF t0
<1>4. Looped(t1, 2 - 1)
  BY <1>3, LoopStep
<1> HIDE DEF t1
<1>5. Looped(t2, 3 - 1)
  BY <1>4, LoopStep
<1> HIDE DEF t2
<1>6. Looped(t3, 4 - 1)
  BY <1>5, LoopStep
<1> HIDE DEF t3
<1>7. Looped(t4, 5 - 1)
  BY <1>6, LoopStep
<1> HIDE DEF t4
<1>8. Looped(t5, 5)
  BY <1>7, LoopStep
<1> HIDE DEF t5
<1>9. ~ \A q \in Player : q <= 5 => game.pendingJokers[q] = <<>>
  <2>1. PICK q \in Player : game.pendingJokers[q] # <<>>
    BY DEF Safe, PhaseFits, HasPendingStartingJokerPlacements
  <2>2. q <= 5
    BY <1>0
  <2> QED
    BY <2>1, <2>2
<1> QED
  BY <1>1, <1>8, <1>9 DEF Looped

LEMMA StepEffect ==
  ASSUME Safe(game), Next
  PROVE  Effect(game, game')
<1>0. game.current \in Player
  BY StateParts DEF Safe
<1>1. ASSUME NEW p \in Player, DrawCard(p) PROVE Effect(game, game')
  BY <1>1, DrawEffect DEF Effect
<1>2. ASSUME NEW p \in Player, StopGuessingAndPlace(p) PROVE Effect(game, game')
  BY <1>2, StopEffect DEF Effect
<1>3. ASSUME NEW p \in Player, NEW index, InsertDrawnCard(p, index) PROVE Effect(game, game')
  BY <1>3, InsertEffect DEF Effect
<1>4. ASSUME NEW p \in Player, NEW index, PlaceStartingJoker(p, index) PROVE Effect(game, game')
  BY <1>4, PlaceEffect DEF Effect
<1>5. ASSUME NEW p \in Player, NEW target \in Player, NEW card, NEW guess,
             ResolveGuess(p, target, card, guess)
      PROVE  Effect(game, game')
  <2>1. /\ game.phase = "guess" /\ p = game.current
        /\ target # p /\ target \notin game.eliminated
        /\ card \in ToSet(game.rack[target]) /\ card \notin game.revealed
        /\ game' = AfterCorrectGuess(card) \/ game' = AfterWrongGuess
    BY <1>5 DEF ResolveGuess, IsActor, GuessTarget
  <2> QED
    BY <2>1, CorrectGuessEffect, WrongGuessEffect DEF Effect
<1>6. ASSUME NEW p \in Player, NEW card, RevealSelfPenalty(p, card) PROVE Effect(game, game')
  BY <1>6, SelfPenaltyEffect DEF Effect
<1>7. ASSUME NEW p \in Player, ~ Over(game), p \notin game.eliminated,
             game' = ForfeitPlayer(game, p)
      PROVE  Effect(game, game')
  <2>1. CASE game.phase = "starter-place"
    BY <1>7, <2>1, ForfeitOpens DEF Effect
  <2>2. CASE game.phase # "starter-place"
    BY <1>7, <2>2, ForfeitTurns DEF Effect
  <2> QED
    BY <2>1, <2>2
<1>8. CASE ResolveTurnTimeout
  <2>1. CASE game.phase = "starter-place"
    <3>1. game' = StartingJokersTimeout
      BY <1>8, <2>1 DEF ResolveTurnTimeout
    <3> QED
      BY <2>1, <3>1, TimeoutEffect DEF Effect
  <2>2. CASE game.phase # "starter-place"
    BY <1>0, <1>7, <1>8, <2>2 DEF ResolveTurnTimeout, Over
  <2> QED
    BY <2>1, <2>2
<1> QED
  BY <1>1, <1>2, <1>3, <1>4, <1>5, <1>6, <1>7, <1>8 DEF Next, Move, Forfeit, Over

-----------------------------------------------------------------------------
(***************************************************************************)
(* The theorems.                                                           *)
(***************************************************************************)
\* A turn leaves those it does not touch as far in or out as they were.
LEMMA TurnedTouchesOne ==
  ASSUME NEW g, NEW h, Safe(g), Safe(h), NEW who \in Player, Turned(g, h, who),
         NEW q \in Player, q # who
  PROVE  AllRevealed(h, q) <=> AllRevealed(g, q)
<1>1. g.rack[q] # <<>> /\ h.rack[q] # <<>>
  BY DEF Safe, CardsFit
<1>2. /\ ToSet(h.rack[q]) = ToSet(g.rack[q])
      /\ ToSet(g.rack[q]) \cap h.revealed \subseteq g.revealed
      /\ g.revealed \subseteq h.revealed
  BY DEF Turned, Reveals
<1> QED
  BY <1>1, <1>2 DEF AllRevealed

\* Nobody comes back into a match.
LEMMA OutStaysOut ==
  ASSUME NEW g, NEW h, Safe(g), Safe(h), Effect(g, h)
  PROVE  g.eliminated \subseteq h.eliminated
<1>1. ASSUME NEW who \in Player, Turned(g, h, who)
      PROVE  g.eliminated \subseteq h.eliminated
  <2> SUFFICES ASSUME NEW q \in g.eliminated
               PROVE  q \in h.eliminated
    OBVIOUS
  <2>1. q \in Player /\ AllRevealed(g, q)
    BY DEF Safe, GameState, PlayersFit
  <2>2. q # who
    BY <1>1 DEF Turned
  <2>3. AllRevealed(h, q)
    BY <1>1, <2>1, <2>2, TurnedTouchesOne
  <2> QED
    BY <1>1, <2>1, <2>3 DEF Turned, Exact, Out
<1> QED
  BY <1>1 DEF Effect, Drawn, Guessed, Placed, Opened, SameTable

\* What is revealed stays revealed and who is out stays out, and a match that
\* is over does not change: no move, forfeit or timeout comes after the end.
THEOREM NothingReturns == Spec => NothingIsTakenBack
<1>1. Safe(game) /\ [Next]_vars =>
        [/\ game.revealed \subseteq game'.revealed
         /\ game.eliminated \subseteq game'.eliminated
         /\ game.phase # "game-over"]_vars
  <2> SUFFICES ASSUME Safe(game), Next
               PROVE  /\ game.revealed \subseteq game'.revealed
                      /\ game.eliminated \subseteq game'.eliminated
                      /\ game.phase # "game-over"
    OBVIOUS
  <2>1. Effect(game, game') /\ Safe(game')
    BY StepEffect, NextSafe
  <2>2. game.eliminated \subseteq game'.eliminated
    BY <2>1, OutStaysOut
  <2>3. game.revealed \subseteq game'.revealed /\ game.phase # "game-over"
    BY <2>1 DEF Effect, Drawn, Guessed, Placed, Turned, Opened, Reveals, Over
  <2> QED
    BY <2>2, <2>3
<1> QED
  BY <1>1, MatchIsSafe, PTL DEF Spec, NothingIsTakenBack

\* A drawn card leaves the table only into the rack of the player who drew
\* it, through every way a turn can end.
THEOREM DrawnCardGoesHome == Spec => DrawnCardIsKept
<1>1. Safe(game) /\ [Next]_vars =>
        [game.pendingDraw # NoCard /\ game'.pendingDraw # game.pendingDraw =>
           game.pendingDraw \in ToSet(game'.rack[game.current])]_vars
  <2> SUFFICES ASSUME Safe(game), Next,
                      game.pendingDraw # NoCard, game'.pendingDraw # game.pendingDraw
               PROVE  game.pendingDraw \in ToSet(game'.rack[game.current])
    OBVIOUS
  <2>1. Effect(game, game')
    BY StepEffect
  <2>2. PICK who \in Player : Turned(game, game', who)
    BY <2>1 DEF Effect, Drawn, Guessed, Placed, Opened
  <2> QED
    BY <2>2 DEF Turned, TableKept
<1> QED
  BY <1>1, MatchIsSafe, PTL DEF Spec, DrawnCardIsKept

-----------------------------------------------------------------------------
(***************************************************************************)
(* Elimination is exact from the deal on when every hand of the deal has a *)
(* hidden card, as base hands of three and more give.                      *)
(***************************************************************************)
LEMMA DealExact ==
  ASSUME BaseHand >= 3, NEW o, IsOpening(o)
  PROVE  Exact(CreateGame(o))
<1>1. ASSUME NEW p \in Player
      PROVE  ~ AllRevealed(CreateGame(o), p)
  <2>1. BaseHand \in Int
    BY HandNumbers
  <2>2. HandSize(o, p) \in {BaseHand - 1, BaseHand, BaseHand + 1}
    BY HandSizes
  <2> HIDE DEF BaseHand, HandSize
  <2>3. HandSize(o, p) >= 2
    BY <2>1, <2>2
  <2> QED
    BY <2>3, DealHides DEF Hidden
<1>2. CreateGame(o).eliminated = {}
  BY DEF CreateGame
<1> QED
  BY <1>1, <1>2 DEF Exact, Out

LEMMA StepExact ==
  ASSUME NEW g, NEW h, Safe(g), Safe(h), Exact(g), Effect(g, h)
  PROVE  Exact(h)
<1>1. ASSUME SameTable(g, h), g.revealed \subseteq h.revealed
      PROVE  Exact(h)
  <2>1. \A q \in Player : AllRevealed(h, q) <=> AllRevealed(g, q)
    BY <1>1 DEF SameTable, AllRevealed, Safe, CardsFit
  <2> QED
    BY <1>1, <2>1 DEF SameTable, Exact, Out
<1> QED
  BY <1>1 DEF Effect, Drawn, Guessed, Placed, Turned

LEMMA MatchIsExact ==
  ASSUME BaseHand >= 3
  PROVE  Spec => []Exact(game)
<1>1. Init => Exact(game)
  BY DealExact, GameAssumption DEF Init
<1>2. Safe(game) /\ Exact(game) /\ [Next]_vars => Exact(game)'
  <2> SUFFICES ASSUME Safe(game), Exact(game), [Next]_vars
               PROVE  Exact(game')
    OBVIOUS
  <2>1. CASE Next
    BY <2>1, StepEffect, NextSafe, StepExact
  <2>2. CASE UNCHANGED vars
    BY <2>2 DEF vars
  <2> QED
    BY <2>1, <2>2
<1> QED
  BY <1>1, <1>2, MatchIsSafe, PTL DEF Spec

\* A player is out exactly when every card of theirs is revealed, after each
\* move, forfeit and timeout; with a base hand of two the player before the
\* starter is dealt a single card, which is face up, and is not out before
\* the first guess or forfeit.
THEOREM OutIsAllRevealed ==
  ASSUME BaseHand >= 3
  PROVE  Spec => []EliminatedIffAllRevealed
<1>1. Exact(game) => EliminatedIffAllRevealed
  BY DEF Exact, Out, EliminatedIffAllRevealed
<1> QED
  BY <1>1, MatchIsExact, PTL

-----------------------------------------------------------------------------
(***************************************************************************)
(* A match is one of Match.                                                *)
(***************************************************************************)
\* Over is exactly that one player is left, and there always is one.
LEMMA WhoIsIn ==
  ASSUME NEW g, Safe(g)
  PROVE  /\ In(g) # {} /\ In(g) \subseteq Player
         /\ Over(g) <=> \E p \in Player : In(g) = {p}
         /\ ~ Over(g) => g.current \in In(g)
         /\ g.current \in Player
<1>1. g.current \in Player /\ (~ Over(g) => g.current \in In(g))
  BY StateParts DEF Safe, PlayersFit, Hidden, Over, In
<1>2. Decided(g)
  BY SafeDecided
<1>3. CASE Over(g)
  <2>1. g.winner \in Player /\ In(g) = {g.winner}
    BY <1>2, <1>3 DEF Decided, Over, In
  <2> QED
    BY <1>1, <1>3, <2>1
<1>4. CASE ~ Over(g)
  <2>1. Cardinality(In(g)) >= 2
    BY <1>2, <1>4 DEF Decided, Over, In
  <2>2. \A p : In(g) # {p}
    <3> SUFFICES ASSUME NEW p, In(g) = {p}
                 PROVE  FALSE
      OBVIOUS
    <3>1. Cardinality({p}) = 1
      BY FS_Singleton
    <3>2. Cardinality(In(g)) = 1
      BY <3>1
    <3> QED
      BY <2>1, <3>2
  <2> QED
    BY <1>1, <1>4, <2>2 DEF In
<1> QED
  BY <1>3, <1>4

\* Turn one comes when the last Joker is placed.
LEMMA StageFits ==
  ASSUME NEW g, Safe(g)
  PROVE  /\ Stage(g) \in {"opening", "turns", "over"}
         /\ Stage(g) = "over" <=> Over(g)
         /\ Stage(g) = "opening" <=> g.phase = "starter-place"
         /\ Unplaced(g) \subseteq Player
         /\ ~ Over(g) => Stage(g) = IF Unplaced(g) = {} THEN "turns" ELSE "opening"
<1>1. \A p \in Unplaced(g) : g.phase = "starter-place"
  BY DEF Safe, PhaseFits, Unplaced
<1>2. g.phase = "starter-place" => Unplaced(g) # {}
  BY DEF Safe, PhaseFits, Unplaced, HasPendingStartingJokerPlacements
<1>3. Unplaced(g) \subseteq Player
  BY DEF Unplaced
<1> QED
  BY <1>1, <1>2, <1>3 DEF Stage, Over

\* A card drawn or the end of guessing shows nothing of the match.
LEMMA QuietStep ==
  ASSUME NEW g, NEW h, Drawn(g, h) \/ Guessed(g, h)
  PROVE  /\ Stage(h) = Stage(g) /\ In(h) = In(g)
         /\ h.current = g.current /\ Unplaced(h) = Unplaced(g)
BY DEF Drawn, Guessed, SameTable, Stage, In, Unplaced

LEMMA PlacedStep ==
  ASSUME NEW g, NEW h, Safe(g), Safe(h), NEW p \in Player, Placed(g, h, p)
  PROVE  /\ Stage(g) = "opening" /\ ~ Over(g) /\ ~ Over(h)
         /\ In(h) = In(g) /\ h.current = g.current
         /\ p \in Unplaced(g)
         /\ Unplaced(h) = Unplaced(g) \/ Unplaced(h) = Unplaced(g) \ {p}
<1>1. Stage(g) = "opening" /\ ~ Over(g) /\ ~ Over(h)
  BY DEF Placed, Stage, Over
<1>2. In(h) = In(g) /\ h.current = g.current
  BY DEF Placed, SameTable, In
<1>3. p \in Unplaced(g)
  BY <1>1 DEF Placed, Unplaced, Over
<1>4. \A q \in Player : q # p => (q \in Unplaced(h) <=> q \in Unplaced(g))
  <2>1. g.pendingJokers \in [Player -> Seq(Card)]
    BY StateParts DEF Safe
  <2>2. \A q \in Player : q # p => h.pendingJokers[q] = g.pendingJokers[q]
    BY <2>1 DEF Placed
  <2> QED
    BY <1>1, <2>2 DEF Unplaced, Over
<1>5. Unplaced(g) \subseteq Player /\ Unplaced(h) \subseteq Player
  BY DEF Unplaced
<1> QED
  BY <1>1, <1>2, <1>3, <1>4, <1>5

LEMMA TurnedStep ==
  ASSUME NEW g, NEW h, Safe(g), Safe(h), Exact(g), NEW who \in Player,
         Turned(g, h, who)
  PROVE  /\ Stage(g) = "turns" /\ Stage(h) # "opening"
         /\ who \in In(g)
         /\ In(h) = In(g) \/ In(h) = In(g) \ {who}
         /\ Unplaced(g) = {} /\ Unplaced(h) = {}
         /\ ~ Over(h) => TurnPasses(g, h)
<1>1. Stage(g) = "turns" /\ Stage(h) # "opening" /\ who \in In(g)
  BY DEF Turned, Stage, Over, In
<1>2. \A q \in Player : q # who => (q \in In(h) <=> q \in In(g))
  <2>1. Exact(h)
    BY DEF Turned
  <2> QED
    BY <2>1, TurnedTouchesOne DEF In, Exact, Out
<1>3. In(g) \subseteq Player /\ In(h) \subseteq Player
  BY DEF In
<1>4. Unplaced(g) = {} /\ Unplaced(h) = {}
  <2>1. \A q \in Player : ~ Over(g) => g.pendingJokers[q] = <<>>
    BY DEF Safe, PhaseFits, Turned, Over
  <2>2. \A q \in Player : ~ Over(h) => h.pendingJokers[q] = <<>>
    BY DEF Safe, PhaseFits, Turned, Over
  <2> QED
    BY <2>1, <2>2 DEF Unplaced, Over
<1> QED
  BY <1>1, <1>2, <1>3, <1>4 DEF Turned

LEMMA OpenedStep ==
  ASSUME NEW g, NEW h, Safe(g), Safe(h), Opened(g, h),
         h.eliminated # g.eliminated
  PROVE  LET out == In(g) \ In(h)
         IN  /\ Stage(g) = "opening"
             /\ out # {} /\ In(h) = In(g) \ out
             /\ Unplaced(h) \subseteq Unplaced(g)
             /\ ~ Over(h) => /\ Unplaced(h) = Unplaced(g) \ out
                             /\ TurnPasses(g, h)
                             /\ g.current \in In(h) => h.current = g.current
<1>1. Stage(g) = "opening" /\ ~ Over(g)
  BY DEF Opened, Stage, Over
<1>2. g.eliminated \subseteq h.eliminated /\ h.eliminated \subseteq Player
  BY DEF Opened, Safe, GameState
<1>3. In(g) \ In(h) = h.eliminated \ g.eliminated
  BY <1>2 DEF In
<1>4. In(h) \subseteq In(g)
  BY <1>2 DEF In
<1>5. In(g) \ In(h) # {}
  BY <1>2, <1>3
<1>6. Unplaced(h) \subseteq Unplaced(g)
  BY <1>1 DEF Unplaced, Opened, Over
<1>7. ASSUME ~ Over(h)
      PROVE  Unplaced(h) = Unplaced(g) \ (In(g) \ In(h))
  <2>1. \A q \in Player :
          h.pendingJokers[q] = IF q \in h.eliminated \ g.eliminated THEN <<>>
                               ELSE g.pendingJokers[q]
    BY <1>7 DEF Opened
  <2> QED
    BY <1>1, <1>3, <1>7, <2>1 DEF Unplaced, Over
<1>8. ~ Over(h) => TurnPasses(g, h) /\ (g.current \in In(h) => h.current = g.current)
  BY DEF Opened
<1> QED
  BY <1>1, <1>4, <1>5, <1>6, <1>7, <1>8

LEMMA InitImplements ==
  ASSUME Init
  PROVE  Abstract!Init
<1>1. PICK o \in Openings : game = CreateGame(o)
  BY DEF Init
<1>2. Safe(game)
  BY InitSafe
<1>3. game.phase # "game-over" /\ game.eliminated = {}
  BY <1>1 DEF CreateGame
<1>4. Stage(game) = IF Unplaced(game) = {} THEN "turns" ELSE "opening"
  BY <1>2, <1>3, StageFits DEF Over
<1>5. Unplaced(game) \in SUBSET Player /\ game.current \in Player
  BY <1>2, StageFits, WhoIsIn
<1>6. Abstract!Player = Player
  BY DEF Abstract!Player, Player
<1> QED
  BY <1>3, <1>4, <1>5, <1>6 DEF Abstract!Init

\* What is left to say of those who leave.
LEMMA LeaveFacts ==
  ASSUME NEW out, Safe(game'), In(game') = In(game) \ out,
         Unplaced(game') \subseteq Unplaced(game)
  PROVE  Abstract!Leave(out)
<1>1. /\ In(game') # {} /\ (Over(game') <=> \E p \in Player : In(game') = {p})
      /\ (~ Over(game') => game'.current \in In(game')) /\ game'.current \in Player
      /\ (Stage(game') = "over" <=> Over(game'))
  BY WhoIsIn, StageFits
<1>2. Abstract!Player = Player
  BY DEF Abstract!Player, Player
<1> QED
  BY <1>1, <1>2 DEF Abstract!Leave, In

LEMMA StepImplements ==
  ASSUME Safe(game), Exact(game), Next
  PROVE  Abstract!Next \/ UNCHANGED Abstract!vars
<1> DEFINE g == game
<1>0. Effect(game, game') /\ Safe(game')
  BY StepEffect, NextSafe
<1>1. Abstract!Player = Player
  BY DEF Abstract!Player, Player
<1>2. CASE Drawn(game, game') \/ Guessed(game, game')
  <2>1. /\ Stage(game') = Stage(game) /\ In(game') = In(game)
        /\ game'.current = game.current /\ Unplaced(game') = Unplaced(game)
    BY <1>2, QuietStep
  <2> QED
    BY <2>1 DEF Abstract!vars, In
<1>3. ASSUME NEW p \in Player, Placed(game, game', p)
      PROVE  Abstract!Next \/ UNCHANGED Abstract!vars
  <2>1. /\ Stage(game) = "opening" /\ ~ Over(game) /\ ~ Over(game')
        /\ In(game') = In(game) /\ game'.current = game.current
        /\ p \in Unplaced(game)
        /\ \/ Unplaced(game') = Unplaced(game)
           \/ Unplaced(game') = Unplaced(game) \ {p}
    BY <1>0, <1>3, PlacedStep
  <2>2. Stage(game') = IF Unplaced(game') = {} THEN "turns" ELSE "opening"
    BY <1>0, <2>1, StageFits
  <2>3. CASE Unplaced(game') = Unplaced(game)
    <3>1. Stage(game') = Stage(game)
      BY <2>1, <2>2, <2>3
    <3> QED
      BY <2>1, <2>3, <3>1 DEF Abstract!vars, In
  <2>4. CASE Unplaced(game') = Unplaced(game) \ {p}
    BY <2>1, <2>2, <2>4 DEF Abstract!Next, Abstract!Place, In
  <2> QED
    BY <2>1, <2>3, <2>4
<1>4. ASSUME NEW who \in Player, Turned(game, game', who)
      PROVE  Abstract!Next
  <2>1. /\ Stage(game) = "turns" /\ Stage(game') # "opening"
        /\ who \in In(game)
        /\ In(game') = In(game) \/ In(game') = In(game) \ {who}
        /\ Unplaced(game) = {} /\ Unplaced(game') = {}
        /\ ~ Over(game') => TurnPasses(game, game')
    BY <1>0, <1>4, TurnedStep
  <2>2. PICK out \in {{}, {who}} : In(game') = In(game) \ out
    BY <2>1
  <2>3. out \in {{}} \cup {{p} : p \in In(game)}
    BY <2>1, <2>2
  <2>4. /\ In(game') # {} /\ (Over(game') <=> \E p \in Player : In(game') = {p})
        /\ (~ Over(game') => game'.current \in In(game')) /\ game'.current \in Player
        /\ Stage(game') \in {"opening", "turns", "over"}
        /\ (Stage(game') = "over" <=> Over(game'))
    BY <1>0, WhoIsIn, StageFits
  <2>5. Abstract!Leave(out)
    BY <1>0, <2>1, <2>2, LeaveFacts
  <2>6. Stage(game') # "over" =>
          /\ Stage(game') = "turns"
          /\ \/ game'.current = game.current
             \/ Abstract!Follows(game.current, game'.current, In(game'))
    BY <2>1, <2>4 DEF TurnPasses
  <2>7. Abstract!Turn
    BY <2>1, <2>3, <2>5, <2>6 DEF Abstract!Turn, In
  <2> QED
    BY <2>7 DEF Abstract!Next
<1>5. ASSUME Opened(game, game'), game'.eliminated # game.eliminated
      PROVE  Abstract!Next
  <2> DEFINE out == In(game) \ In(game')
  <2>1. /\ Stage(game) = "opening"
        /\ out # {} /\ In(game') = In(game) \ out
        /\ Unplaced(game') \subseteq Unplaced(game)
        /\ ~ Over(game') => /\ Unplaced(game') = Unplaced(game) \ out
                            /\ TurnPasses(game, game')
                            /\ game.current \in In(game') => game'.current = game.current
    BY <1>0, <1>5, OpenedStep
  <2>2. out \in (SUBSET In(game)) \ {{}}
    BY <2>1
  <2>4. /\ In(game') # {} /\ (Over(game') <=> \E p \in Player : In(game') = {p})
        /\ (~ Over(game') => game'.current \in In(game')) /\ game'.current \in Player
        /\ Stage(game') \in {"opening", "turns", "over"}
        /\ (Stage(game') = "over" <=> Over(game'))
        /\ ~ Over(game') =>
             Stage(game') = IF Unplaced(game') = {} THEN "turns" ELSE "opening"
    BY <1>0, WhoIsIn, StageFits
  <2> HIDE DEF out
  <2>5. Abstract!Leave(out)
    BY <1>0, <2>1, LeaveFacts
  <2>6. Stage(game') # "over" =>
          /\ Unplaced(game') = Unplaced(game) \ out
          /\ Stage(game') = IF Unplaced(game') = {} THEN "turns" ELSE "opening"
          /\ \/ game'.current = game.current
             \/ Abstract!Follows(game.current, game'.current, In(game'))
          /\ game.current \in In(game') => game'.current = game.current
    BY <2>1, <2>4 DEF TurnPasses
  <2>7. Abstract!OpeningLeave
    BY <2>1, <2>2, <2>5, <2>6 DEF Abstract!OpeningLeave, In
  <2> QED
    BY <2>7 DEF Abstract!Next
<1> QED
  BY <1>0, <1>2, <1>3, <1>4, <1>5 DEF Effect

\* A match is one of Match: the turn goes round past those who are out and
\* skips nobody else, a turn takes at most one player out, the opening lasts
\* until its Jokers are placed, and one player is left with the victory.
THEOREM EngineImplementsMatch ==
  ASSUME BaseHand >= 3
  PROVE  Spec => ImplementsMatch
<1>1. Init => Abstract!Init
  BY InitImplements
<1>2. Safe(game) /\ Exact(game) /\ [Next]_vars => [Abstract!Next]_(Abstract!vars)
  <2> SUFFICES ASSUME Safe(game), Exact(game), [Next]_vars
               PROVE  Abstract!Next \/ UNCHANGED Abstract!vars
    OBVIOUS
  <2>1. CASE Next
    BY <2>1, StepImplements
  <2>2. CASE UNCHANGED vars
    BY <2>2 DEF vars, Abstract!vars
  <2> QED
    BY <2>1, <2>2
<1> QED
  BY <1>1, <1>2, MatchIsSafe, MatchIsExact, PTL
     DEF Spec, ImplementsMatch, Abstract!Spec

-----------------------------------------------------------------------------
(***************************************************************************)
(* What the room counts on: each call of the engine does to a match what   *)
(* MatchSteps says.                                                        *)
(***************************************************************************)
LEMMA SeenParts ==
  ASSUME NEW g
  PROVE  /\ Seen(g).stage = Stage(g) /\ Seen(g).active = In(g)
         /\ Seen(g).unplaced = Unplaced(g)
         /\ ~ Over(g) => Seen(g).turn = g.current
         /\ Seen(g) = [Seen(g) EXCEPT !.turn = Seen(g).turn]
BY DEF Seen, In, Over

\* The match g as it is seen, with another turn.
LEMMA SeenWithTurn ==
  ASSUME NEW g, NEW t
  PROVE  [Seen(g) EXCEPT !.turn = t]
           = [stage |-> Stage(g), active |-> In(g), turn |-> t, unplaced |-> Unplaced(g)]
BY DEF Seen, In

LEMMA SameSeen ==
  ASSUME NEW g, NEW h, Stage(h) = Stage(g), In(h) = In(g), Unplaced(h) = Unplaced(g)
  PROVE  Seen(h) = [Seen(g) EXCEPT !.turn = Seen(h).turn]
BY DEF Seen, In

\* One player is left exactly when the match is over, and the turn is of one
\* who is in.
LEMMA OneIsLeft ==
  ASSUME NEW g, Safe(g)
  PROVE  /\ Cardinality(In(g)) = 1 <=> Over(g)
         /\ Over(g) => In(g) = {g.winner} /\ Unplaced(g) = {}
         /\ Seen(g).turn \in In(g)
<1>1. Decided(g)
  BY SafeDecided
<1>2. CASE Over(g)
  <2>1. g.winner \in Player /\ In(g) = {g.winner}
    BY <1>1, <1>2 DEF Decided, Over, In
  <2>2. Unplaced(g) = {} /\ Seen(g).turn = g.winner
    BY <1>2 DEF Unplaced, Over, Seen
  <2>3. Cardinality(In(g)) = 1
    BY <2>1, FS_Singleton
  <2> QED
    BY <1>2, <2>1, <2>2, <2>3
<1>3. CASE ~ Over(g)
  <2>1. Cardinality(In(g)) >= 2
    BY <1>1, <1>3 DEF Decided, Over, In
  <2>2. Cardinality(In(g)) # 1
    BY <2>1
  <2> QED
    BY <1>3, <2>2, WhoIsIn, SeenParts
<1> QED
  BY <1>2, <1>3

\* The players in out have left the match g, and it is now h.
LEMMA SeenAfterOut ==
  ASSUME NEW g, NEW h, Safe(g), Safe(h), ~ Over(g), NEW out, In(h) = In(g) \ out,
         ~ Over(h) => Unplaced(h) = Unplaced(g) \ out,
         NEW t \in In(h), g.current \in In(h) => t = g.current
  PROVE  [Seen(h) EXCEPT !.turn = t] \in AfterOut(Seen(g), out)
<1> DEFINE active == Seen(g).active \ out
           over   == Cardinality(active) = 1
           late   == IF over THEN {} ELSE Seen(g).unplaced \ out
           stage  == IF over THEN "over"
                     ELSE IF Seen(g).stage = "opening" /\ late # {} THEN "opening"
                     ELSE "turns"
<1>1. active = In(h) /\ Seen(g).turn = g.current /\ Seen(g).unplaced = Unplaced(g)
      /\ Seen(g).stage = Stage(g)
  BY SeenParts
<1>2. over <=> Over(h)
  BY <1>1, OneIsLeft
<1>3. late = Unplaced(h)
  BY <1>1, <1>2, OneIsLeft
<1>4. stage = Stage(h)
  <2>1. CASE Over(h)
    BY <1>2, <2>1, StageFits
  <2>2. CASE ~ Over(h)
    <3>1. Stage(h) = IF Unplaced(h) = {} THEN "turns" ELSE "opening"
      BY <2>2, StageFits
    <3>2. Stage(g) = IF Unplaced(g) = {} THEN "turns" ELSE "opening"
      BY StageFits
    <3>3. Unplaced(h) \subseteq Unplaced(g)
      BY <2>2
    <3> HIDE DEF late, over
    <3> QED
      BY <1>1, <1>2, <1>3, <2>2, <3>1, <3>2, <3>3
  <2> QED
    BY <2>1, <2>2
<1>5. t \in IF Seen(g).turn \in active THEN {Seen(g).turn} ELSE active
  BY <1>1
<1>6. AfterOut(Seen(g), out)
        = {[stage |-> stage, active |-> active, turn |-> turn, unplaced |-> late] :
             turn \in IF Seen(g).turn \in active THEN {Seen(g).turn} ELSE active}
  BY DEF AfterOut
<1> HIDE DEF stage, active, late
<1>7. [Seen(h) EXCEPT !.turn = t]
        = [stage |-> stage, active |-> active, turn |-> t, unplaced |-> late]
  BY <1>1, <1>3, <1>4, SeenWithTurn
<1> QED
  BY <1>5, <1>6, <1>7

\* A move in a turn takes out one player at most.
LEMMA SeenTurned ==
  ASSUME NEW g, NEW h, Safe(g), Safe(h), Exact(g), NEW who \in Player, Turned(g, h, who)
  PROVE  Stage(g) = "turns" /\ Seen(h) \in AfterMove(Seen(g))
<1>1. /\ Stage(g) = "turns" /\ Stage(h) # "opening" /\ who \in In(g)
      /\ In(h) = In(g) \/ In(h) = In(g) \ {who}
      /\ Unplaced(g) = {} /\ Unplaced(h) = {}
  BY TurnedStep
<1>2. ~ Over(g)
  BY DEF Turned
<1>3. Seen(h).turn \in In(h) /\ In(h) # {}
  BY OneIsLeft
<1> DEFINE before == {Seen(g)} \cup UNION {AfterOut(Seen(g), {p}) : p \in In(g)}
<1>4. SUFFICES \E k \in before :
                 k.active = In(h) /\ Seen(h) = [k EXCEPT !.turn = Seen(h).turn]
  <2>1. AfterMove(Seen(g)) = UNION {{[k EXCEPT !.turn = p] : p \in k.active} : k \in before}
    BY SeenParts DEF AfterMove
  <2> HIDE DEF before
  <2>2. PICK k \in before : k.active = In(h) /\ Seen(h) = [k EXCEPT !.turn = Seen(h).turn]
    BY <1>4
  <2>3. Seen(h) \in {[k EXCEPT !.turn = p] : p \in k.active}
    BY <1>3, <2>2
  <2> QED
    BY <1>1, <2>1, <2>3
<1>5. CASE In(h) = In(g)
  <2>1. ~ Over(h)
    BY <1>2, <1>5, OneIsLeft
  <2>2. Stage(h) = "turns"
    BY <1>1, <2>1, StageFits
  <2>3. Seen(h) = [Seen(g) EXCEPT !.turn = Seen(h).turn]
    BY <1>1, <1>5, <2>2, SameSeen
  <2>4. Seen(g) \in before
    OBVIOUS
  <2>5. Seen(g).active = In(h)
    BY <1>5, SeenParts
  <2> HIDE DEF before
  <2> QED
    BY <2>3, <2>4, <2>5
<1>6. CASE In(h) = In(g) \ {who}
  <2> DEFINE t == IF g.current \in In(h) THEN g.current ELSE Seen(h).turn
             k == [Seen(h) EXCEPT !.turn = t]
  <2>1. t \in In(h) /\ (g.current \in In(h) => t = g.current)
    BY <1>3
  <2>2. Unplaced(h) = Unplaced(g) \ {who}
    BY <1>1
  <2> HIDE DEF t
  <2>3. k \in AfterOut(Seen(g), {who})
    BY <1>2, <1>6, <2>1, <2>2, SeenAfterOut
  <2>4. k.active = In(h) /\ Seen(h) = [k EXCEPT !.turn = Seen(h).turn]
    <3>1. k = [stage |-> Stage(h), active |-> In(h), turn |-> t, unplaced |-> Unplaced(h)]
      BY SeenWithTurn
    <3>2. Seen(h) = [stage |-> Stage(h), active |-> In(h), turn |-> Seen(h).turn,
                     unplaced |-> Unplaced(h)]
      BY DEF Seen, In
    <3> HIDE DEF k
    <3> QED
      BY <3>1, <3>2
  <2> HIDE DEF k
  <2> QED
    BY <1>1, <2>3, <2>4
<1> QED
  BY <1>1, <1>5, <1>6

LEMMA SeenQuiet ==
  ASSUME NEW g, NEW h, Safe(g), Drawn(g, h) \/ Guessed(g, h)
  PROVE  Stage(g) = "turns" /\ Seen(h) \in AfterMove(Seen(g))
<1>1. /\ Stage(h) = Stage(g) /\ In(h) = In(g)
      /\ h.current = g.current /\ Unplaced(h) = Unplaced(g)
  BY QuietStep
<1>2. Stage(g) = "turns" /\ ~ Over(g) /\ ~ Over(h)
  BY DEF Drawn, Guessed, Stage, Over
<1>3. g.current \in In(g)
  BY <1>2, WhoIsIn
<1>4. Seen(h) = [Seen(g) EXCEPT !.turn = g.current]
  <2>1. Seen(h).turn = g.current
    BY <1>1, <1>2, SeenParts
  <2> QED
    BY <1>1, <2>1, SameSeen
<1>5. Seen(g).active = In(g)
  BY SeenParts
<1> QED
  BY <1>2, <1>3, <1>4, <1>5 DEF AfterMove

LEMMA PlacingOf ==
  ASSUME NEW stage, NEW in, NEW turn, NEW late, NEW p, NEW after,
         stage = "opening", after = (IF late = {p} THEN "turns" ELSE stage)
  PROVE  [stage |-> after, active |-> in, turn |-> turn, unplaced |-> late \ {p}]
           \in AfterPlacing([stage |-> stage, active |-> in, turn |-> turn,
                             unplaced |-> late], p)
<1> DEFINE g == [stage |-> stage, active |-> in, turn |-> turn, unplaced |-> late]
           rest == late \ {p}
<1>1. g.unplaced = late /\ g.stage = stage
  OBVIOUS
<1>2. AfterPlacing(g, p) = {g, [g EXCEPT !.unplaced = rest, !.stage = after]}
  <2> HIDE DEF g
  <2> QED
    BY <1>1 DEF AfterPlacing
<1> DEFINE placed == [g EXCEPT !.unplaced = rest]
<1> HIDE DEF rest
<1>3. placed = [stage |-> stage, active |-> in, turn |-> turn, unplaced |-> rest]
  OBVIOUS
<1> HIDE DEF placed
<1>4. [placed EXCEPT !.stage = after]
        = [stage |-> after, active |-> in, turn |-> turn, unplaced |-> rest]
  BY <1>3
<1>5. AfterPlacing(g, p) = {g, [placed EXCEPT !.stage = after]}
  BY <1>2 DEF placed
<1> HIDE DEF g
<1>6. [stage |-> after, active |-> in, turn |-> turn, unplaced |-> rest] \in AfterPlacing(g, p)
  BY <1>4, <1>5
<1> QED
  BY <1>6 DEF g, rest

LEMMA SeenPlaced ==
  ASSUME NEW g, NEW h, Safe(g), Safe(h), NEW p \in Player, Placed(g, h, p)
  PROVE  /\ Stage(g) = "opening" /\ p \in Unplaced(g)
         /\ Seen(h) \in AfterPlacing(Seen(g), p)
<1>1. /\ Stage(g) = "opening" /\ ~ Over(g) /\ ~ Over(h)
      /\ In(h) = In(g) /\ h.current = g.current
      /\ p \in Unplaced(g)
      /\ Unplaced(h) = Unplaced(g) \/ Unplaced(h) = Unplaced(g) \ {p}
  BY PlacedStep
<1>2. Stage(h) = IF Unplaced(h) = {} THEN "turns" ELSE "opening"
  BY <1>1, StageFits
<1>3. CASE Unplaced(h) = Unplaced(g)
  <2>1. Seen(h) = Seen(g)
    BY <1>1, <1>2, <1>3 DEF Seen, In, Over
  <2> QED
    BY <1>1, <2>1 DEF AfterPlacing
<1>4. CASE Unplaced(h) = Unplaced(g) \ {p}
  <2>1. Unplaced(h) = {} <=> Unplaced(g) = {p}
    BY <1>1, <1>4
  <2>2. Seen(h) = [stage |-> IF Unplaced(g) = {p} THEN "turns" ELSE "opening",
                   active |-> In(g), turn |-> g.current, unplaced |-> Unplaced(g) \ {p}]
    <3>1. Stage(h) = IF Unplaced(g) = {p} THEN "turns" ELSE "opening"
      BY <1>2, <1>4, <2>1
    <3>2. Seen(h) = [stage |-> Stage(h), active |-> In(h), turn |-> h.current,
                     unplaced |-> Unplaced(h)]
      BY <1>1 DEF Seen, In, Over
    <3> QED
      BY <1>1, <1>4, <3>1, <3>2
  <2>3. Seen(g) = [stage |-> "opening", active |-> In(g), turn |-> g.current,
                   unplaced |-> Unplaced(g)]
    BY <1>1 DEF Seen, In, Over
  <2> QED
    BY <1>1, <2>2, <2>3, PlacingOf
<1> QED
  BY <1>1, <1>3, <1>4

LEMMA SeenMove ==
  ASSUME Safe(game), Exact(game), Move
  PROVE  Moves(Seen(game), Seen(game'))
<1>0. Safe(game')
  BY NextSafe DEF Next
<1>1. \/ Drawn(game, game') \/ Guessed(game, game')
      \/ \E p \in Player : Placed(game, game', p) \/ Turned(game, game', p)
  <2>1. ASSUME NEW p \in Player, NEW target \in Player, NEW card, NEW guess,
               ResolveGuess(p, target, card, guess)
        PROVE  Guessed(game, game') \/ Turned(game, game', target)
    <3>1. /\ game.phase = "guess" /\ p = game.current
          /\ target # p /\ target \notin game.eliminated
          /\ card \in ToSet(game.rack[target]) /\ card \notin game.revealed
          /\ game' = AfterCorrectGuess(card) \/ game' = AfterWrongGuess
      BY <2>1 DEF ResolveGuess, IsActor, GuessTarget
    <3> QED
      BY <3>1, CorrectGuessEffect, WrongGuessEffect
  <2> QED
    BY <2>1, DrawEffect, StopEffect, InsertEffect, PlaceEffect, SelfPenaltyEffect DEF Move
<1>2. Stage(game) = "turns" /\ Seen(game') \in AfterMove(Seen(game)) =>
        Moves(Seen(game), Seen(game'))
  BY SeenParts DEF Moves
<1>3. ASSUME NEW p \in Player, Placed(game, game', p)
      PROVE  Moves(Seen(game), Seen(game'))
  <2>1. /\ Stage(game) = "opening" /\ p \in Unplaced(game)
        /\ Seen(game') \in AfterPlacing(Seen(game), p)
    BY <1>0, <1>3, SeenPlaced
  <2> QED
    BY <2>1, SeenParts DEF Moves
<1> QED
  BY <1>0, <1>1, <1>2, <1>3, SeenQuiet, SeenTurned

\* A forfeit takes out the player who gives up and nobody else, and the turn
\* of another player goes on.
LEMMA ForfeitTakesOne ==
  ASSUME NEW g, Safe(g), Exact(g), ~ Over(g), NEW p \in Player, p \notin g.eliminated
  PROVE  LET h == ForfeitPlayer(g, p)
         IN  /\ Safe(h) /\ Exact(h)
             /\ h.eliminated = g.eliminated \cup {p}
             /\ p # g.current => h.current = g.current
<1> DEFINE shown == Surrendered(g, p)
           u == UpdateEndGame(shown)
           h == ForfeitPlayer(g, p)
<1>0. g \in GameState /\ PlayersFit(g)
  BY DEF Safe
<1>1. Safe(h) /\ Exact(h)
  BY ForfeitSafe, ForfeitTurns, ForfeitOpens DEF Over, Turned
<1>2. /\ shown \in GameState
      /\ \E q \in Player : Hidden(shown, q)
      /\ \A q \in Player : q # p /\ Hidden(g, q) => Hidden(shown, q)
      /\ shown.winner = g.winner /\ shown.current = g.current /\ ~ Over(shown)
  BY SurrenderedFacts DEF Over
<1>3. p \in Out(shown) /\ g.eliminated \subseteq Out(shown)
  BY SurrenderedOut
<1>4. Out(shown) = g.eliminated \cup {p}
  BY <1>2, <1>3 DEF Exact, Out, Hidden
<1>5. shown.winner = NoPlayer
  BY <1>0, <1>2 DEF PlayersFit, Over
<1>6. h = IF Over(u) THEN u
          ELSE IF g.phase = "starter-place"
          THEN [u EXCEPT !.current = IF p = g.current THEN NextActive(u, p) ELSE @,
                         !.phase = IF HasPendingStartingJokerPlacements(u)
                                   THEN "starter-place" ELSE "draw"]
          ELSE IF p = g.current THEN AdvanceTurn(u) ELSE u
  BY DEF ForfeitPlayer, Surrendered, Over
<1> HIDE DEF shown, h
<1>7. u \in GameState /\ u.current = g.current /\ u.eliminated = g.eliminated \cup {p}
      /\ \E q \in Player : q \notin u.eliminated
  <2>1. u \in GameState /\ u.current = shown.current /\ u.eliminated = Out(shown)
    BY <1>2, <1>5, UpdateEndGameFacts DEF Over, Out
  <2> HIDE DEF u
  <2> QED
    BY <1>2, <1>4, <2>1 DEF Out, Hidden
<1> HIDE DEF u
<1>8. CASE Over(u) \/ (g.phase # "starter-place" /\ p # g.current)
  BY <1>1, <1>6, <1>7, <1>8 DEF h
<1>9. CASE ~ Over(u) /\ g.phase = "starter-place"
  <2> DEFINE next == IF p = g.current THEN NextActive(u, p) ELSE u.current
             stage == IF HasPendingStartingJokerPlacements(u) THEN "starter-place" ELSE "draw"
  <2>1. h = [u EXCEPT !.current = next, !.phase = stage]
    BY <1>6, <1>9
  <2>2. p # g.current => next = g.current
    BY <1>7
  <2> HIDE DEF next, stage
  <2>3. h.eliminated = u.eliminated /\ h.current = next
    BY <1>7, <2>1 DEF GameState
  <2> QED
    BY <1>1, <1>7, <2>2, <2>3 DEF h
<1>10. CASE ~ Over(u) /\ g.phase # "starter-place" /\ p = g.current
  <2>1. h = AdvanceTurn(u)
    BY <1>6, <1>10
  <2>2. AdvanceTurn(u).eliminated = u.eliminated
    BY <1>7, AdvanceTurnFacts
  <2> QED
    BY <1>1, <1>7, <1>10, <2>1, <2>2 DEF h
<1> QED
  BY <1>8, <1>9, <1>10

LEMMA SeenForfeit ==
  ASSUME NEW g, Safe(g), Exact(g), ~ Over(g), NEW p \in Player, p \notin g.eliminated
  PROVE  Seen(ForfeitPlayer(g, p)) \in AfterOut(Seen(g), {p})
<1> DEFINE h == ForfeitPlayer(g, p)
<1>1. /\ Safe(h) /\ h.eliminated = g.eliminated \cup {p}
      /\ p # g.current => h.current = g.current
  BY ForfeitTakesOne
<1>2. In(h) = In(g) \ {p} /\ p \in In(g)
  BY <1>1 DEF In
<1>3. ~ Over(h) => Unplaced(h) = Unplaced(g) \ {p}
  <2>1. CASE g.phase = "starter-place"
    <3>1. Opened(g, h)
      BY <2>1, ForfeitOpens
    <3> HIDE DEF h
    <3>2. h.eliminated # g.eliminated
      BY <1>1
    <3>3. ~ Over(h) => Unplaced(h) = Unplaced(g) \ (In(g) \ In(h))
      BY <1>1, <3>1, <3>2, OpenedStep
    <3> QED
      BY <1>2, <3>3
  <2>2. CASE g.phase # "starter-place"
    <3>1. Turned(g, h, p)
      BY <2>2, ForfeitTurns
    <3> HIDE DEF h
    <3> QED
      BY <1>1, <3>1, TurnedStep
  <2> QED
    BY <2>1, <2>2
<1> DEFINE t == Seen(h).turn
<1> HIDE DEF h
<1>4. t \in In(h)
  BY <1>1, OneIsLeft
<1>5. g.current \in In(h) => t = g.current
  <2>1. CASE Over(h)
    <3>1. In(h) = {h.winner}
      BY <1>1, <2>1, OneIsLeft
    <3> QED
      BY <1>4, <3>1
  <2>2. CASE ~ Over(h)
    BY <1>1, <1>2, <2>2, SeenParts
  <2> QED
    BY <2>1, <2>2
<1>6. [Seen(h) EXCEPT !.turn = t] \in AfterOut(Seen(g), {p})
  BY <1>1, <1>2, <1>3, <1>4, <1>5, SeenAfterOut
<1>7. Seen(h) \in AfterOut(Seen(g), {p})
  BY <1>6, SeenParts
<1> QED
  BY <1>7 DEF h

\* The deadline of the opening.  When the loop has come to player i, those up
\* to i who were late are out, or the match is over before.
Late(i) == {q \in Unplaced(game) : q <= i}

Deadline(t, i) ==
  /\ Looped(t, i) /\ Exact(t)
  /\ t.eliminated \subseteq game.eliminated \cup Unplaced(game)
  /\ ~ Over(t) => t.eliminated = game.eliminated \cup Late(i)

\* Who has a Joker to place is in.
LEMMA LateAreIn ==
  ASSUME NEW g, Safe(g)
  PROVE  Unplaced(g) \subseteq In(g)
BY DEF Safe, PhaseFits, PlayersFit, Unplaced, In, Hidden

LEMMA DeadlineStep ==
  ASSUME Safe(game), game.phase = "starter-place", NEW t, NEW i \in 0..5,
         Deadline(t, i - 1)
  PROVE  Deadline(TimeoutStep(t, i), i)
<1> DEFINE h == TimeoutStep(t, i)
<1>1. Looped(h, i)
  BY LoopStep DEF Deadline
<1>2. /\ Safe(t) /\ Exact(t) /\ Looped(t, i - 1)
      /\ t.eliminated \subseteq game.eliminated \cup Unplaced(game)
      /\ ~ Over(t) => t.eliminated = game.eliminated \cup Late(i - 1)
  BY DEF Deadline, Looped
<1>3. \A q \in Player : t.pendingJokers[q] # <<>> => game.pendingJokers[q] # <<>>
  BY DEF Deadline, Looped, Opened
<1>4. \A q \in Player : q \in Unplaced(game) <=> game.pendingJokers[q] # <<>>
  BY DEF Unplaced
<1>5. Unplaced(game) \subseteq Player /\ Player \subseteq Nat /\ Unplaced(game) \subseteq In(game)
  BY HandNumbers, LateAreIn DEF Unplaced
<1>6. Late(i) = IF i \in Unplaced(game) THEN Late(i - 1) \cup {i} ELSE Late(i - 1)
  <2> DEFINE late == Unplaced(game)
  <2>1. \A q \in late : q <= i <=> q <= i - 1 \/ q = i
    <3>1. \A q \in Nat : q <= i <=> q <= i - 1 \/ q = i
      OBVIOUS
    <3>2. late \subseteq Nat
      BY <1>5
    <3> HIDE DEF late
    <3> QED
      BY <3>1, <3>2
  <2>2. {q \in late : q <= i} = {q \in late : q <= i - 1} \cup {q \in late : q = i}
    BY <2>1
  <2>3. {q \in late : q = i} = IF i \in late THEN {i} ELSE {}
    OBVIOUS
  <2> QED
    BY <2>2, <2>3 DEF Late
<1>7. CASE i \notin Player \/ Over(t) \/ t.pendingJokers[i] = <<>> \/ i \in t.eliminated
  <2>1. h = t
    BY <1>7 DEF TimeoutStep, Over
  <2>2. ASSUME ~ Over(t)
        PROVE  i \notin Unplaced(game)
    <3> SUFFICES ASSUME i \in Unplaced(game)
                 PROVE  FALSE
      OBVIOUS
    <3>1. i \in Player /\ game.pendingJokers[i] # <<>> /\ i \notin game.eliminated
      BY <1>4, <1>5 DEF In
    <3>2. i \notin Late(i - 1)
      BY DEF Late
    <3>3. i \notin t.eliminated
      BY <1>2, <2>2, <3>1, <3>2
    <3>4. t.pendingJokers[i] = <<>>
      BY <1>7, <2>2, <3>1, <3>3
    <3> QED
      BY <1>2, <2>2, <3>1, <3>3, <3>4 DEF Looped, Opened
  <2> HIDE DEF h
  <2> QED
    BY <1>1, <1>2, <1>6, <2>1, <2>2 DEF Deadline, h
<1>8. CASE ~ (i \notin Player \/ Over(t) \/ t.pendingJokers[i] = <<>> \/ i \in t.eliminated)
  <2>1. h = ForfeitPlayer(t, i)
    BY <1>8 DEF TimeoutStep, Over
  <2>2. Exact(h) /\ h.eliminated = t.eliminated \cup {i}
    BY <1>2, <1>8, <2>1, ForfeitTakesOne
  <2>3. i \in Unplaced(game)
    BY <1>3, <1>4, <1>8
  <2> HIDE DEF h
  <2>4. h.eliminated = game.eliminated \cup Late(i)
    BY <1>2, <1>6, <1>8, <2>2, <2>3
  <2>5. Late(i) \subseteq Unplaced(game)
    BY DEF Late
  <2> QED
    BY <1>1, <2>2, <2>4, <2>5 DEF Deadline, h
<1> QED
  BY <1>7, <1>8

LEMMA DeadlineEffect ==
  ASSUME Safe(game), Exact(game), game.phase = "starter-place"
  PROVE  Deadline(StartingJokersTimeout, 5)
<1> DEFINE t0 == TimeoutStep(game, 0)  t1 == TimeoutStep(t0, 1)
           t2 == TimeoutStep(t1, 2)    t3 == TimeoutStep(t2, 3)
           t4 == TimeoutStep(t3, 4)    t5 == TimeoutStep(t4, 5)
<1>0. NumPlayers \in 3..6 /\ Player = 0..(NumPlayers - 1) /\ Unplaced(game) \subseteq Player
  BY GameAssumption DEF Player, Unplaced
<1>1. StartingJokersTimeout = t5
  BY DEF StartingJokersTimeout
<1>2. Deadline(game, 0 - 1)
  <2>1. \A q \in Player : ~ (q <= 0 - 1)
    BY <1>0
  <2>2. Late(0 - 1) = {}
    BY <1>0, <2>1 DEF Late
  <2> QED
    BY <2>1, <2>2 DEF Deadline, Looped
<1>3. Deadline(t0, 1 - 1)
  BY <1>2, DeadlineStep
<1> HIDE DEF t0
<1>4. Deadline(t1, 2 - 1)
  BY <1>3, DeadlineStep
<1> HIDE DEF t1
<1>5. Deadline(t2, 3 - 1)
  BY <1>4, DeadlineStep
<1> HIDE DEF t2
<1>6. Deadline(t3, 4 - 1)
  BY <1>5, DeadlineStep
<1> HIDE DEF t3
<1>7. Deadline(t4, 5 - 1)
  BY <1>6, DeadlineStep
<1> HIDE DEF t4
<1>8. Deadline(t5, 5)
  BY <1>7, DeadlineStep
<1> QED
  BY <1>1, <1>8

\* What the room sees of the end of the opening: everyone who is late is out,
\* but the last of the players.
LEMMA SeenDeadline ==
  ASSUME NEW g, NEW h, Safe(g), Safe(h), ~ Over(g), Opened(g, h),
         h.eliminated # g.eliminated,
         h.eliminated \subseteq g.eliminated \cup Unplaced(g),
         ~ Over(h) => h.eliminated = g.eliminated \cup Unplaced(g)
  PROVE  Seen(h) \in AfterTimeout(Seen(g))
<1> DEFINE late == Unplaced(g)
           out  == In(g) \ In(h)
           turn == Seen(h).turn
<1>1. /\ Seen(g).stage = "opening" /\ Seen(g).active = In(g) /\ Seen(g).unplaced = late
  BY SeenParts, OpenedStep
<1>2. late \subseteq In(g)
  BY LateAreIn
<1>3. In(h) = In(g) \ out /\ out \subseteq late
  BY DEF Opened, In
<1>4. ~ Over(h) => out = late /\ Unplaced(h) = late \ out
  <2>1. ~ Over(h) => Unplaced(h) = late \ out
    BY OpenedStep
  <2>2. ~ Over(h) => out = late
    BY <1>2 DEF In
  <2> QED
    BY <2>1, <2>2
<1>5. turn \in In(h) /\ (Over(h) => In(h) = {h.winner})
  BY OneIsLeft
<1>6. g.current \in In(h) => turn = g.current
  <2>1. CASE Over(h)
    <3>1. In(h) = {h.winner} /\ h.winner = turn
      BY <1>5, <2>1
    <3>2. g.current \in In(h) => h.current = g.current \/ g.current = h.winner
      BY <3>1
    <3> QED
      BY <3>1
  <2>2. CASE ~ Over(h)
    <3>1. turn = h.current
      BY <2>2, SeenParts
    <3> QED
      BY <2>2, <3>1 DEF Opened
  <2> QED
    BY <2>1, <2>2
<1>7. Seen(h) = [Seen(h) EXCEPT !.turn = turn]
  BY SeenParts
<1> HIDE DEF out, turn
<1>8. [Seen(h) EXCEPT !.turn = turn] \in AfterOut(Seen(g), out)
  BY <1>3, <1>4, <1>5, <1>6, SeenAfterOut
<1>9. Seen(h) \in AfterOut(Seen(g), out)
  BY <1>7, <1>8
<1> HIDE DEF late
<1>10. CASE late # In(g)
  <2>1. out = late
    BY <1>2, <1>3, <1>4, <1>5, <1>10
  <2> QED
    BY <1>1, <1>9, <1>10, <2>1 DEF AfterTimeout
<1>11. CASE late = In(g)
  <2>1. Over(h)
    BY <1>3, <1>4, <1>5, <1>11
  <2>2. out = In(g) \ {h.winner} /\ h.winner \in In(g)
    BY <1>3, <1>5, <2>1 DEF out
  <2> QED
    BY <1>1, <1>9, <1>11, <2>2 DEF AfterTimeout
<1> QED
  BY <1>10, <1>11

LEMMA SeenTimeout ==
  ASSUME Safe(game), Exact(game), game.phase = "starter-place"
  PROVE  Seen(StartingJokersTimeout) \in AfterTimeout(Seen(game))
<1> DEFINE h == StartingJokersTimeout
<1>1. /\ h.eliminated \subseteq game.eliminated \cup Unplaced(game)
      /\ ~ Over(h) => h.eliminated = game.eliminated \cup Late(5)
      /\ Opened(game, h) /\ h.eliminated # game.eliminated /\ Safe(h)
  BY DeadlineEffect, TimeoutEffect DEF Deadline, Looped
<1>2. Late(5) = Unplaced(game)
  <2>1. NumPlayers \in 3..6 /\ Player = 0..(NumPlayers - 1) /\ Unplaced(game) \subseteq Player
    BY GameAssumption DEF Player, Unplaced
  <2> QED
    BY <2>1 DEF Late
<1> HIDE DEF h
<1>3. Seen(h) \in AfterTimeout(Seen(game))
  BY <1>1, <1>2, SeenDeadline DEF Over
<1> QED
  BY <1>3 DEF h

\* The engine does what the room counts on, in matches of any size and any
\* cards: whatever Room proves of its matches is so of those the engine plays.
THEOREM TheRoomIsRight ==
  ASSUME BaseHand >= 3
  PROVE  Spec => RoomSeesTheMatch
<1>1. Init => Seen(game) \in NewMatches(Player)
  <2> SUFFICES ASSUME Init PROVE Seen(game) \in NewMatches(Player)
    OBVIOUS
  <2>1. /\ Unplaced(game) \in SUBSET Player /\ game.current \in Player
        /\ Stage(game) = IF Unplaced(game) = {} THEN "turns" ELSE "opening"
        /\ ~ Over(game) /\ In(game) = Player
    <3>1. PICK o \in Openings : game = CreateGame(o)
      BY DEF Init
    <3>2. Safe(game)
      BY InitSafe
    <3>3. ~ Over(game) /\ game.eliminated = {}
      BY <3>1 DEF CreateGame, Over
    <3> QED
      BY <3>2, <3>3, StageFits, WhoIsIn DEF In
  <2>2. Seen(game) = [stage |-> Stage(game), active |-> Player, turn |-> game.current,
                      unplaced |-> Unplaced(game)]
    BY <2>1 DEF Seen, In, Over
  <2> QED
    BY <2>1, <2>2 DEF NewMatches
<1>2. Safe(game) /\ Exact(game) =>
        (Stage(game) # "over" =>
           \A p \in Player \ game.eliminated :
             Seen(ForfeitPlayer(game, p)) \in AfterOut(Seen(game), {p}))
  BY SeenForfeit DEF Stage, Over
<1>3. Safe(game) /\ Exact(game) =>
        (Stage(game) = "opening" =>
           Seen(StartingJokersTimeout) \in AfterTimeout(Seen(game)))
  BY SeenTimeout DEF Stage
<1>4. Safe(game) /\ Exact(game) /\ [Next]_vars =>
        [Moves(Seen(game), Seen(game')) \/ ~ Move]_vars
  BY SeenMove
<1> QED
  BY <1>1, <1>2, <1>3, <1>4, MatchIsSafe, MatchIsExact, PTL DEF Spec, RoomSeesTheMatch

-----------------------------------------------------------------------------
(***************************************************************************)
(* Every step is progress, so the action timer ends the match.             *)
(***************************************************************************)
\* The sets the measure counts, besides the draw pile.
Unrevealed(g) == Card \ g.revealed

Waiting(g) == UNION {ToSet(g.pendingJokers[p]) : p \in Player}

LEMMA Fewer ==
  ASSUME NEW S, IsFiniteSet(S), NEW T \in SUBSET S
  PROVE  /\ Cardinality(S) \in Nat /\ Cardinality(T) \in Nat
         /\ Cardinality(T) <= Cardinality(S)
         /\ \A x \in S : x \notin T => Cardinality(T) < Cardinality(S)
<1>1. /\ Cardinality(S) \in Nat /\ Cardinality(T) \in Nat
      /\ Cardinality(T) <= Cardinality(S)
      /\ Cardinality(S) = Cardinality(T) => S = T
  BY FS_Subset, FS_CardinalityType
<1>2. ASSUME NEW x \in S, x \notin T
      PROVE  Cardinality(T) < Cardinality(S)
  <2>1. S # T
    BY <1>2
  <2> QED
    BY <1>1, <2>1
<1> QED
  BY <1>1, <1>2

\* The measure is made of numbers.
LEMMA MeasureParts ==
  ASSUME NEW g, Safe(g)
  PROVE  /\ Len(g.drawPile) \in Nat
         /\ IsFiniteSet(Unrevealed(g)) /\ IsFiniteSet(In(g)) /\ IsFiniteSet(Waiting(g))
         /\ Cardinality(Unrevealed(g)) \in Nat /\ Cardinality(In(g)) \in Nat
         /\ Cardinality(Waiting(g)) \in Nat
         /\ Cardinality(Table(g)) = IF g.pendingDraw = NoCard THEN 0 ELSE 1
         /\ Measure(g) = 2 * (  2 * Len(g.drawPile) + Cardinality(Table(g))
                              + Cardinality(Unrevealed(g)) + Cardinality(In(g))
                              + Cardinality(Waiting(g)))
                         + (IF g.phase = "guess" THEN 1 ELSE 0)
<1>1. g.drawPile \in Seq(Card) /\ g.pendingJokers \in [Player -> Seq(Card)]
  BY StateParts DEF Safe
<1>2. Len(g.drawPile) \in Nat
  BY <1>1, LenProperties
<1>3. \A p \in Player : ToSet(g.pendingJokers[p]) \subseteq Card
  <2>1. \A p \in Player : ToSet(g.pendingJokers[p]) \subseteq Joker
    BY DEF Safe, CardsFit
  <2> QED
    BY <2>1, CardsAssumption
<1>4. Waiting(g) \in SUBSET Card /\ Unrevealed(g) \in SUBSET Card /\ In(g) \in SUBSET Player
  BY <1>3 DEF Waiting, Unrevealed, In
<1>5. IsFiniteSet(Card) /\ IsFiniteSet(Player)
  BY CardsAssumption, HandNumbers
<1>6. /\ IsFiniteSet(Unrevealed(g)) /\ IsFiniteSet(In(g)) /\ IsFiniteSet(Waiting(g))
  BY <1>4, <1>5, FS_Subset
<1>7. /\ Cardinality(Unrevealed(g)) \in Nat /\ Cardinality(In(g)) \in Nat
      /\ Cardinality(Waiting(g)) \in Nat
  BY <1>6, FS_CardinalityType
<1>8. Cardinality(Table(g)) = IF g.pendingDraw = NoCard THEN 0 ELSE 1
  <2>1. CASE g.pendingDraw = NoCard
    <3>1. Table(g) = {}
      BY <2>1 DEF Table
    <3> QED
      BY <2>1, <3>1, FS_EmptySet
  <2>2. CASE g.pendingDraw # NoCard
    <3>1. Table(g) = {g.pendingDraw}
      BY <2>2 DEF Table
    <3> QED
      BY <2>2, <3>1, FS_Singleton
  <2> QED
    BY <2>1, <2>2
<1>9. Measure(g) = 2 * (  2 * Len(g.drawPile) + Cardinality(Table(g))
                        + Cardinality(Unrevealed(g)) + Cardinality(In(g))
                        + Cardinality(Waiting(g)))
                   + (IF g.phase = "guess" THEN 1 ELSE 0)
  BY DEF Measure, Table, Unrevealed, In, Waiting
<1> QED
  BY <1>2, <1>6, <1>7, <1>8, <1>9

\* A measure falls when it is of smaller sets.
LEMMA MeasureFalls ==
  ASSUME NEW g, NEW h, Safe(g), Safe(h),
         Unrevealed(h) \subseteq Unrevealed(g), In(h) \subseteq In(g),
         Waiting(h) \subseteq Waiting(g),
         \/ /\ Len(h.drawPile) = Len(g.drawPile) - 1
            /\ g.phase # "guess"
         \/ /\ Len(h.drawPile) = Len(g.drawPile)
            /\ h.pendingDraw = g.pendingDraw \/ h.pendingDraw = NoCard
            /\ \/ g.phase = "guess" /\ h.phase # "guess"
               \/ g.pendingDraw # NoCard /\ h.pendingDraw = NoCard
               \/ Unrevealed(h) # Unrevealed(g)
               \/ In(h) # In(g)
               \/ Waiting(h) # Waiting(g) /\ h.phase # "guess"
  PROVE  Measure(h) < Measure(g)
<1> DEFINE gn == Len(g.drawPile)             hn == Len(h.drawPile)
           gt == Cardinality(Table(g))       ht == Cardinality(Table(h))
           gu == Cardinality(Unrevealed(g))  hu == Cardinality(Unrevealed(h))
           gi == Cardinality(In(g))          hi == Cardinality(In(h))
           gw == Cardinality(Waiting(g))     hw == Cardinality(Waiting(h))
<1>1. /\ gn \in Nat /\ gu \in Nat /\ gi \in Nat /\ gw \in Nat
      /\ gt = IF g.pendingDraw = NoCard THEN 0 ELSE 1
      /\ Measure(g) = 2 * (2 * gn + gt + gu + gi + gw)
                      + (IF g.phase = "guess" THEN 1 ELSE 0)
  BY MeasureParts
<1>2. /\ hn \in Nat /\ hu \in Nat /\ hi \in Nat /\ hw \in Nat
      /\ ht = IF h.pendingDraw = NoCard THEN 0 ELSE 1
      /\ Measure(h) = 2 * (2 * hn + ht + hu + hi + hw)
                      + (IF h.phase = "guess" THEN 1 ELSE 0)
  BY MeasureParts
<1>3. IsFiniteSet(Unrevealed(g)) /\ IsFiniteSet(In(g)) /\ IsFiniteSet(Waiting(g))
  BY MeasureParts
<1>4. hu <= gu /\ (Unrevealed(h) # Unrevealed(g) => hu < gu)
  BY <1>3, Fewer
<1>5. hi <= gi /\ (In(h) # In(g) => hi < gi)
  BY <1>3, Fewer
<1>6. hw <= gw /\ (Waiting(h) # Waiting(g) => hw < gw)
  BY <1>3, Fewer
<1> HIDE DEF gn, hn, gt, ht, gu, hu, gi, hi, gw, hw
<1>7. \/ hn = gn - 1 /\ g.phase # "guess"
      \/ /\ hn = gn
         /\ h.pendingDraw = g.pendingDraw \/ h.pendingDraw = NoCard
         /\ \/ g.phase = "guess" /\ h.phase # "guess"
            \/ g.pendingDraw # NoCard /\ h.pendingDraw = NoCard
            \/ hu < gu
            \/ hi < gi
            \/ hw < gw /\ h.phase # "guess"
  BY <1>4, <1>5, <1>6 DEF gn, hn
<1>8. gt \in {0, 1} /\ ht \in {0, 1}
      /\ (h.pendingDraw = g.pendingDraw => ht = gt)
      /\ (h.pendingDraw = NoCard => ht = 0)
      /\ (g.pendingDraw # NoCard => gt = 1)
  BY <1>1, <1>2
<1>9. CASE hn = gn - 1 /\ g.phase # "guess"
  BY <1>1, <1>2, <1>4, <1>5, <1>6, <1>8, <1>9
<1>10. CASE /\ hn = gn
            /\ h.pendingDraw = g.pendingDraw \/ h.pendingDraw = NoCard
            /\ \/ g.phase = "guess" /\ h.phase # "guess"
               \/ g.pendingDraw # NoCard /\ h.pendingDraw = NoCard
               \/ hu < gu
               \/ hi < gi
               \/ hw < gw /\ h.phase # "guess"
  <2>1. ht <= gt /\ (g.pendingDraw # NoCard /\ h.pendingDraw = NoCard => ht < gt)
    BY <1>8, <1>10
  <2> QED
    BY <1>1, <1>2, <1>4, <1>5, <1>6, <1>8, <1>10, <2>1
<1> QED
  BY <1>7, <1>9, <1>10

\* A Joker that is placed waits no longer.
LEMMA PlacedWaitsNoMore ==
  ASSUME NEW g, NEW h, Safe(g), NEW p \in Player, Placed(g, h, p)
  PROVE  Waiting(h) \subseteq Waiting(g) /\ Waiting(h) # Waiting(g)
<1> DEFINE card == Head(g.pendingJokers[p])
<1>1. g.pendingJokers \in [Player -> Seq(Card)]
  BY StateParts DEF Safe
<1>2. g.pendingJokers[p] \in Seq(Card) /\ g.pendingJokers[p] # <<>>
  BY <1>1 DEF Placed
<1>3. IsInjective(g.pendingJokers[p])
      /\ \A q \in Player : ToSet(g.pendingJokers[q]) \subseteq ToSet(g.rack[q])
  BY DEF Safe, CardsFit
<1>4. /\ ToSet(g.pendingJokers[p]) = {card} \cup ToSet(Tail(g.pendingJokers[p]))
      /\ card \notin ToSet(Tail(g.pendingJokers[p]))
  BY <1>2, <1>3, HeadTailSets
<1>5. h.pendingJokers[p] = Tail(g.pendingJokers[p])
      /\ \A q \in Player : q # p => h.pendingJokers[q] = g.pendingJokers[q]
  BY <1>1 DEF Placed
<1> HIDE DEF card
<1>6. card \in ToSet(g.rack[p]) /\ card \in Waiting(g)
  BY <1>3, <1>4 DEF Waiting
<1>7. \A q \in Player : q # p => card \notin ToSet(g.pendingJokers[q])
  <2>1. \A q \in Player : q # p => card \notin ToSet(g.rack[q])
    BY <1>6, RackCard DEF Safe
  <2> QED
    BY <1>3, <2>1
<1>8. \A q \in Player : card \notin ToSet(h.pendingJokers[q])
  BY <1>4, <1>5, <1>7
<1>9. card \notin Waiting(h)
  BY <1>8 DEF Waiting
<1>10. \A q \in Player : ToSet(h.pendingJokers[q]) \subseteq ToSet(g.pendingJokers[q])
  BY <1>4, <1>5
<1>11. Waiting(h) \subseteq Waiting(g)
  BY <1>10 DEF Waiting
<1> QED
  BY <1>6, <1>9, <1>11

LEMMA EffectFalls ==
  ASSUME NEW g, NEW h, Safe(g), Safe(h), Effect(g, h)
  PROVE  Measure(h) < Measure(g)
<1>1. g.eliminated \subseteq h.eliminated
  BY OutStaysOut
<1>2. g.revealed \subseteq h.revealed
  BY DEF Effect, Drawn, Guessed, Placed, Turned, Opened, Reveals
<1>3. Unrevealed(h) \subseteq Unrevealed(g) /\ In(h) \subseteq In(g)
  BY <1>1, <1>2 DEF Unrevealed, In
<1>4. CASE Drawn(g, h)
  <2>1. Waiting(h) = Waiting(g)
    BY <1>4 DEF Drawn, Waiting
  <2>2. Len(h.drawPile) = Len(g.drawPile) - 1 /\ g.phase # "guess"
    <3>1. g.drawPile \in Seq(Card) /\ g.drawPile # <<>> /\ h.drawPile = Tail(g.drawPile)
          /\ g.phase = "draw"
      BY <1>4, StateParts DEF Drawn, Safe
    <3> QED
      BY <3>1, HeadTailProperties
  <2> QED
    BY <1>3, <2>1, <2>2, MeasureFalls
<1>5. CASE Guessed(g, h)
  <2>1. Waiting(h) = Waiting(g)
    BY <1>5 DEF Guessed, Waiting
  <2>2. /\ h.drawPile = g.drawPile /\ h.pendingDraw = g.pendingDraw
        /\ g.phase = "guess" /\ h.phase # "guess"
    BY <1>5 DEF Guessed
  <2> QED
    BY <1>3, <2>1, <2>2, MeasureFalls
<1>6. ASSUME NEW p \in Player, Placed(g, h, p)
      PROVE  Measure(h) < Measure(g)
  <2>1. Waiting(h) \subseteq Waiting(g) /\ Waiting(h) # Waiting(g)
    BY <1>6, PlacedWaitsNoMore
  <2>2. h.drawPile = g.drawPile /\ h.pendingDraw = g.pendingDraw /\ h.phase # "guess"
    BY <1>6 DEF Placed
  <2> QED
    BY <1>3, <2>1, <2>2, MeasureFalls
<1>7. ASSUME NEW who \in Player, Turned(g, h, who)
      PROVE  Measure(h) < Measure(g)
  <2>1. Waiting(h) = Waiting(g) /\ h.drawPile = g.drawPile
    BY <1>7 DEF Turned, Waiting
  <2>2. h.pendingDraw = g.pendingDraw \/ h.pendingDraw = NoCard
    BY <1>7 DEF Turned, TableKept
  <2>3. CASE h.pendingDraw # g.pendingDraw
    BY <1>3, <2>1, <2>2, <2>3, MeasureFalls
  <2>4. ASSUME NEW c \in Card, c \in h.revealed \ g.revealed
        PROVE  Measure(h) < Measure(g)
    <3>1. Unrevealed(h) # Unrevealed(g)
      BY <2>4 DEF Unrevealed
    <3> QED
      BY <1>3, <2>1, <2>2, <3>1, MeasureFalls
  <2>5. CASE who \in h.eliminated
    <3>1. In(h) # In(g)
      BY <1>7, <2>5 DEF Turned, In
    <3> QED
      BY <1>3, <2>1, <2>2, <3>1, MeasureFalls
  <2> QED
    BY <1>7, <2>3, <2>4, <2>5 DEF Turned
<1>8. CASE Opened(g, h) /\ h.eliminated # g.eliminated
  <2>1. \A q \in Player : ToSet(h.pendingJokers[q]) \subseteq ToSet(g.pendingJokers[q])
    <3>1. ToSet(<<>>) = {}
      BY DEF ToSet
    <3> QED
      BY <1>8, <3>1 DEF Opened
  <2>2. Waiting(h) \subseteq Waiting(g)
    BY <2>1 DEF Waiting
  <2>3. In(h) # In(g)
    <3>1. h.eliminated \subseteq Player /\ g.eliminated \subseteq Player
      BY DEF Safe, GameState
    <3> QED
      BY <1>8, <3>1 DEF In
  <2>4. h.drawPile = g.drawPile /\ h.pendingDraw = g.pendingDraw
    BY <1>8 DEF Opened
  <2> QED
    BY <1>3, <2>2, <2>3, <2>4, MeasureFalls
<1> QED
  BY <1>4, <1>5, <1>6, <1>7, <1>8 DEF Effect

\* No match goes on for ever: every move, forfeit and timeout makes a number
\* smaller, so the action timer, which fires as long as the match lasts, ends
\* it.
THEOREM NoMatchGoesOnForEver == Spec => EveryStepIsProgress
<1>1. Safe(game) /\ [Next]_vars => [Measure(game') < Measure(game)]_vars
  BY StepEffect, NextSafe, EffectFalls
<1> QED
  BY <1>1, MatchIsSafe, PTL DEF Spec, EveryStepIsProgress

-----------------------------------------------------------------------------
(***************************************************************************)
(* What the bots are shown is enough not to be misled.                     *)
(***************************************************************************)
\* The nearest of some places before, or behind, another.
LEMMA Nearest ==
  ASSUME NEW n \in Nat, NEW I \in SUBSET (1..n), I # {}
  PROVE  Max(I) \in I /\ Min(I) \in I
<1>1. Min(I) \in I
  <2>1. \E i \in I : \A j \in I : i <= j
    BY LeastElement
  <2> QED
    BY <2>1 DEF Min
<1>2. Max(I) \in I
  <2> DEFINE J == {n - i : i \in I}
  <2>1. J \subseteq Nat /\ J # {}
    <3>1. \A i \in I : n - i \in Nat
      OBVIOUS
    <3> QED
      BY <3>1
  <2> HIDE DEF J
  <2>2. PICK j \in J : \A k \in J : j <= k
    BY <2>1, LeastElement
  <2> USE DEF J
  <2>3. PICK i \in I : j = n - i
    BY <2>2
  <2>4. \A k \in I : n - i <= n - k
    BY <2>2, <2>3
  <2>5. \A k \in I : i >= k
    BY <2>4
  <2> QED
    BY <2>5 DEF Max
<1> QED
  BY <1>1, <1>2

LEMMA RankOrder ==
  ASSUME NEW k \in Nat, NEW l \in Nat, k <= l
  PROVE  RankIndex(k) <= RankIndex(l)
BY DEF RankIndex

\* A card shown, and one not shown.
LEMMA CardViews ==
  ASSUME NEW c
  PROVE  /\ VisibleCard(c).id = c /\ HiddenCard(c).id = c
         /\ VisibleCard(c).kind = "standard" => c \notin Joker /\ VisibleCard(c).key = Value[c]
         /\ HiddenCard(c).kind # "standard"
<1>1. HiddenCard(c).id = c /\ HiddenCard(c).kind # "standard"
  BY DEF HiddenCard
<1>2. CASE c \in Joker
  <2>1. VisibleCard(c) = [id |-> c, kind |-> "joker"]
    BY <1>2 DEF VisibleCard
  <2> QED
    BY <1>1, <2>1
<1>3. CASE c \notin Joker
  <2>1. VisibleCard(c) = [id |-> c, kind |-> "standard", key |-> Value[c]]
    BY <1>3 DEF VisibleCard
  <2> QED
    BY <1>1, <1>3, <2>1
<1> QED
  BY <1>2, <1>3

\* The right guess about a face-down card is one a hard bot draws from: the
\* order of the racks makes the deduction from the cards shown sound.
THEOREM HardBotsAreNotMisled == Spec => []HardBotsKeepTheTruth
<1>1. Safe(game) => HardBotsKeepTheTruth
  <2> SUFFICES ASSUME Safe(game), game.phase = "guess", NEW p \in Player, NEW card \in Card,
                      GuessTarget(game.current, p, card)
               PROVE  TrueGuess(card) \in HardGuesses(game.current, p, card)
    BY DEF HardBotsKeepTheTruth
  <2> DEFINE own    == game.rack[p]
             rack   == ProjectedRack(game.current, p)
             target == CHOOSE i \in DOMAIN rack : rack[i].id = card
             shown  == ShownStandard(rack)
             lower  == {i \in shown : i < target}
             upper  == {i \in shown : i > target}
  <2>1. own \in Seq(Card) /\ Len(own) \in Nat /\ DOMAIN own = 1..Len(own)
    BY StateParts, LenProperties DEF Safe
  <2>2. p # game.current /\ card \in ToSet(own) /\ card \notin game.revealed
    BY DEF GuessTarget
  <2>3. DOMAIN rack = 1..Len(own)
    BY <2>1 DEF ProjectedRack
  <2>4. \A i \in 1..Len(own) :
          rack[i] = IF own[i] \in game.revealed THEN VisibleCard(own[i])
                    ELSE HiddenCard(own[i])
    BY <2>1, <2>2 DEF ProjectedRack
  <2> HIDE DEF rack
  <2>5. \A i \in 1..Len(own) : rack[i].id = own[i]
    BY <2>4, CardViews
  <2>6. \A i \in 1..Len(own) : rack[i].kind = "standard" =>
          own[i] \in Standard /\ rack[i].key = Value[own[i]]
    <3>1. \A i \in 1..Len(own) : own[i] \in Card
      BY <2>1
    <3> QED
      BY <2>4, <3>1, CardViews DEF Standard
  <2>7. target \in 1..Len(own) /\ own[target] = card
    <3>1. \E i \in DOMAIN rack : rack[i].id = card
      BY <2>1, <2>2, <2>3, <2>5 DEF ToSet
    <3>2. target \in DOMAIN rack /\ rack[target].id = card
      BY <3>1
    <3> QED
      BY <2>3, <2>5, <3>2
  <2>8. shown \subseteq 1..Len(own) /\ \A i \in shown : rack[i].kind = "standard"
    BY <2>3 DEF ShownStandard
  <2>9. HardGuesses(game.current, p, card)
          = {guess \in Guesses : guess = JokerGuess \/ Fits(rack, target, guess)}
    BY DEF HardGuesses, rack
  <2> HIDE DEF target, shown, own
  <2>10. CASE card \in Joker
    BY <2>9, <2>10 DEF TrueGuess, Guesses
  <2>11. CASE card \notin Joker
    <3> DEFINE key == Value[card]
    <3>1. card \in Standard /\ key \in Nat /\ key \in Guesses /\ TrueGuess(card) = key
      BY <2>11, CardsAssumption DEF Standard, TrueGuess, Guesses
    <3>2. \A i, j \in 1..Len(own) :
            own[i] \in Standard /\ own[j] \in Standard /\ i < j =>
              Value[own[i]] <= Value[own[j]]
      <4>1. IsValidRackOrder(own)
        BY DEF Safe, CardsFit, Ordered, own
      <4> QED
        BY <2>1, <4>1 DEF IsValidRackOrder, Positions
    <3>3. lower # {} => RankIndex(key) >= RankIndex(rack[Max(lower)].key)
      <4> SUFFICES ASSUME lower # {}
                   PROVE  RankIndex(rack[Max(lower)].key) <= RankIndex(key)
        <5>1. \A k, l \in Nat : RankIndex(k) <= RankIndex(l) => RankIndex(l) >= RankIndex(k)
          BY DEF RankIndex
        <5>2. lower # {} => rack[Max(lower)].key \in Nat
          <6> SUFFICES ASSUME lower # {}
                       PROVE  rack[Max(lower)].key \in Nat
            OBVIOUS
          <6>1. Max(lower) \in lower
            BY <2>1, <2>8, Nearest
          <6> QED
            BY <2>6, <2>8, <6>1, CardsAssumption
        <5> QED
          BY <3>1, <5>1, <5>2
      <4>1. PICK m \in lower : m = Max(lower)
        BY <2>1, <2>8, Nearest
      <4>2. m \in 1..Len(own) /\ m < target /\ own[m] \in Standard /\ rack[m].key = Value[own[m]]
        BY <2>6, <2>8, <4>1
      <4>3. Value[own[m]] <= key /\ Value[own[m]] \in Nat
        BY <2>7, <3>1, <3>2, <4>2, CardsAssumption
      <4> HIDE DEF lower, key
      <4> QED
        BY <3>1, <4>1, <4>2, <4>3, RankOrder
    <3>4. upper # {} => RankIndex(key) <= RankIndex(rack[Min(upper)].key)
      <4> SUFFICES ASSUME upper # {}
                   PROVE  RankIndex(key) <= RankIndex(rack[Min(upper)].key)
        OBVIOUS
      <4>1. PICK m \in upper : m = Min(upper)
        BY <2>1, <2>8, Nearest
      <4>2. m \in 1..Len(own) /\ target < m /\ own[m] \in Standard /\ rack[m].key = Value[own[m]]
        <5>1. \A i \in 1..Len(own) : i > target => target < i
          BY <2>7
        <5> QED
          BY <2>6, <2>8, <4>1, <5>1
      <4>3. key <= Value[own[m]] /\ Value[own[m]] \in Nat
        BY <2>7, <3>1, <3>2, <4>2, CardsAssumption
      <4> HIDE DEF upper, key
      <4> QED
        BY <3>1, <4>1, <4>2, <4>3, RankOrder
    <3>5. Fits(rack, target, key)
      BY <3>3, <3>4 DEF Fits, shown
    <3> QED
      BY <2>9, <3>1, <3>5
  <2> QED
    BY <2>10, <2>11
<1> QED
  BY <1>1, MatchIsSafe, PTL
=============================================================================
