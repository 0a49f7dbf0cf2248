------------------------------ MODULE BotGuesses ------------------------------
(***************************************************************************)
(* What a player is shown of the racks (shared/src/view.ts) and what a     *)
(* bot of the hardest kind makes of it (chooseBotGuess of                  *)
(* CipherDeckRoom.ts).                                                     *)
(*                                                                         *)
(* The room also remembers the wrong guesses about each card and takes     *)
(* them out of the candidates.  A card never changes, so no such guess is  *)
(* right later; what is said here is about the candidates before that.     *)
(***************************************************************************)
EXTENDS CipherDeckGame

TrueGuess(card) == IF card \in Joker THEN JokerGuess ELSE Value[card]

\* visibleCard and hiddenCard; while the opening Jokers are placed a hidden
\* card has its place for an id.
VisibleCard(card) ==
  IF card \in Joker THEN [id |-> card, kind |-> "joker"]
  ELSE [id |-> card, kind |-> "standard", key |-> Value[card]]

HiddenCard(id) == [id |-> id, kind |-> "hidden"]

\* The rack of player p in the view of a player, or of a spectator, who is
\* none of the players.
ProjectedRack(viewer, p) ==
  [i \in DOMAIN game.rack[p] |->
     LET card == game.rack[p][i] IN
     IF p = viewer THEN VisibleCard(card)
     ELSE IF game.phase = "starter-place" THEN HiddenCard(<<p, i>>)
     ELSE IF card \in game.revealed THEN VisibleCard(card) ELSE HiddenCard(card)]

\* The places in a view where a standard card is shown.
ShownStandard(rack) == {i \in DOMAIN rack : rack[i].kind = "standard"}

RankIndex(key) == key \div 2

(***************************************************************************)
(* The guesses a hard bot draws from: a Joker, and the ranks between those *)
(* of the nearest standard cards shown on the two sides of its target.     *)
(***************************************************************************)
Fits_Strictly(rack, target, key) ==
  LET shown == ShownStandard(rack)
      lower == {i \in shown : i < target}
      upper == {i \in shown : i > target}
  IN  /\ lower # {} => RankIndex(key) > RankIndex(rack[Max(lower)].key)
      /\ upper # {} => RankIndex(key) <= RankIndex(rack[Min(upper)].key)

Fits(rack, target, key) ==
  LET shown == ShownStandard(rack)
      lower == {i \in shown : i < target}
      upper == {i \in shown : i > target}
  IN  /\ lower # {} => RankIndex(key) >= RankIndex(rack[Max(lower)].key)
      /\ upper # {} => RankIndex(key) <= RankIndex(rack[Min(upper)].key)

HardGuesses(bot, p, card) ==
  LET rack   == ProjectedRack(bot, p)
      target == CHOOSE i \in DOMAIN rack : rack[i].id = card
  IN  {guess \in Guesses : guess = JokerGuess \/ Fits(rack, target, guess)}

-----------------------------------------------------------------------------
(***************************************************************************)
(* The right guess about any card a bot may ask for is among those it      *)
(* draws from, whatever is shown around the card, Jokers included: the     *)
(* order of the racks is what makes the deduction sound.                   *)
(***************************************************************************)
HardBotsKeepTheTruth ==
  game.phase = "guess" =>
    \A p \in Player, card \in Card :
      GuessTarget(game.current, p, card) =>
        TrueGuess(card) \in HardGuesses(game.current, p, card)
=============================================================================
