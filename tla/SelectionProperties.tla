-------------------------- MODULE SelectionProperties --------------------------
(***************************************************************************)
(* What the starting selection promises.                                   *)
(***************************************************************************)
EXTENDS StartingSelection

\* The selection has the shape of the room's StartingSelection.
TypeOK ==
  /\ selection \in Selection
  /\ choiceTimer \in BOOLEAN
  /\ revealTimer \in BOOLEAN
  /\ beginning \in BOOLEAN
  /\ dropped \in SUBSET (Player \ Bot)

\* No two players hold the same card.
Distinct(choice) ==
  \A p, q \in Player : choice[p] = choice[q] /\ choice[p] # NoCard => p = q

\* Every card of the deck is in exactly one place while options are drawn,
\* taken, kept by the players who are settled, discarded and drawn again.
\* (The options shown after a reveal include the cards settled by it.)
CardsOnTheTable(s) ==
  LET held == CardsOf(s.resolved)
      out  == s.options \cup held
  IN  /\ Card = s.remaining \cup s.discarded \cup out
      /\ s.remaining \cap s.discarded = {}
      /\ (s.remaining \cup s.discarded) \cap out = {}
      /\ Distinct(s.resolved)
      /\ Distinct(s.choice)
      /\ CardsOf(s.choice) \subseteq s.options
      /\ s.phase = "choosing" => held \cap s.options = {}

SelectionConservesCards == CardsOnTheTable(selection)

\* Whoever has no card yet is still choosing or has tied, and there are at
\* least two of them unless the starter is known; then everyone has a card,
\* and finalizeStartingSelection can only fail over who is in the room.
Accounted(s) ==
  LET unsettled == {p \in Player : s.resolved[p] = NoCard} IN
  /\ s.phase = "choosing" =>
       /\ s.starter = NoPlayer
       /\ s.eligible = unsettled
       /\ Cardinality(unsettled) >= 2
  /\ s.phase = "revealed" =>
       IF s.starter = NoPlayer
       THEN s.tied = unsettled /\ Cardinality(unsettled) >= 2
       ELSE unsettled = {}

EveryPlayerIsAccountedFor == Accounted(selection)

\* The shuffles of a set of cards.
Shuffles(S) == {deck \in [1..Cardinality(S) -> S] : IsInjective(deck)}

\* The selection ends in a deal the rules engine expects: a card for every
\* player, the others shuffled, and no Joker but the starter's.
ResultIsAnOpening ==
  selection.phase = "dealt" =>
    \A deck \in Shuffles(DeckCards(selection)) :
       IsOpening([starter |-> selection.starter,
                  starting |-> selection.resolved, deck |-> deck])

\* The timer that ends the current phase is armed and the other is not, so
\* that no phase lasts for ever and none is ended by a timer of another
\* round; only before beginStartingSelection goes on may no timer run, and
\* only a reveal that names the starter may have lost its timer, to the
\* exception of finalizeStartingSelection while somebody is away.
TimersMatchPhase ==
  /\ choiceTimer => selection.phase = "choosing"
  /\ selection.phase = "choosing" => choiceTimer \/ beginning
  /\ revealTimer => selection.phase = "revealed"
  /\ selection.phase = "revealed" /\ selection.starter = NoPlayer => revealTimer

\* A tie is broken with cards that were not on the table in its round.
TiesAreBrokenWithOtherCards ==
  [][selection'.options # selection.options =>
       selection'.options \cap selection.options = {}]_vars

\* Every choice is revealed, even when no player does anything; every tie is
\* followed by another round, and the reveal of the starter by the match
\* unless somebody was away when its timer fired.
SelectionMovesOn ==
  /\ selection.phase = "choosing" ~> selection.phase # "choosing"
  /\ selection.phase = "revealed" /\ selection.starter = NoPlayer
       ~> selection.phase # "revealed"
  /\ selection.phase = "revealed" /\ revealTimer
       ~> selection.phase # "revealed" \/ dropped # {}

(***************************************************************************)
(* Room takes a selection for a phase that its own actions change: choices *)
(* are revealed (RevealStartingChoices), a reveal leads to another round,  *)
(* to the match if nobody is away or to an end without a timer             *)
(* (AdvanceStartingSelection), and it is aborted (AbortStartingSelection), *)
(* but never once it is dealt.  That is all there is to see of it.         *)
(***************************************************************************)
Seen == IF selection.phase = "revealed" /\ ~revealTimer THEN "stuck" ELSE selection.phase

RoomSeesTheSelection ==
  /\ Seen = "choosing"
  /\ [][\/ Seen = "choosing" /\ Seen' = "revealed"
        \/ Seen = "revealed" /\ Seen' = "choosing"
        \/ Seen = "revealed" /\ Seen' = "dealt" /\ dropped = {}
        \/ Seen = "revealed" /\ Seen' = "stuck" /\ dropped # {}
        \/ Seen # "dealt" /\ Seen' = "aborted"]_Seen

-----------------------------------------------------------------------------
(***************************************************************************)
(* What the rules say and the code does not do.                            *)
(***************************************************************************)
\* docs/GAME_RULES.md:60: a reconnection resumes the player's seat, so with
\* everybody back the choices shown lead to another round or to the match.
SelectionSurvivesAReturn ==
  selection.phase = "revealed" /\ dropped = {}
    ~> selection.phase # "revealed" \/ dropped # {}
=============================================================================
