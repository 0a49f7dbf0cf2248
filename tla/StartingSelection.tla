--------------------------- MODULE StartingSelection ---------------------------
(***************************************************************************)
(* The choice of the player who starts (CipherDeckRoom.ts, from            *)
(* beginStartingSelection to finalizeStartingSelection, and setup.ts).     *)
(* Every eligible player takes one of six face-down cards; the highest     *)
(* rank starts, and those who tie for it choose again from six other       *)
(* cards.  Two timers drive it, one for the choice and one for the         *)
(* reveal; players may drop, return and leave meanwhile.                   *)
(*                                                                         *)
(* The deck is shuffled before the selection and again after it, so the    *)
(* remaining and the discarded cards are sets and a draw takes any of      *)
(* them.  The round counter is displayed and never read, and is left out.  *)
(*                                                                         *)
(* An operator F_Xyz that stands before F is F with a bug a programmer     *)
(* might have written; the README says which property each one breaks.     *)
(***************************************************************************)
EXTENDS OpeningDeal, FiniteSetsExt

CONSTANTS NumOptions,   \* cards to choose from, 6 in the code
          NumRanks,     \* RANKS.length
          Bot,          \* the players that are bots, who have no connection
          NoCard, NoPlayer

(***************************************************************************)
(* A deck has at least 24 cards and a table at most six players, which is  *)
(* more than the last conjunct asks for.                                   *)
(***************************************************************************)
ASSUME SelectionAssumption ==
  /\ NumPlayers \in 3..6
  /\ NumOptions \in Nat
  /\ NumRanks \in Nat
  /\ \A c \in Standard : Value[c] < 2 * NumRanks
  /\ Bot \subseteq Player
  /\ NoCard \notin Card
  /\ NoPlayer \notin Player
  /\ NumPlayers <= NumOptions
  /\ 2 * NumOptions + NumPlayers - 2 <= Cardinality(Card)

VARIABLES
  selection,     \* startingSelection, and what became of it
  choiceTimer,   \* startingChoiceTimer is armed
  revealTimer,   \* startingRevealTimer is armed
  beginning,     \* beginStartingSelection awaits the room's new status
  dropped        \* droppedPlayerIds

vars == <<selection, choiceTimer, revealTimer, beginning, dropped>>

(***************************************************************************)
(* Phase "dealt" is the match the selection ended in (this.game is set),   *)
(* and "aborted" the return to the lobby.  choice[p] is the option whose   *)
(* selectedByPlayerId is p, resolved[p] the entry of resolvedCards.        *)
(***************************************************************************)
Phase == {"choosing", "revealed", "dealt", "aborted"}

Selection ==
  [phase : Phase, eligible : SUBSET Player, tied : SUBSET Player,
   options : kSubset(NumOptions, Card), choice : [Player -> Card \cup {NoCard}],
   resolved : [Player -> Card \cup {NoCard}], remaining : SUBSET Card,
   discarded : SUBSET Card, starter : Player \cup {NoPlayer}]

CardsOf(choice) == {choice[p] : p \in Player} \ {NoCard}

NoChoice == [p \in Player |-> NoCard]

-----------------------------------------------------------------------------
(***************************************************************************)
(* takeStartingOptions and drawFreshStartingCards: the selections s may    *)
(* become when its next options are drawn.  A short deck is filled up with *)
(* the discards, and the cards of the round before are avoided if the rest *)
(* are enough.                                                             *)
(***************************************************************************)
WithOptions(s, options, discarded) ==
  [s EXCEPT !.options = options,
            !.choice = NoChoice,
            !.remaining = (@ \cup (s.discarded \ discarded)) \ options,
            !.discarded = discarded]

Candidates_AnyCard(pool, preceding) == pool

Candidates(pool, preceding) ==
  LET fresh == pool \ preceding
  IN  IF Cardinality(fresh) >= NumOptions THEN fresh ELSE pool

TakeOptions_NoRefill(s, preceding) ==
  LET left == Cardinality(s.remaining)
  IN  {WithOptions(s, options, s.discarded) : options \in
         kSubset(IF left < NumOptions THEN left ELSE NumOptions, s.remaining)}

TakeOptions(s, preceding) ==
  IF Cardinality(s.remaining) < NumOptions
  THEN {WithOptions(s, options, {}) : options \in
          kSubset(NumOptions, Candidates(s.remaining \cup s.discarded, preceding))}
  ELSE {WithOptions(s, options, s.discarded) :
          options \in kSubset(NumOptions, s.remaining)}

(***************************************************************************)
(* highestStartingPlayerIds compares ranks, not colors; a Joker is higher  *)
(* than every rank.                                                        *)
(***************************************************************************)
StartValue_JokerUnranked(card) ==
  IF card \in Joker THEN -1 ELSE Value[card] \div 2

StartValue(card) == IF card \in Joker THEN NumRanks ELSE Value[card] \div 2

Highest(s) ==
  {p \in s.eligible :
     \A q \in s.eligible : StartValue(s.choice[q]) <= StartValue(s.choice[p])}

\* revealStartingChoices: who does not choose again keeps the card chosen.
Reveal_TiedKeepTheirs(s) ==
  [s EXCEPT
     !.phase = "revealed",
     !.tied = Highest(s),
     !.resolved = [p \in Player |->
                     IF p \in s.eligible THEN s.choice[p] ELSE s.resolved[p]],
     !.starter = IF Cardinality(Highest(s)) = 1
                 THEN CHOOSE p \in Highest(s) : TRUE ELSE @]

Reveal(s) ==
  LET tied     == Highest(s)
      settled  == IF Cardinality(tied) = 1 THEN s.eligible ELSE s.eligible \ tied
  IN  [s EXCEPT
         !.phase = "revealed",
         !.tied = tied,
         !.resolved = [p \in Player |->
                         IF p \in settled THEN s.choice[p] ELSE s.resolved[p]],
         !.starter = IF Cardinality(tied) = 1
                     THEN CHOOSE p \in tied : TRUE ELSE @]

-----------------------------------------------------------------------------
(***************************************************************************)
(* beginStartingSelection shows the options and awaits the room's status;  *)
(* it arms the timer when it goes on, unless the choice is made by then.   *)
(***************************************************************************)
Init ==
  /\ selection \in TakeOptions(
       [phase |-> "choosing", eligible |-> Player, tied |-> {},
        options |-> {}, choice |-> NoChoice, resolved |-> NoChoice,
        remaining |-> Card, discarded |-> {}, starter |-> NoPlayer], {})
  /\ choiceTimer = FALSE
  /\ revealTimer = FALSE
  /\ beginning = TRUE
  /\ dropped = {}

\* armStartingChoiceTimer
Begun ==
  /\ beginning
  /\ beginning' = FALSE
  /\ choiceTimer' = (selection.phase = "choosing")
  /\ UNCHANGED <<selection, revealTimer, dropped>>

AllChosen(s) == \A p \in s.eligible : s.choice[p] # NoCard

ClearChoiceTimer_Forgotten == UNCHANGED choiceTimer

ClearChoiceTimer == choiceTimer' = FALSE

\* A player or a bot takes a free option (selectStartingCardForPlayer); the
\* last of them to do so reveals the choices.
Select(p, card) ==
  /\ selection.phase = "choosing"
  /\ p \in selection.eligible \ dropped
  /\ selection.choice[p] = NoCard
  /\ card \in selection.options \ CardsOf(selection.choice)
  /\ LET chosen == [selection EXCEPT !.choice[p] = card]
     IN  IF AllChosen(chosen)
         THEN /\ selection' = Reveal(chosen)
              /\ ClearChoiceTimer
              /\ revealTimer' = TRUE
         ELSE /\ selection' = chosen
              /\ UNCHANGED <<choiceTimer, revealTimer>>
  /\ UNCHANGED <<beginning, dropped>>

\* The choices the timer may complete s.choice to, with options still free.
Completions(s) ==
  LET late == {p \in s.eligible : s.choice[p] = NoCard}
      free == s.options \ CardsOf(s.choice)
  IN  {[p \in Player |-> IF p \in late THEN pick[p] ELSE s.choice[p]] :
         pick \in {f \in [late -> free] : IsInjective(f)}}

ChoiceTimeout ==
  /\ choiceTimer
  /\ choiceTimer' = FALSE
  /\ IF selection.phase = "choosing"
     THEN /\ \E choice \in Completions(selection) :
               selection' = Reveal([selection EXCEPT !.choice = choice])
          /\ revealTimer' = TRUE
     ELSE UNCHANGED <<selection, revealTimer>>
  /\ UNCHANGED <<beginning, dropped>>

\* The deck of the match is what is left when the players have their cards.
DeckCards(s) ==
  s.remaining \cup s.discarded \cup (s.options \ CardsOf(s.resolved))

(***************************************************************************)
(* finalizeStartingSelection counts the players in the room, which leaves  *)
(* out who is away, against those with a card.  When they differ it throws *)
(* inside the reveal timer: the selection stays as it is, without a timer. *)
(***************************************************************************)
Finalize_WhoeverIsThere ==
  /\ selection' = [selection EXCEPT !.phase = "dealt"]
  /\ UNCHANGED choiceTimer

Finalize ==
  /\ IF Cardinality({p \in Player : selection.resolved[p] # NoCard})
           = Cardinality(Player \ dropped)
     THEN selection' = [selection EXCEPT !.phase = "dealt"]
     ELSE UNCHANGED selection
  /\ UNCHANGED choiceTimer

\* Those who tie choose again; options nobody keeps are discarded.
Discards_AllOptions(s) == s.discarded \cup s.options

Discards(s) == s.discarded \cup (s.options \ CardsOf(s.resolved))

NextRound_TimerNotArmed ==
  /\ selection' \in TakeOptions(
       [selection EXCEPT !.phase = "choosing", !.eligible = selection.tied,
                         !.tied = {}, !.discarded = Discards(selection)],
       selection.options)
  /\ UNCHANGED choiceTimer

NextRound ==
  /\ selection' \in TakeOptions(
       [selection EXCEPT !.phase = "choosing", !.eligible = selection.tied,
                         !.tied = {}, !.discarded = Discards(selection)],
       selection.options)
  /\ choiceTimer' = TRUE

\* advanceStartingSelection
RevealTimeout ==
  /\ revealTimer
  /\ revealTimer' = FALSE
  /\ IF selection.phase # "revealed" THEN UNCHANGED <<selection, choiceTimer>>
     ELSE IF selection.starter # NoPlayer THEN Finalize ELSE NextRound
  /\ UNCHANGED <<beginning, dropped>>

-----------------------------------------------------------------------------
(***************************************************************************)
(* Connections.  A player who drops is out of the room's clients and has   *)
(* 30 seconds to return; the choice goes on meanwhile.                     *)
(***************************************************************************)
Selecting == selection.phase \in {"choosing", "revealed"}

Drop(p) ==
  /\ Selecting
  /\ p \in Player \ (Bot \cup dropped)
  /\ dropped' = dropped \cup {p}
  /\ UNCHANGED <<selection, choiceTimer, revealTimer, beginning>>

Reconnect(p) ==
  /\ p \in dropped
  /\ dropped' = dropped \ {p}
  /\ UNCHANGED <<selection, choiceTimer, revealTimer, beginning>>

\* abortStartingSelection clears the selection, its timers and this.game.
Abort(p) ==
  /\ selection' = [selection EXCEPT !.phase = "aborted"]
  /\ choiceTimer' = FALSE
  /\ revealTimer' = FALSE
  /\ dropped' = dropped \ {p}
  /\ UNCHANGED beginning

\* onLeave
Leave(p) ==
  /\ Selecting
  /\ p \in Player \ (Bot \cup dropped)
  /\ Abort(p)

\* The reconnection of onDrop fails, whatever the selection is by then.
ReconnectTimeout(p) ==
  /\ p \in dropped
  /\ Abort(p)

Next ==
  \/ Begun
  \/ ChoiceTimeout
  \/ RevealTimeout
  \/ \E p \in Player :
        \/ \E card \in Card : Select(p, card)
        \/ Drop(p)
        \/ Reconnect(p)
        \/ Leave(p)
        \/ ReconnectTimeout(p)

(***************************************************************************)
(* The awaited status update returns and an armed timer fires; nothing is  *)
(* assumed of the players.                                                 *)
(***************************************************************************)
Spec ==
  /\ Init
  /\ [][Next]_vars
  /\ WF_vars(Begun)
  /\ WF_vars(ChoiceTimeout)
  /\ WF_vars(RevealTimeout)
=============================================================================
