---------------------------- MODULE SelectionProofs ----------------------------
(***************************************************************************)
(* The starting selection is safe for every deck, table and number of      *)
(* options: what SelectionProperties promises of it, except that it moves  *)
(* on, which is left to TLC.                                               *)
(***************************************************************************)
EXTENDS SelectionProperties, RackFacts

Choosing == [Player -> Card \cup {NoCard}]

\* A player without a Joker was beaten, or has not chosen; only the starter
\* can hold one.
JokersAreHigh(s) == \A p \in Player \ {s.starter} : s.resolved[p] \notin Joker

\* In a dealt match every player has a card.
Complete(s) ==
  s.phase = "dealt" =>
    s.starter \in Player /\ \A p \in Player : s.resolved[p] # NoCard

(***************************************************************************)
(* The inductive invariant.  The properties are not inductive by           *)
(* themselves: that only the starter holds a Joker needs who was beaten    *)
(* with what, and that nobody is missing in the result needs who is still  *)
(* choosing.                                                               *)
(***************************************************************************)
Good(s) ==
  /\ s \in Selection
  /\ CardsOnTheTable(s)
  /\ Accounted(s)
  /\ JokersAreHigh(s)
  /\ Complete(s)

IInv ==
  /\ TypeOK
  /\ Good(selection)
  /\ TimersMatchPhase

-----------------------------------------------------------------------------
(***************************************************************************)
(* The table and its cards.                                                *)
(***************************************************************************)
\* The players are finitely many.
LEMMA PlayersFinite == IsFiniteSet(Player) /\ Cardinality(Player) = NumPlayers
<1>1. NumPlayers \in Nat \ {0}
  BY SelectionAssumption
<1>2. 0..(NumPlayers - 1) = Player
  BY DEF Player
<1> QED
  BY <1>1, <1>2, FS_Interval

\* A player who chose holds that card.
LEMMA CardsOfChoice ==
  ASSUME NEW choice
  PROVE  \A c : c \in CardsOf(choice) <=>
                  c # NoCard /\ \E p \in Player : choice[p] = c
BY DEF CardsOf

\* No card is the mark of a player without one.
LEMMA CardsAreCards ==
  /\ NoCard \notin Card
  /\ \A choice \in Choosing :
       /\ CardsOf(choice) \subseteq Card
       /\ \A p \in Player : choice[p] # NoCard => choice[p] \in CardsOf(choice)
<1>1. NoCard \notin Card
  BY SelectionAssumption
<1> QED
  BY <1>1 DEF CardsOf, Choosing

\* A set of two or more players is not empty, and of one it holds the one.
LEMMA PlayerSets ==
  ASSUME NEW S \in SUBSET Player
  PROVE  /\ IsFiniteSet(S) /\ Cardinality(S) \in Nat
         /\ Cardinality(S) = 0 <=> S = {}
         /\ Cardinality(S) = 1 => \E p \in Player : S = {p}
<1>1. IsFiniteSet(S) /\ Cardinality(S) \in Nat
  BY PlayersFinite, FS_Subset, FS_CardinalityType
<1>2. Cardinality(S) = 0 <=> S = {}
  BY <1>1, FS_EmptySet
<1>3. ASSUME Cardinality(S) = 1
      PROVE  \E p \in Player : S = {p}
  <2>1. PICK x : S = {x}
    BY <1>1, <1>3, FS_Singleton
  <2> QED
    BY <2>1
<1> QED
  BY <1>1, <1>2, <1>3

-----------------------------------------------------------------------------
(***************************************************************************)
(* The reveal.                                                             *)
(***************************************************************************)
\* Every card has a place among the ranks, and only Jokers have the last.
LEMMA StartValues ==
  ASSUME NEW c \in Card
  PROVE  /\ StartValue(c) \in 0..NumRanks
         /\ c \in Joker <=> StartValue(c) = NumRanks
<1>1. NumRanks \in Nat /\ Joker \subseteq Card
  BY SelectionAssumption, CardsAssumption
<1>2. CASE c \in Joker
  BY <1>1, <1>2 DEF StartValue
<1>3. CASE c \notin Joker
  <2>1. c \in Standard
    BY <1>3 DEF Standard
  <2>2. Value[c] \in Nat /\ Value[c] < 2 * NumRanks
    BY <2>1, SelectionAssumption, CardsAssumption
  <2>3. Value[c] \div 2 \in Nat /\ Value[c] \div 2 < NumRanks
    <3> DEFINE v == Value[c]
    <3> HIDE DEF v
    <3>1. v \in Nat /\ v < 2 * NumRanks
      BY <2>2 DEF v
    <3>2. v \div 2 \in Nat /\ v \div 2 < NumRanks
      BY <1>1, <3>1
    <3> QED
      BY <3>2 DEF v
  <2> QED
    BY <1>1, <1>3, <2>3 DEF StartValue
<1> QED
  BY <1>2, <1>3

\* Of some choices one is the highest.
LEMMA SomeoneIsHighest ==
  ASSUME NEW s, s.eligible \in SUBSET Player, s.eligible # {},
         \A p \in s.eligible : s.choice[p] \in Card
  PROVE  Highest(s) # {}
<1> DEFINE value(p) == StartValue(s.choice[p])
           T == {NumRanks - value(p) : p \in s.eligible}
<1>1. NumRanks \in Nat /\ \A p \in s.eligible : value(p) \in 0..NumRanks
  BY StartValues, SelectionAssumption
<1>2. Highest(s) = {p \in s.eligible : \A q \in s.eligible : value(q) <= value(p)}
  BY DEF Highest
<1> HIDE DEF value
<1>3. T \in SUBSET Nat /\ T # {}
  BY <1>1
<1>4. PICK n \in T : \A m \in T : n <= m
  <2> HIDE DEF T
  <2> QED
    BY <1>3, LeastElement
<1>5. PICK p \in s.eligible : n = NumRanks - value(p)
  BY <1>4
<1>6. \A q \in s.eligible : value(q) <= value(p)
  <2> SUFFICES ASSUME NEW q \in s.eligible
               PROVE  value(q) <= value(p)
    OBVIOUS
  <2>1. NumRanks - value(p) <= NumRanks - value(q)
    BY <1>4, <1>5
  <2> QED
    BY <1>1, <2>1
<1> QED
  BY <1>2, <1>5, <1>6

\* Whoever is beaten has no Joker.
LEMMA BeatenHasNoJoker ==
  ASSUME NEW s, \A q \in s.eligible : s.choice[q] \in Card,
         NEW p \in s.eligible \ Highest(s)
  PROVE  s.choice[p] \notin Joker
<1>1. PICK q \in s.eligible :
         ~ (StartValue(s.choice[q]) <= StartValue(s.choice[p]))
  BY DEF Highest
<1>2. /\ StartValue(s.choice[q]) \in 0..NumRanks
      /\ StartValue(s.choice[p]) \in 0..NumRanks
      /\ s.choice[p] \in Joker => StartValue(s.choice[p]) = NumRanks
  BY StartValues
<1> QED
  BY <1>1, <1>2, SelectionAssumption

\* A choice made in the current round is a card, and nobody else's.
LEMMA ChosenCards ==
  ASSUME NEW s, Good(s), s.phase = "choosing", AllChosen(s)
  PROVE  /\ s.eligible \in SUBSET Player
         /\ s.eligible = {p \in Player : s.resolved[p] = NoCard}
         /\ Cardinality(s.eligible) >= 2
         /\ s.starter = NoPlayer
         /\ \A p \in s.eligible : s.choice[p] \in Card /\ s.choice[p] \in s.options
         /\ CardsOf(s.resolved) \cap s.options = {}
<1>1. s \in Selection /\ CardsOnTheTable(s) /\ Accounted(s)
  BY DEF Good
<1>2. s.eligible \in SUBSET Player /\ s.choice \in Choosing
  BY <1>1 DEF Selection, Choosing
<1>3. \A p \in s.eligible : s.choice[p] # NoCard
  BY DEF AllChosen
<1>4. \A p \in s.eligible : s.choice[p] \in CardsOf(s.choice)
  BY <1>2, <1>3, CardsAreCards
<1>5. CardsOf(s.choice) \subseteq Card
  BY <1>2, CardsAreCards
<1>6. CardsOf(s.choice) \subseteq s.options /\ CardsOf(s.resolved) \cap s.options = {}
  BY <1>1 DEF CardsOnTheTable
<1>7. /\ s.starter = NoPlayer
      /\ s.eligible = {p \in Player : s.resolved[p] = NoCard}
      /\ Cardinality(s.eligible) >= 2
  BY <1>1 DEF Accounted
<1> QED
  BY <1>2, <1>4, <1>5, <1>6, <1>7

\* What a reveal changes: those who do not tie keep what they chose.
LEMMA Revealed ==
  ASSUME NEW s, Good(s), s.phase = "choosing", AllChosen(s)
  PROVE  LET t       == Reveal(s)
             settled == IF Cardinality(Highest(s)) = 1 THEN s.eligible
                        ELSE s.eligible \ Highest(s)
         IN  /\ t \in Selection
             /\ t.phase = "revealed"
             /\ t.tied = Highest(s)
             /\ t.options = s.options /\ t.choice = s.choice
             /\ t.remaining = s.remaining /\ t.discarded = s.discarded
             /\ \A p \in Player :
                  t.resolved[p] = IF p \in settled THEN s.choice[p] ELSE s.resolved[p]
             /\ Cardinality(Highest(s)) # 1 =>
                  t.starter = NoPlayer /\ Cardinality(Highest(s)) >= 2
             /\ Cardinality(Highest(s)) = 1 =>
                  t.starter \in Player /\ Highest(s) = {t.starter}
<1> DEFINE t == Reveal(s)
           settled == IF Cardinality(Highest(s)) = 1 THEN s.eligible
                      ELSE s.eligible \ Highest(s)
           first == CHOOSE p \in Highest(s) : TRUE
<1>1. /\ s \in Selection
      /\ s.eligible \in SUBSET Player
      /\ Cardinality(s.eligible) >= 2
      /\ s.starter = NoPlayer
      /\ \A p \in s.eligible : s.choice[p] \in Card
  BY ChosenCards DEF Good
<1>2. Highest(s) \in SUBSET Player
  BY <1>1 DEF Highest
<1>3. Highest(s) # {}
  BY <1>1, SomeoneIsHighest, PlayerSets
<1>4. Cardinality(Highest(s)) # 1 => Cardinality(Highest(s)) >= 2
  BY <1>2, <1>3, PlayerSets
<1>5. first \in Highest(s)
  BY <1>3
<1>6. Cardinality(Highest(s)) = 1 => first \in Player /\ Highest(s) = {first}
  BY <1>2, <1>5, PlayerSets
<1> DEFINE resolved == [p \in Player |->
                          IF p \in settled THEN s.choice[p] ELSE s.resolved[p]]
           starter == IF Cardinality(Highest(s)) = 1 THEN first ELSE s.starter
<1>7. t = [s EXCEPT !.phase = "revealed", !.tied = Highest(s),
                    !.resolved = resolved, !.starter = starter]
  BY DEF Reveal
<1>8. starter \in Player \cup {NoPlayer}
  BY <1>1, <1>6
<1>9. resolved \in [Player -> Card \cup {NoCard}]
  <2>1. s.choice \in [Player -> Card \cup {NoCard}]
        /\ s.resolved \in [Player -> Card \cup {NoCard}]
    BY <1>1 DEF Selection
  <2> HIDE DEF settled
  <2> QED
    BY <2>1
<1>10. \A p \in Player :
         resolved[p] = IF p \in settled THEN s.choice[p] ELSE s.resolved[p]
  OBVIOUS
<1>11. (Cardinality(Highest(s)) # 1 => starter = NoPlayer)
       /\ (Cardinality(Highest(s)) = 1 => starter = first)
  BY <1>1
<1> HIDE DEF t, resolved, starter, first, settled
<1>12. t \in Selection
  BY <1>1, <1>2, <1>7, <1>8, <1>9 DEF Selection, Phase
<1>13. /\ t.phase = "revealed" /\ t.tied = Highest(s)
       /\ t.options = s.options /\ t.choice = s.choice
       /\ t.remaining = s.remaining /\ t.discarded = s.discarded
       /\ t.resolved = resolved /\ t.starter = starter
  BY <1>1, <1>7 DEF Selection
<1>14. \A p \in Player :
         t.resolved[p] = IF p \in settled THEN s.choice[p] ELSE s.resolved[p]
  BY <1>10, <1>13
<1>15. Cardinality(Highest(s)) # 1 =>
         t.starter = NoPlayer /\ Cardinality(Highest(s)) >= 2
  BY <1>4, <1>11, <1>13
<1>16. Cardinality(Highest(s)) = 1 =>
         t.starter \in Player /\ Highest(s) = {t.starter}
  BY <1>6, <1>11, <1>13
<1> QED
  BY <1>12, <1>13, <1>14, <1>15, <1>16 DEF t, settled

\* A reveal keeps the invariant.
LEMMA RevealIsGood ==
  ASSUME NEW s, Good(s), s.phase = "choosing", AllChosen(s)
  PROVE  Good(Reveal(s)) /\ Reveal(s).phase = "revealed"
<1> DEFINE t == Reveal(s)
           tied == Highest(s)
           settled == IF Cardinality(tied) = 1 THEN s.eligible ELSE s.eligible \ tied
<1>1. /\ t \in Selection
      /\ t.phase = "revealed"
      /\ t.tied = tied
      /\ t.options = s.options /\ t.choice = s.choice
      /\ t.remaining = s.remaining /\ t.discarded = s.discarded
      /\ \A p \in Player :
           t.resolved[p] = IF p \in settled THEN s.choice[p] ELSE s.resolved[p]
      /\ Cardinality(tied) # 1 => t.starter = NoPlayer /\ Cardinality(tied) >= 2
      /\ Cardinality(tied) = 1 => t.starter \in Player /\ tied = {t.starter}
  BY Revealed
<1>2. /\ s.eligible \in SUBSET Player
      /\ s.eligible = {p \in Player : s.resolved[p] = NoCard}
      /\ s.starter = NoPlayer
      /\ \A p \in s.eligible : s.choice[p] \in Card /\ s.choice[p] \in s.options
      /\ CardsOf(s.resolved) \cap s.options = {}
  BY ChosenCards
<1>3. tied \subseteq s.eligible
  BY DEF Highest
<1>4. NoCard \notin Card /\ NoPlayer \notin Player /\ Joker \subseteq Card
  BY SelectionAssumption, CardsAssumption
<1>5. /\ s.resolved \in Choosing
      /\ Card = s.remaining \cup s.discarded \cup (s.options \cup CardsOf(s.resolved))
      /\ s.remaining \cap s.discarded = {}
      /\ (s.remaining \cup s.discarded) \cap (s.options \cup CardsOf(s.resolved)) = {}
      /\ Distinct(s.resolved)
      /\ Distinct(s.choice)
      /\ CardsOf(s.choice) \subseteq s.options
  BY DEF Good, CardsOnTheTable, Selection, Choosing
<1>6. \A p \in s.eligible \ tied : s.choice[p] \notin Joker
  BY <1>2, BeatenHasNoJoker
<1>7. settled \subseteq s.eligible /\ (Cardinality(tied) = 1 => settled = s.eligible)
      /\ (Cardinality(tied) # 1 => settled = s.eligible \ tied)
  OBVIOUS
<1> HIDE DEF t, tied, settled
<1>8. \A p \in settled : t.resolved[p] = s.choice[p] /\ t.resolved[p] \in s.options
                         /\ t.resolved[p] # NoCard /\ s.resolved[p] = NoCard
  BY <1>1, <1>2, <1>4, <1>7
<1>9. \A p \in Player \ settled : t.resolved[p] = s.resolved[p]
  BY <1>1
<1>10. CardsOnTheTable(t)
  <2>1. s.options \cup CardsOf(t.resolved) = s.options \cup CardsOf(s.resolved)
    <3>1. \A p \in Player : s.resolved[p] # NoCard => t.resolved[p] = s.resolved[p]
      BY <1>8, <1>9
    <3>2. \A p \in Player : t.resolved[p] # s.resolved[p] => t.resolved[p] \in s.options
      BY <1>8, <1>9
    <3>3. \A c \in CardsOf(s.resolved) : c \in CardsOf(t.resolved)
      BY <3>1, CardsOfChoice
    <3>4. \A c \in CardsOf(t.resolved) : c \in CardsOf(s.resolved) \/ c \in s.options
      BY <3>2, CardsOfChoice
    <3> QED
      BY <3>3, <3>4
  <2>2. Distinct(t.resolved)
    <3> SUFFICES ASSUME NEW p \in Player, NEW q \in Player,
                        t.resolved[p] = t.resolved[q], t.resolved[p] # NoCard
                 PROVE  p = q
      BY DEF Distinct
    <3>1. CASE p \in settled /\ q \in settled
      BY <1>5, <1>8, <3>1 DEF Distinct
    <3>2. CASE p \notin settled /\ q \notin settled
      BY <1>5, <1>9, <3>2 DEF Distinct
    <3>3. \A a, b \in Player : a \in settled /\ b \notin settled =>
             t.resolved[a] # t.resolved[b]
      <4> SUFFICES ASSUME NEW a \in Player, NEW b \in Player,
                          a \in settled, b \notin settled,
                          t.resolved[a] = t.resolved[b]
                   PROVE  FALSE
        OBVIOUS
      <4>1. t.resolved[b] = s.resolved[b] /\ s.resolved[b] # NoCard
            /\ s.resolved[b] \in s.options
        BY <1>8, <1>9
      <4>2. s.resolved[b] \in CardsOf(s.resolved)
        BY <4>1, CardsOfChoice
      <4> QED
        BY <1>2, <4>1, <4>2
    <3> QED
      BY <3>1, <3>2, <3>3
  <2> QED
    BY <1>1, <1>5, <2>1, <2>2 DEF CardsOnTheTable
<1>11. Accounted(t)
  <2> DEFINE unsettled == {p \in Player : t.resolved[p] = NoCard}
  <2>1. CASE Cardinality(tied) = 1
    <3>1. \A p \in Player : t.resolved[p] # NoCard
      BY <1>2, <1>7, <1>8, <1>9, <2>1
    <3>2. t.starter # NoPlayer
      BY <1>1, <1>4, <2>1
    <3> QED
      BY <1>1, <3>1, <3>2 DEF Accounted
  <2>2. CASE Cardinality(tied) # 1
    <3>1. \A p \in Player : t.resolved[p] = NoCard <=> p \in tied
      BY <1>2, <1>3, <1>7, <1>8, <1>9, <2>2
    <3>2. unsettled = tied
      BY <1>2, <1>3, <3>1
    <3> QED
      BY <1>1, <2>2, <3>2 DEF Accounted
  <2> QED
    BY <2>1, <2>2
<1>12. JokersAreHigh(t)
  <2> SUFFICES ASSUME NEW p \in Player, p # t.starter
               PROVE  t.resolved[p] \notin Joker
    BY DEF JokersAreHigh
  <2>1. CASE p \in settled
    <3>1. p \notin tied
      BY <1>1, <1>7, <2>1
    <3> QED
      BY <1>6, <1>7, <1>8, <2>1, <3>1
  <2>2. CASE p \notin settled
    BY <1>2, <1>4, <1>9, <2>2 DEF Good, JokersAreHigh
  <2> QED
    BY <2>1, <2>2
<1>13. Complete(t)
  BY <1>1 DEF Complete
<1> QED
  BY <1>1, <1>10, <1>11, <1>12, <1>13 DEF Good, t

-----------------------------------------------------------------------------
(***************************************************************************)
(* Choosing.                                                                *)
(***************************************************************************)
\* Choosing may change to others, each a free option's, in the same round.
LEMMA ChoicesAreGood ==
  ASSUME NEW s, Good(s), NEW choice \in Choosing,
         CardsOf(choice) \subseteq s.options, Distinct(choice)
  PROVE  LET t == [s EXCEPT !.choice = choice]
         IN  /\ Good(t)
             /\ t.phase = s.phase /\ t.choice = choice /\ t.eligible = s.eligible
<1> DEFINE t == [s EXCEPT !.choice = choice]
<1>1. s \in Selection
  BY DEF Good
<1>2. /\ t \in Selection
      /\ t.phase = s.phase /\ t.eligible = s.eligible /\ t.tied = s.tied
      /\ t.options = s.options /\ t.resolved = s.resolved /\ t.choice = choice
      /\ t.remaining = s.remaining /\ t.discarded = s.discarded
      /\ t.starter = s.starter
  BY <1>1 DEF Selection, Choosing
<1> HIDE DEF t
<1>3. CardsOnTheTable(t)
  BY <1>2 DEF Good, CardsOnTheTable
<1>4. Accounted(t) /\ JokersAreHigh(t) /\ Complete(t)
  BY <1>2 DEF Good, Accounted, JokersAreHigh, Complete
<1> QED
  BY <1>2, <1>3, <1>4 DEF Good, t

\* A player takes a free option.
LEMMA SelectIsGood ==
  ASSUME NEW s, Good(s), NEW p \in Player, s.choice[p] = NoCard,
         NEW card \in s.options \ CardsOf(s.choice)
  PROVE  LET t == [s EXCEPT !.choice[p] = card]
         IN  Good(t) /\ t.phase = s.phase
<1>1. s \in Selection /\ s.choice \in Choosing /\ s.options \subseteq Card
      /\ CardsOf(s.choice) \subseteq s.options /\ Distinct(s.choice)
  BY DEF Good, Selection, Choosing, kSubset, CardsOnTheTable
<1> DEFINE choice == [s.choice EXCEPT ![p] = card]
<1>2. choice \in Choosing /\ choice[p] = card
      /\ \A q \in Player : q # p => choice[q] = s.choice[q]
  BY <1>1 DEF Choosing
<1>3. [s EXCEPT !.choice[p] = card] = [s EXCEPT !.choice = choice]
  BY <1>1 DEF Selection
<1> HIDE DEF choice
<1>4. CardsOf(choice) \subseteq s.options
  <2> SUFFICES ASSUME NEW c \in CardsOf(choice)
               PROVE  c \in s.options
    OBVIOUS
  <2>1. PICK q \in Player : choice[q] = c /\ c # NoCard
    BY CardsOfChoice
  <2>2. CASE q = p
    BY <1>2, <2>1, <2>2
  <2>3. CASE q # p
    BY <1>1, <1>2, <2>1, <2>3, CardsOfChoice
  <2> QED
    BY <2>2, <2>3
<1>5. Distinct(choice)
  <2>1. \A q \in Player : q # p => choice[q] # card
    <3> SUFFICES ASSUME NEW q \in Player, q # p, choice[q] = card
                 PROVE  FALSE
      OBVIOUS
    <3>1. card # NoCard
      BY <1>1, CardsAreCards
    <3> QED
      BY <1>2, <3>1, CardsOfChoice
  <2> QED
    BY <1>1, <1>2, <2>1 DEF Distinct
<1> QED
  BY <1>2, <1>3, <1>4, <1>5, ChoicesAreGood

\* The timer takes a free option for everyone who has none.
LEMMA CompletionIsGood ==
  ASSUME NEW s, Good(s), NEW choice \in Completions(s)
  PROVE  LET t == [s EXCEPT !.choice = choice]
         IN  Good(t) /\ t.phase = s.phase /\ AllChosen(t)
<1>1. s \in Selection /\ s.choice \in Choosing /\ s.options \subseteq Card
      /\ CardsOf(s.choice) \subseteq s.options /\ Distinct(s.choice)
      /\ s.eligible \subseteq Player
  BY DEF Good, Selection, Choosing, kSubset, CardsOnTheTable
<1> DEFINE late == {p \in s.eligible : s.choice[p] = NoCard}
           free == s.options \ CardsOf(s.choice)
<1>2. PICK pick \in [late -> free] :
         /\ IsInjective(pick)
         /\ choice = [p \in Player |-> IF p \in late THEN pick[p] ELSE s.choice[p]]
  BY DEF Completions
<1>3. \A p \in Player : choice[p] = IF p \in late THEN pick[p] ELSE s.choice[p]
  BY <1>2
<1>4. \A p \in late : pick[p] \in s.options /\ pick[p] \notin CardsOf(s.choice)
  BY <1>2
<1>5. \A p, q \in late : pick[p] = pick[q] => p = q
  BY <1>2 DEF IsInjective
<1>6. choice \in Choosing
  BY <1>1, <1>2, <1>4 DEF Choosing
<1>7. late \subseteq Player /\ \A p \in s.eligible : s.choice[p] = NoCard => p \in late
  BY <1>1
<1> HIDE DEF late, free
<1>8. CardsOf(choice) \subseteq s.options
  <2> SUFFICES ASSUME NEW c \in CardsOf(choice)
               PROVE  c \in s.options
    OBVIOUS
  <2>1. PICK q \in Player : choice[q] = c /\ c # NoCard
    BY CardsOfChoice
  <2> QED
    BY <1>1, <1>3, <1>4, <2>1, CardsOfChoice
<1>9. Distinct(choice)
  <2>1. \A p \in late, q \in Player : q \notin late => choice[p] # choice[q]
    <3> SUFFICES ASSUME NEW p \in late, NEW q \in Player, q \notin late,
                        choice[p] = choice[q]
                 PROVE  FALSE
      OBVIOUS
    <3>1. pick[p] = s.choice[q] /\ pick[p] # NoCard
      BY <1>1, <1>3, <1>4, <1>7, CardsAreCards
    <3> QED
      BY <1>4, <3>1, CardsOfChoice
  <2> QED
    BY <1>1, <1>3, <1>5, <1>7, <2>1 DEF Distinct
<1>10. \A p \in s.eligible : choice[p] # NoCard
  BY <1>1, <1>3, <1>4, <1>7, CardsAreCards
<1>11. LET t == [s EXCEPT !.choice = choice]
       IN  Good(t) /\ t.phase = s.phase /\ t.choice = choice /\ t.eligible = s.eligible
  BY <1>6, <1>8, <1>9, ChoicesAreGood
<1> QED
  BY <1>10, <1>11 DEF AllChosen

-----------------------------------------------------------------------------
(***************************************************************************)
(* Rounds.                                                                 *)
(***************************************************************************)
\* A selection about to draw options: what was on the table is put away, or
\* kept by the players who are settled.
Drawing ==
  [phase : Phase, eligible : SUBSET Player, tied : SUBSET Player,
   options : SUBSET Card, choice : Choosing, resolved : Choosing,
   remaining : SUBSET Card, discarded : SUBSET Card,
   starter : Player \cup {NoPlayer}]

Ready(u) ==
  /\ u \in Drawing
  /\ u.phase = "choosing"
  /\ u.starter = NoPlayer
  /\ u.eligible = {p \in Player : u.resolved[p] = NoCard}
  /\ Cardinality(u.eligible) >= 2
  /\ Card = u.remaining \cup u.discarded \cup CardsOf(u.resolved)
  /\ u.remaining \cap u.discarded = {}
  /\ (u.remaining \cup u.discarded) \cap CardsOf(u.resolved) = {}
  /\ Distinct(u.resolved)
  /\ JokersAreHigh(u)

\* Drawing options from the pile and the discards keeps the invariant.
LEMMA DrawIsGood ==
  ASSUME NEW u, Ready(u), NEW options \in kSubset(NumOptions, Card),
         NEW discarded \in SUBSET u.discarded,
         options \cap discarded = {},
         options \cap CardsOf(u.resolved) = {}
  PROVE  LET t == WithOptions(u, options, discarded)
         IN  Good(t) /\ t.phase = "choosing" /\ t.options = options
<1> DEFINE t == WithOptions(u, options, discarded)
           remaining == (u.remaining \cup (u.discarded \ discarded)) \ options
<1>1. u \in Drawing /\ options \subseteq Card
  BY DEF Ready, kSubset
<1>2. NoChoice \in Choosing /\ \A p \in Player : NoChoice[p] = NoCard
  BY DEF NoChoice, Choosing
<1>3. t = [u EXCEPT !.options = options, !.choice = NoChoice,
                    !.remaining = remaining, !.discarded = discarded]
  BY <1>1 DEF WithOptions, Drawing
<1>4. remaining \subseteq Card /\ discarded \subseteq Card
  BY <1>1 DEF Drawing
<1> HIDE DEF t
<1>5. t \in Selection
  <2> HIDE DEF remaining
  <2> QED
    BY <1>1, <1>2, <1>3, <1>4 DEF Selection, Drawing, Choosing
<1>6. /\ t.phase = "choosing" /\ t.eligible = u.eligible /\ t.starter = NoPlayer
      /\ t.options = options /\ t.choice = NoChoice /\ t.resolved = u.resolved
      /\ t.remaining = remaining /\ t.discarded = discarded
  BY <1>1, <1>3 DEF Drawing, Ready
<1>7. CardsOf(NoChoice) = {} /\ Distinct(NoChoice)
  BY <1>2, CardsOfChoice DEF Distinct
<1>8. CardsOnTheTable(t)
  <2> DEFINE held == CardsOf(u.resolved)
  <2>1. /\ Card = u.remaining \cup u.discarded \cup held
        /\ u.remaining \cap u.discarded = {}
        /\ (u.remaining \cup u.discarded) \cap held = {}
        /\ Distinct(u.resolved)
    BY DEF Ready
  <2> HIDE DEF held
  <2>2. options \cap held = {}
    BY DEF held
  <2>3. Card = remaining \cup discarded \cup (options \cup held)
    BY <1>1, <2>1
  <2>4. remaining \cap discarded = {}
    BY <2>1
  <2>5. (remaining \cup discarded) \cap (options \cup held) = {}
    BY <2>1
  <2> QED
    BY <1>6, <1>7, <2>1, <2>2, <2>3, <2>4, <2>5 DEF CardsOnTheTable, held
<1>9. Accounted(t)
  BY <1>6 DEF Accounted, Ready
<1>10. JokersAreHigh(t) /\ Complete(t)
  BY <1>6 DEF JokersAreHigh, Complete, Ready
<1> QED
  BY <1>5, <1>6, <1>8, <1>9, <1>10 DEF Good, t

\* Whichever way takeStartingOptions draws, the invariant holds.
LEMMA TakeIsGood ==
  ASSUME NEW u, Ready(u), NEW preceding, NEW t \in TakeOptions(u, preceding)
  PROVE  Good(t) /\ t.phase = "choosing"
<1>1. /\ u.remaining \subseteq Card /\ u.discarded \subseteq Card
      /\ u.remaining \cap u.discarded = {}
      /\ (u.remaining \cup u.discarded) \cap CardsOf(u.resolved) = {}
  BY DEF Ready, Drawing
<1>2. CASE Cardinality(u.remaining) < NumOptions
  <2>1. PICK options \in kSubset(NumOptions,
                  Candidates(u.remaining \cup u.discarded, preceding)) :
           t = WithOptions(u, options, {})
    BY <1>2 DEF TakeOptions
  <2>2. options \subseteq u.remaining \cup u.discarded
        /\ options \in kSubset(NumOptions, Card)
    BY <1>1, <2>1 DEF kSubset, Candidates
  <2> QED
    BY <1>1, <2>1, <2>2, DrawIsGood
<1>3. CASE ~ (Cardinality(u.remaining) < NumOptions)
  <2>1. PICK options \in kSubset(NumOptions, u.remaining) :
           t = WithOptions(u, options, u.discarded)
    BY <1>3 DEF TakeOptions
  <2>2. options \subseteq u.remaining /\ options \in kSubset(NumOptions, Card)
    BY <1>1, <2>1 DEF kSubset
  <2> QED
    BY <1>1, <2>1, <2>2, DrawIsGood
<1> QED
  BY <1>2, <1>3

\* The selection another round starts from.
Again(s) ==
  [s EXCEPT !.phase = "choosing", !.eligible = s.tied, !.tied = {},
            !.discarded = Discards(s)]

\* After a tie the table is ready for another draw.
LEMMA AgainIsReady ==
  ASSUME NEW s, Good(s), s.phase = "revealed", s.starter = NoPlayer
  PROVE  /\ Ready(Again(s))
         /\ Again(s).remaining = s.remaining
         /\ Again(s).discarded = Discards(s)
         /\ Again(s).resolved = s.resolved
<1> DEFINE u == Again(s)
           held == CardsOf(s.resolved)
<1>1. s \in Selection /\ s.options \subseteq Card /\ held \subseteq Card
  BY CardsAreCards DEF Good, Selection, kSubset, Choosing
<1>2. /\ Card = s.remaining \cup s.discarded \cup (s.options \cup held)
      /\ s.remaining \cap s.discarded = {}
      /\ (s.remaining \cup s.discarded) \cap (s.options \cup held) = {}
      /\ Distinct(s.resolved)
  BY DEF Good, CardsOnTheTable
<1>3. s.tied = {p \in Player : s.resolved[p] = NoCard} /\ Cardinality(s.tied) >= 2
  BY DEF Good, Accounted
<1>4. Discards(s) = s.discarded \cup (s.options \ held)
  BY DEF Discards
<1>5. Discards(s) \subseteq Card
  BY <1>1, <1>2, <1>4
<1>6. u \in Drawing
  BY <1>1, <1>5 DEF Again, Selection, Drawing, Choosing, Phase
<1>7. /\ u.phase = "choosing" /\ u.starter = NoPlayer /\ u.eligible = s.tied
      /\ u.remaining = s.remaining /\ u.discarded = Discards(s)
      /\ u.resolved = s.resolved
  BY <1>1 DEF Again, Selection
<1> HIDE DEF u, held
<1>8. /\ Card = s.remaining \cup Discards(s) \cup held
      /\ s.remaining \cap Discards(s) = {}
      /\ (s.remaining \cup Discards(s)) \cap held = {}
  BY <1>2, <1>4
<1>9. JokersAreHigh(u)
  BY <1>7 DEF Good, JokersAreHigh
<1> QED
  BY <1>2, <1>3, <1>6, <1>7, <1>8, <1>9 DEF Ready, u, held

\* A phase that ends the selection keeps the rest of the invariant.
LEMMA EndIsGood ==
  ASSUME NEW s, Good(s), NEW phase \in {"dealt", "aborted"},
         phase = "dealt" =>
           s.starter \in Player /\ \A p \in Player : s.resolved[p] # NoCard
  PROVE  LET t == [s EXCEPT !.phase = phase]
         IN  Good(t) /\ t.phase = phase
<1> DEFINE t == [s EXCEPT !.phase = phase]
<1>1. /\ t \in Selection
      /\ t.phase = phase /\ t.options = s.options /\ t.choice = s.choice
      /\ t.resolved = s.resolved /\ t.starter = s.starter
      /\ t.remaining = s.remaining /\ t.discarded = s.discarded
  BY DEF Good, Selection, Phase
<1> HIDE DEF t
<1>2. CardsOnTheTable(t)
  BY <1>1 DEF Good, CardsOnTheTable
<1>3. Accounted(t) /\ JokersAreHigh(t) /\ Complete(t)
  BY <1>1 DEF Good, Accounted, JokersAreHigh, Complete
<1> QED
  BY <1>1, <1>2, <1>3 DEF Good, t

-----------------------------------------------------------------------------
(***************************************************************************)
(* The invariant.                                                          *)
(***************************************************************************)
\* Every selection begins with it.
LEMMA InitHolds == Init => IInv /\ selection.phase = "choosing"
<1> SUFFICES ASSUME Init
             PROVE  IInv /\ selection.phase = "choosing"
  OBVIOUS
<1> DEFINE u == [phase |-> "choosing", eligible |-> Player, tied |-> {},
                 options |-> {}, choice |-> NoChoice, resolved |-> NoChoice,
                 remaining |-> Card, discarded |-> {}, starter |-> NoPlayer]
<1>1. NoChoice \in Choosing /\ \A p \in Player : NoChoice[p] = NoCard
  BY DEF NoChoice, Choosing
<1>2. CardsOf(NoChoice) = {} /\ Distinct(NoChoice)
  BY <1>1, CardsOfChoice DEF Distinct
<1>3. u \in Drawing
  BY <1>1 DEF Drawing, Phase
<1>4. Cardinality(Player) >= 2
  BY PlayersFinite, SelectionAssumption
<1>5. {p \in Player : NoChoice[p] = NoCard} = Player
  BY <1>1
<1>6. JokersAreHigh(u)
  BY <1>1, CardsAreCards, CardsAssumption DEF JokersAreHigh
<1>7. Ready(u)
  BY <1>2, <1>3, <1>4, <1>5, <1>6 DEF Ready
<1>8. selection \in TakeOptions(u, {})
  BY DEF Init
<1> HIDE DEF u
<1>9. Good(selection) /\ selection.phase = "choosing"
  BY <1>7, <1>8, TakeIsGood
<1> QED
  BY <1>9 DEF Init, IInv, TypeOK, TimersMatchPhase, Good

\* Every step keeps it.
LEMMA StepKeepsInvariant == IInv /\ [Next]_vars => IInv'
<1> SUFFICES ASSUME IInv, [Next]_vars
             PROVE  IInv'
  OBVIOUS
<1>0. /\ Good(selection) /\ TypeOK /\ TimersMatchPhase
      /\ selection \in Selection
  BY DEF IInv, Good
<1> SUFFICES /\ Good(selection')
             /\ choiceTimer' \in BOOLEAN /\ revealTimer' \in BOOLEAN
             /\ beginning' \in BOOLEAN
             /\ dropped' \in SUBSET (Player \ Bot)
             /\ choiceTimer' => selection'.phase = "choosing"
             /\ selection'.phase = "choosing" => choiceTimer' \/ beginning'
             /\ revealTimer' => selection'.phase = "revealed"
             /\ selection'.phase = "revealed" /\ selection'.starter = NoPlayer
                  => revealTimer'
  BY DEF IInv, Good, TypeOK, TimersMatchPhase
<1>1. CASE Begun
  BY <1>0, <1>1 DEF Begun, TypeOK, TimersMatchPhase
<1>2. CASE ChoiceTimeout
  <2>1. selection.phase = "choosing" /\ choiceTimer
    BY <1>0, <1>2 DEF ChoiceTimeout, TimersMatchPhase
  <2>2. PICK choice \in Completions(selection) :
           selection' = Reveal([selection EXCEPT !.choice = choice])
    BY <1>2, <2>1 DEF ChoiceTimeout
  <2>3. Good(selection') /\ selection'.phase = "revealed"
    BY <1>0, <2>1, <2>2, CompletionIsGood, RevealIsGood
  <2>4. choiceTimer' = FALSE /\ revealTimer' = TRUE /\ UNCHANGED <<beginning, dropped>>
    BY <1>2, <2>1 DEF ChoiceTimeout
  <2> QED
    BY <1>0, <2>3, <2>4 DEF TypeOK
<1>3. CASE RevealTimeout
  <2>1. selection.phase = "revealed" /\ ~ choiceTimer
    BY <1>0, <1>3 DEF RevealTimeout, TimersMatchPhase
  <2>2. revealTimer' = FALSE /\ UNCHANGED <<beginning, dropped>>
    BY <1>3 DEF RevealTimeout
  <2>3. CASE selection.starter # NoPlayer
    <3>1. Finalize
      BY <1>3, <2>1, <2>3 DEF RevealTimeout
    <3>2. selection.starter \in Player
      BY <1>0, <2>3 DEF Selection
    <3>3. CASE selection' = [selection EXCEPT !.phase = "dealt"]
      <4>1. \A p \in Player : selection.resolved[p] # NoCard
        BY <1>0, <2>1, <2>3 DEF Good, Accounted
      <4>2. Good(selection') /\ selection'.phase = "dealt"
        BY <1>0, <3>2, <3>3, <4>1, EndIsGood
      <4> QED
        BY <1>0, <2>1, <2>2, <3>1, <4>2 DEF Finalize, TypeOK
    <3>4. CASE UNCHANGED selection
      BY <1>0, <2>1, <2>2, <2>3, <3>1, <3>4 DEF Finalize, TypeOK
    <3> QED
      BY <3>1, <3>3, <3>4 DEF Finalize
  <2>4. CASE selection.starter = NoPlayer
    <3>1. NextRound
      BY <1>3, <2>1, <2>4 DEF RevealTimeout
    <3>2. selection' \in TakeOptions(Again(selection), selection.options)
      BY <3>1 DEF NextRound, Again
    <3>3. Good(selection') /\ selection'.phase = "choosing"
      BY <1>0, <2>1, <2>4, <3>2, AgainIsReady, TakeIsGood
    <3> QED
      BY <1>0, <2>2, <3>1, <3>3 DEF NextRound, TypeOK
  <2> QED
    BY <2>3, <2>4
<1>4. ASSUME NEW p \in Player, NEW card \in Card, Select(p, card)
      PROVE  /\ Good(selection')
             /\ choiceTimer' \in BOOLEAN /\ revealTimer' \in BOOLEAN
             /\ beginning' \in BOOLEAN
             /\ dropped' \in SUBSET (Player \ Bot)
             /\ choiceTimer' => selection'.phase = "choosing"
             /\ selection'.phase = "choosing" => choiceTimer' \/ beginning'
             /\ revealTimer' => selection'.phase = "revealed"
             /\ selection'.phase = "revealed" /\ selection'.starter = NoPlayer
                  => revealTimer'
  <2> DEFINE chosen == [selection EXCEPT !.choice[p] = card]
  <2>1. selection.phase = "choosing" /\ UNCHANGED <<beginning, dropped>>
    BY <1>4 DEF Select
  <2>2. Good(chosen) /\ chosen.phase = "choosing"
    BY <1>0, <1>4, <2>1, SelectIsGood DEF Select
  <2>3. IF AllChosen(chosen)
        THEN selection' = Reveal(chosen) /\ choiceTimer' = FALSE /\ revealTimer' = TRUE
        ELSE selection' = chosen /\ UNCHANGED <<choiceTimer, revealTimer>>
    BY <1>4 DEF Select, ClearChoiceTimer
  <2> HIDE DEF chosen
  <2>4. CASE AllChosen(chosen)
    <3>1. Good(selection') /\ selection'.phase = "revealed"
      BY <2>2, <2>3, <2>4, RevealIsGood
    <3> QED
      BY <1>0, <2>1, <2>3, <2>4, <3>1 DEF TypeOK
  <2>5. CASE ~ AllChosen(chosen)
    BY <1>0, <2>1, <2>2, <2>3, <2>5 DEF TypeOK, TimersMatchPhase
  <2> QED
    BY <2>4, <2>5
<1>5. ASSUME NEW p \in Player, Drop(p) \/ Reconnect(p)
      PROVE  /\ dropped' \in SUBSET (Player \ Bot)
             /\ UNCHANGED <<selection, choiceTimer, revealTimer, beginning>>
  BY <1>0, <1>5 DEF Drop, Reconnect, TypeOK
<1>6. ASSUME NEW p \in Player, Abort(p)
      PROVE  /\ Good(selection') /\ selection'.phase = "aborted"
             /\ choiceTimer' = FALSE /\ revealTimer' = FALSE
             /\ beginning' \in BOOLEAN
             /\ dropped' \in SUBSET (Player \ Bot)
  BY <1>0, <1>6, EndIsGood DEF Abort, TypeOK
<1>7. CASE UNCHANGED vars
  BY <1>0, <1>7 DEF vars, TypeOK, TimersMatchPhase
<1>8. CASE \E p \in Player : Drop(p) \/ Reconnect(p)
  BY <1>0, <1>5, <1>8 DEF TypeOK, TimersMatchPhase
<1>9. CASE \E p \in Player : Leave(p) \/ ReconnectTimeout(p)
  BY <1>6, <1>9 DEF Leave, ReconnectTimeout
<1> QED
  BY <1>1, <1>2, <1>3, <1>4, <1>7, <1>8, <1>9 DEF Next

-----------------------------------------------------------------------------
(***************************************************************************)
(* The theorems.                                                           *)
(***************************************************************************)
\* The invariant holds of every selection.
THEOREM SelectionIsSafe == Spec => []IInv
<1>1. Init => IInv
  BY InitHolds
<1>2. IInv /\ [Next]_vars => IInv'
  BY StepKeepsInvariant
<1> QED
  BY <1>1, <1>2, PTL DEF Spec

\* The selection always has the shape the code declares: six options are
\* shown in every round, however many ties there are.
THEOREM SelectionTypeCorrect == Spec => []TypeOK
<1>1. IInv => TypeOK
  BY DEF IInv
<1> QED
  BY <1>1, SelectionIsSafe, PTL

\* No card is lost, dealt twice or kept by two players in any number of
\* rounds (takeStartingOptions, advanceStartingSelection).
THEOREM SelectionKeepsCards == Spec => []SelectionConservesCards
<1>1. IInv => SelectionConservesCards
  BY DEF IInv, Good, SelectionConservesCards
<1> QED
  BY <1>1, SelectionIsSafe, PTL

\* finalizeStartingSelection finds a card for every player.
THEOREM NobodyIsMissing == Spec => []EveryPlayerIsAccountedFor
<1>1. IInv => EveryPlayerIsAccountedFor
  BY DEF IInv, Good, EveryPlayerIsAccountedFor
<1> QED
  BY <1>1, SelectionIsSafe, PTL

\* The right timer runs in every phase.
THEOREM NoPhaseIsForgotten == Spec => []TimersMatchPhase
<1>1. IInv => TimersMatchPhase
  BY DEF IInv
<1> QED
  BY <1>1, SelectionIsSafe, PTL

\* Some cards of a deck, shuffled, are the ones of the deck.
LEMMA ShuffleOfCards ==
  ASSUME NEW S \in SUBSET Card, NEW deck \in Shuffles(S)
  PROVE  deck \in Seq(Card) /\ IsInjective(deck) /\ ToSet(deck) = S
<1>1. IsFiniteSet(S) /\ Cardinality(S) \in Nat
  BY CardsAssumption, FS_Subset, FS_CardinalityType
<1>2. deck \in [1..Cardinality(S) -> S] /\ IsInjective(deck)
  BY DEF Shuffles
<1>3. deck \in Seq(Card) /\ DOMAIN deck = 1..Cardinality(S)
  <2>1. deck \in [1..Cardinality(S) -> Card]
    BY <1>2
  <2> QED
    BY <1>1, <2>1, FunctionIsSeq
<1>4. deck \in Injection(1..Cardinality(S), S)
  BY <1>2 DEF Injection, IsInjective
<1>5. Cardinality(1..Cardinality(S)) = Cardinality(S)
  BY <1>1, FS_Interval
<1>6. deck \in Surjection(1..Cardinality(S), S)
  BY <1>1, <1>4, <1>5, FS_Injection
<1>7. ToSet(deck) = S
  BY <1>2, <1>3, <1>6 DEF ToSet, Surjection
<1> QED
  BY <1>2, <1>3, <1>7

\* The deal a selection ends in is one the rules engine expects: every match
\* CipherDeckGame is checked and proved for may start from it, and no other.
THEOREM SelectionEndsInAnOpening == Spec => []ResultIsAnOpening
<1>1. IInv => ResultIsAnOpening
  <2> SUFFICES ASSUME IInv, selection.phase = "dealt",
                      NEW deck \in Shuffles(DeckCards(selection))
               PROVE  IsOpening([starter |-> selection.starter,
                                 starting |-> selection.resolved, deck |-> deck])
    BY DEF ResultIsAnOpening
  <2> DEFINE s == selection
             held == CardsOf(s.resolved)
  <2>1. /\ s \in Selection /\ CardsOnTheTable(s) /\ JokersAreHigh(s)
        /\ s.starter \in Player /\ \A p \in Player : s.resolved[p] # NoCard
    BY DEF IInv, Good, Complete
  <2>2. s.resolved \in Choosing /\ s.options \subseteq Card
    BY <2>1 DEF Selection, Choosing, kSubset
  <2>3. s.resolved \in [Player -> Card]
    BY <2>1, <2>2 DEF Choosing
  <2>4. held = {s.resolved[p] : p \in Player}
    BY <2>1 DEF CardsOf
  <2>5. DeckCards(s) = Card \ held
    <3>1. /\ Card = s.remaining \cup s.discarded \cup (s.options \cup held)
          /\ (s.remaining \cup s.discarded) \cap (s.options \cup held) = {}
      BY <2>1 DEF CardsOnTheTable
    <3> HIDE DEF held
    <3>2. DeckCards(s) = s.remaining \cup s.discarded \cup (s.options \ held)
      BY DEF DeckCards, held
    <3> QED
      BY <3>1, <3>2
  <2>6. deck \in Seq(Card) /\ IsInjective(deck) /\ ToSet(deck) = Card \ held
    BY <2>5, ShuffleOfCards
  <2>7. IsInjective(s.resolved)
    BY <2>1, <2>3 DEF CardsOnTheTable, Distinct, IsInjective
  <2>8. \A p \in Player \ {s.starter} : s.resolved[p] \notin Joker
    BY <2>1 DEF JokersAreHigh
  <2> QED
    BY <2>1, <2>3, <2>4, <2>6, <2>7, <2>8 DEF IsOpening
<1> QED
  BY <1>1, SelectionIsSafe, PTL

\* Enough cards are left after a tie for options nobody has just seen.
LEMMA FreshCardsAreEnough ==
  ASSUME NEW s, Good(s), s.phase = "revealed", s.starter = NoPlayer
  PROVE  Cardinality(Card \ (CardsOf(s.resolved) \cup s.options)) >= NumOptions
<1> DEFINE held == CardsOf(s.resolved)
           unsettled == {p \in Player : s.resolved[p] = NoCard}
           settled == Player \ unsettled
           kept == [p \in settled |-> s.resolved[p]]
<1>1. s \in Selection /\ s.options \subseteq Card /\ Cardinality(s.options) = NumOptions
      /\ held \subseteq Card
  BY CardsAreCards DEF Good, Selection, kSubset, Choosing
<1>2. Cardinality(unsettled) >= 2 /\ IsFiniteSet(unsettled)
      /\ Cardinality(unsettled) \in Nat
  BY PlayerSets DEF Good, Accounted
<1>3. IsFiniteSet(settled) /\ Cardinality(settled) = NumPlayers - Cardinality(unsettled)
  <2>1. Player \cap unsettled = unsettled
    OBVIOUS
  <2> HIDE DEF unsettled
  <2>2. /\ IsFiniteSet(Player \ unsettled)
        /\ Cardinality(Player \ unsettled) =
             Cardinality(Player) - Cardinality(Player \cap unsettled)
    BY PlayersFinite, FS_Difference
  <2> QED
    BY <2>1, <2>2, PlayersFinite
<1>4. IsFiniteSet(held) /\ Cardinality(held) <= Cardinality(settled)
  <2>1. \A p \in settled : s.resolved[p] # NoCard
    OBVIOUS
  <2>2. \A c \in held : \E p \in settled : kept[p] = c
    BY CardsOfChoice
  <2>3. kept \in [settled -> held]
    BY <2>1, CardsOfChoice
  <2>4. kept \in Surjection(settled, held)
    BY <2>2, <2>3 DEF Surjection
  <2> QED
    BY <1>3, <2>4, FS_Surjection
<1> HIDE DEF held, unsettled, settled, kept
<1>5. IsFiniteSet(Card) /\ IsFiniteSet(s.options)
  BY <1>1, CardsAssumption, FS_Subset
<1>6. /\ IsFiniteSet(held \cup s.options)
      /\ Cardinality(held \cup s.options) <= Cardinality(held) + NumOptions
  <2>1. IsFiniteSet(held \cap s.options) /\ Cardinality(held \cap s.options) \in Nat
    BY <1>4, FS_Intersection, FS_CardinalityType
  <2>2. Cardinality(held) \in Nat /\ NumOptions \in Nat
    BY <1>4, FS_CardinalityType, SelectionAssumption
  <2>3. /\ IsFiniteSet(held \cup s.options)
        /\ Cardinality(held \cup s.options) =
             Cardinality(held) + Cardinality(s.options) - Cardinality(held \cap s.options)
    <3> DEFINE options == s.options
    <3>1. IsFiniteSet(held) /\ IsFiniteSet(options)
      BY <1>4, <1>5
    <3> HIDE DEF options
    <3>2. /\ IsFiniteSet(held \cup options)
          /\ Cardinality(held \cup options) =
               Cardinality(held) + Cardinality(options) - Cardinality(held \cap options)
      BY ONLY <3>1, FS_Union
    <3> QED
      BY <3>2 DEF options
  <2> QED
    BY <1>1, <2>1, <2>2, <2>3
<1>7. Cardinality(Card \ (held \cup s.options)) =
         Cardinality(Card) - Cardinality(held \cup s.options)
  <2> DEFINE shown == held \cup s.options
  <2>1. Card \cap shown = shown
    BY <1>1
  <2> HIDE DEF shown
  <2>2. Cardinality(Card \ shown) = Cardinality(Card) - Cardinality(Card \cap shown)
    BY <1>5, FS_Difference
  <2> QED
    BY <2>1, <2>2 DEF shown
<1>8. /\ Cardinality(held \cup s.options) \in Nat /\ Cardinality(Card) \in Nat
      /\ Cardinality(held) \in Nat /\ Cardinality(settled) \in Nat
  BY <1>3, <1>4, <1>5, <1>6, FS_CardinalityType
<1>9. /\ NumPlayers \in Nat /\ NumOptions \in Nat
      /\ 2 * NumOptions + NumPlayers - 2 <= Cardinality(Card)
  BY SelectionAssumption
<1>10. Cardinality(Card) - Cardinality(held \cup s.options) >= NumOptions
  BY <1>2, <1>3, <1>4, <1>6, <1>8, <1>9
<1> QED
  BY <1>7, <1>10 DEF held

\* A tie is broken with cards that were not shown in its round: the fallback
\* of drawFreshStartingCards to all cards is never taken.
THEOREM TiesGetOtherCards == Spec => TiesAreBrokenWithOtherCards
<1> DEFINE Fresh == selection'.options # selection.options =>
                      selection'.options \cap selection.options = {}
<1>1. IInv /\ [Next]_vars => Fresh
  <2> SUFFICES ASSUME IInv, Next, selection'.options # selection.options
               PROVE  selection'.options \cap selection.options = {}
    BY DEF vars
  <2>1. Good(selection) /\ selection \in Selection
    BY DEF IInv, Good
  <2>2. RevealTimeout
    <3>1. ASSUME NEW s \in Selection
          PROVE  Reveal(s).options = s.options
      BY DEF Reveal, Selection
    <3>2. ~ ChoiceTimeout
      <4> SUFFICES ASSUME ChoiceTimeout
                   PROVE  FALSE
        OBVIOUS
      <4>1. selection' # selection
        OBVIOUS
      <4>2. PICK choice \in Completions(selection) :
               selection' = Reveal([selection EXCEPT !.choice = choice])
        BY <4>1 DEF ChoiceTimeout
      <4>3. Good([selection EXCEPT !.choice = choice])
        BY <2>1, CompletionIsGood
      <4>4. [selection EXCEPT !.choice = choice] \in Selection
        BY <4>3 DEF Good
      <4>5. [selection EXCEPT !.choice = choice].options = selection.options
        BY <2>1 DEF Selection
      <4> QED
        BY <3>1, <4>2, <4>4, <4>5
    <3>3. ASSUME NEW p \in Player, NEW card \in Card
          PROVE  ~ Select(p, card)
      <4> SUFFICES ASSUME Select(p, card)
                   PROVE  FALSE
        OBVIOUS
      <4> DEFINE chosen == [selection EXCEPT !.choice[p] = card]
      <4>1. Good(chosen)
        BY <2>1, SelectIsGood DEF Select
      <4>2. chosen \in Selection
        BY <4>1 DEF Good
      <4>3. chosen.options = selection.options
        BY <2>1 DEF Selection
      <4>4. selection' = Reveal(chosen) \/ selection' = chosen
        BY DEF Select
      <4> HIDE DEF chosen
      <4> QED
        BY <3>1, <4>2, <4>3, <4>4
    <3>4. ~ Begun /\ \A p \in Player : ~ Drop(p) /\ ~ Reconnect(p)
      BY DEF Begun, Drop, Reconnect
    <3>5. \A p \in Player : ~ Leave(p) /\ ~ ReconnectTimeout(p)
      BY <2>1 DEF Leave, ReconnectTimeout, Abort, Selection
    <3> QED
      BY <3>2, <3>3, <3>4, <3>5 DEF Next
  <2>3. selection.phase = "revealed" /\ selection.starter = NoPlayer /\ NextRound
    BY <2>1, <2>2 DEF RevealTimeout, Finalize, Selection
  <2> DEFINE s == selection
             u == Again(s)
             t == selection'
  <2>4. t \in TakeOptions(u, s.options)
    BY <2>3 DEF NextRound, Again
  <2>5. /\ u.remaining = s.remaining
        /\ u.discarded = Discards(s)
        /\ s.remaining \cap s.options = {}
        /\ u.remaining \cup u.discarded = Card \ CardsOf(s.resolved)
    <3>1. /\ Ready(u) /\ u.remaining = s.remaining /\ u.discarded = Discards(s)
          /\ u.resolved = s.resolved
      BY <2>1, <2>3, AgainIsReady
    <3>2. s.remaining \cap s.options = {}
      BY <2>1 DEF Good, CardsOnTheTable
    <3> HIDE DEF u
    <3> QED
      BY <3>1, <3>2 DEF Ready
  <2>6. \A options, discarded : WithOptions(u, options, discarded).options = options
    <3>1. u \in Drawing
      BY <2>1, <2>3, AgainIsReady DEF Ready
    <3> HIDE DEF u
    <3> QED
      BY <3>1 DEF WithOptions, Drawing
  <2> HIDE DEF u, t
  <2>7. CASE Cardinality(u.remaining) < NumOptions
    <3>1. PICK options \in kSubset(NumOptions,
                  Candidates(u.remaining \cup u.discarded, s.options)) :
             t = WithOptions(u, options, {})
      BY <2>4, <2>7 DEF TakeOptions
    <3>2. (u.remaining \cup u.discarded) \ s.options =
             Card \ (CardsOf(s.resolved) \cup s.options)
      BY <2>5
    <3>3. Cardinality((u.remaining \cup u.discarded) \ s.options) >= NumOptions
      BY <2>1, <2>3, <3>2, FreshCardsAreEnough
    <3>4. Candidates(u.remaining \cup u.discarded, s.options) =
             (u.remaining \cup u.discarded) \ s.options
      BY <3>3 DEF Candidates
    <3>5. options \cap s.options = {}
      BY <3>1, <3>4 DEF kSubset
    <3> QED
      BY <2>6, <3>1, <3>5 DEF t
  <2>8. CASE ~ (Cardinality(u.remaining) < NumOptions)
    <3>1. PICK options \in kSubset(NumOptions, u.remaining) :
             t = WithOptions(u, options, u.discarded)
      BY <2>4, <2>8 DEF TakeOptions
    <3>2. options \cap s.options = {}
      BY <2>5, <3>1 DEF kSubset
    <3> QED
      BY <2>6, <3>1, <3>2 DEF t
  <2> QED
    BY <2>7, <2>8
<1>2. TiesAreBrokenWithOtherCards <=> [][Fresh]_vars
  BY PTL DEF TiesAreBrokenWithOtherCards
<1> QED
  BY <1>1, <1>2, SelectionIsSafe, PTL DEF Spec, TiesAreBrokenWithOtherCards

-----------------------------------------------------------------------------
(***************************************************************************)
(* What the room sees of a selection.                                      *)
(***************************************************************************)
\* A match is dealt with everybody there.
AllThere == selection.phase = "dealt" => dropped = {}

\* finalizeStartingSelection deals if nobody is away, and else throws.
LEMMA DealtWithAll ==
  ASSUME IInv, selection.phase = "revealed", selection.starter # NoPlayer, Finalize
  PROVE  IF dropped = {} THEN selection' = [selection EXCEPT !.phase = "dealt"]
                         ELSE selection' = selection
<1>1. {p \in Player : selection.resolved[p] # NoCard} = Player
  BY DEF IInv, Good, Accounted
<1>2. IsFiniteSet(Player) /\ dropped \subseteq Player
  BY PlayersFinite DEF IInv, TypeOK
<1>3. Cardinality(Player) = Cardinality(Player \ dropped) <=> dropped = {}
  <2>1. CASE dropped = {}
    <3>1. Player \ dropped = Player
      BY <2>1
    <3> QED
      BY <2>1, <3>1
  <2>2. CASE dropped # {}
    <3>1. PICK p \in Player : p \notin Player \ dropped
      BY <1>2, <2>2
    <3>2. Player \ dropped \subseteq Player \ {p}
      BY <3>1
    <3>3. IsFiniteSet(Player \ {p}) /\ Cardinality(Player \ {p}) = Cardinality(Player) - 1
      BY <1>2, <3>1, FS_RemoveElement
    <3>4. Cardinality(Player \ dropped) <= Cardinality(Player \ {p})
      BY <3>2, <3>3, FS_Subset
    <3>5. Cardinality(Player) \in Nat /\ Cardinality(Player \ dropped) \in Nat
      BY <1>2, FS_Subset, FS_CardinalityType
    <3> QED
      BY <2>2, <3>3, <3>4, <3>5
  <2> QED
    BY <2>1, <2>2
<1> QED
  BY <1>1, <1>3 DEF Finalize

\* A step of the selection as the room sees it.
LEMMA SeenStep ==
  ASSUME IInv, AllThere, Next, Seen' # Seen
  PROVE  \/ Seen = "choosing" /\ Seen' = "revealed"
         \/ Seen = "revealed" /\ Seen' = "choosing"
         \/ Seen = "revealed" /\ Seen' = "dealt" /\ dropped = {} /\ dropped' = {}
         \/ Seen = "revealed" /\ Seen' = "stuck" /\ dropped # {}
         \/ Seen # "dealt" /\ Seen' = "aborted"
<1>0. Good(selection) /\ TypeOK /\ TimersMatchPhase /\ selection \in Selection
  BY DEF IInv, Good
<1>1. CASE Begun \/ \E p \in Player : Drop(p) \/ Reconnect(p)
  BY <1>1 DEF Begun, Drop, Reconnect, Seen
<1>2. CASE ChoiceTimeout
  <2>1. selection.phase = "choosing" /\ choiceTimer
    BY <1>0, <1>2 DEF ChoiceTimeout, TimersMatchPhase
  <2>2. PICK choice \in Completions(selection) :
           selection' = Reveal([selection EXCEPT !.choice = choice])
    BY <1>2, <2>1 DEF ChoiceTimeout
  <2>3. selection'.phase = "revealed" /\ revealTimer' = TRUE
    BY <1>0, <1>2, <2>1, <2>2, CompletionIsGood, RevealIsGood DEF ChoiceTimeout
  <2> QED
    BY <2>1, <2>3 DEF Seen
<1>3. CASE RevealTimeout
  <2>1. selection.phase = "revealed" /\ revealTimer /\ revealTimer' = FALSE
          /\ dropped' = dropped
    BY <1>0, <1>3 DEF RevealTimeout, TimersMatchPhase
  <2>2. Seen = "revealed"
    BY <2>1 DEF Seen
  <2>3. CASE selection.starter # NoPlayer
    <3>1. IF dropped = {} THEN selection' = [selection EXCEPT !.phase = "dealt"]
                          ELSE selection' = selection
      BY <1>3, <2>1, <2>3, DealtWithAll DEF RevealTimeout
    <3>2. CASE dropped = {}
      <4>1. selection'.phase = "dealt"
        BY <1>0, <3>1, <3>2 DEF Selection
      <4> QED
        BY <2>1, <2>2, <3>2, <4>1 DEF Seen
    <3>3. CASE dropped # {}
      BY <2>1, <2>2, <3>1, <3>3 DEF Seen
    <3> QED
      BY <3>2, <3>3
  <2>4. CASE selection.starter = NoPlayer
    <3>1. selection' \in TakeOptions(Again(selection), selection.options)
      BY <1>3, <2>1, <2>4 DEF RevealTimeout, NextRound, Again
    <3>2. selection'.phase = "choosing"
      BY <1>0, <2>1, <2>4, <3>1, AgainIsReady, TakeIsGood
    <3> QED
      BY <2>2, <3>2 DEF Seen
  <2> QED
    BY <2>3, <2>4
<1>4. ASSUME NEW p \in Player, NEW card \in Card, Select(p, card)
      PROVE  Seen = "choosing" /\ Seen' = "revealed"
  <2> DEFINE chosen == [selection EXCEPT !.choice[p] = card]
  <2>1. selection.phase = "choosing"
    BY <1>4 DEF Select
  <2>2. Good(chosen) /\ chosen.phase = "choosing"
    BY <1>0, <1>4, <2>1, SelectIsGood DEF Select
  <2>3. IF AllChosen(chosen) THEN selection' = Reveal(chosen) /\ revealTimer' = TRUE
                             ELSE selection' = chosen /\ UNCHANGED revealTimer
    BY <1>4 DEF Select
  <2>4. Seen = "choosing"
    BY <2>1 DEF Seen
  <2> HIDE DEF chosen
  <2>5. CASE AllChosen(chosen)
    <3>1. selection'.phase = "revealed" /\ revealTimer' = TRUE
      BY <2>2, <2>3, <2>5, RevealIsGood
    <3> QED
      BY <2>4, <3>1 DEF Seen
  <2>6. CASE ~ AllChosen(chosen)
    BY <2>2, <2>3, <2>4, <2>6 DEF Seen
  <2> QED
    BY <2>5, <2>6
<1>5. ASSUME NEW p \in Player, Leave(p) \/ ReconnectTimeout(p)
      PROVE  Seen # "dealt" /\ Seen' = "aborted"
  <2>1. Abort(p) /\ (Selecting \/ p \in dropped)
    BY <1>5 DEF Leave, ReconnectTimeout
  <2>2. selection.phase # "dealt"
    BY <2>1 DEF Selecting, AllThere
  <2>3. selection'.phase = "aborted"
    BY <1>0, <2>1 DEF Abort, Selection
  <2> QED
    BY <2>2, <2>3 DEF Seen
<1> QED
  BY <1>1, <1>2, <1>3, <1>4, <1>5 DEF Next

\* A match that is dealt has nobody away, then and afterwards.
LEMMA AllThereStep == IInv /\ AllThere /\ [Next]_vars => AllThere'
<1> SUFFICES ASSUME IInv, AllThere, [Next]_vars, selection'.phase = "dealt"
             PROVE  dropped' = {}
  BY DEF AllThere
<1>1. Seen' = "dealt"
  BY DEF Seen
<1>2. CASE Seen = "dealt"
  <2>1. selection.phase = "dealt" /\ dropped = {}
    BY <1>2 DEF Seen, AllThere
  <2>2. \A p \in Player : ~ Drop(p) /\ ~ ReconnectTimeout(p) /\ ~ Reconnect(p) /\ ~ Leave(p)
    BY <2>1 DEF Drop, ReconnectTimeout, Reconnect, Leave, Selecting
  <2>3. dropped' = dropped
    BY <2>2 DEF Next, vars, Begun, ChoiceTimeout, RevealTimeout, Select
  <2> QED
    BY <2>1, <2>3
<1>3. CASE Seen # "dealt"
  <2>1. Next
    BY <1>1, <1>3 DEF vars, Seen
  <2> QED
    BY <1>1, <1>3, <2>1, SeenStep
<1> QED
  BY <1>2, <1>3

\* What Room takes a selection for is all that can be seen of it: it is dealt
\* when nobody is away, and not aborted any more then.
THEOREM SelectionAsTheRoomSeesIt == Spec => RoomSeesTheSelection
<1> DEFINE Step ==
      \/ Seen = "choosing" /\ Seen' = "revealed"
      \/ Seen = "revealed" /\ Seen' = "choosing"
      \/ Seen = "revealed" /\ Seen' = "dealt" /\ dropped = {}
      \/ Seen = "revealed" /\ Seen' = "stuck" /\ dropped # {}
      \/ Seen # "dealt" /\ Seen' = "aborted"
<1>1. Init => Seen = "choosing" /\ AllThere
  <2> SUFFICES ASSUME Init PROVE Seen = "choosing" /\ AllThere
    OBVIOUS
  <2>1. selection.phase = "choosing" /\ dropped = {}
    BY InitHolds DEF Init
  <2> QED
    BY <2>1 DEF Seen, AllThere
<1>2. IInv /\ AllThere /\ [Next]_vars => [Step]_Seen
  <2> SUFFICES ASSUME IInv, AllThere, [Next]_vars, Seen' # Seen PROVE Step
    OBVIOUS
  <2>1. Next
    BY DEF vars, Seen
  <2> QED
    BY <2>1, SeenStep
<1>3. RoomSeesTheSelection <=> Seen = "choosing" /\ [][Step]_Seen
  BY PTL DEF RoomSeesTheSelection
<1> HIDE DEF Step
<1> QED
  BY <1>1, <1>2, <1>3, AllThereStep, SelectionIsSafe, PTL DEF Spec
=============================================================================
