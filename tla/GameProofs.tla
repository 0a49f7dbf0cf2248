------------------------------ MODULE GameProofs ------------------------------
(***************************************************************************)
(* Safety of the rules engine for every number of players, deck and deal.  *)
(* The properties hold together: Safe is the inductive invariant.  An      *)
(* elimination is decided from the cards (PlayersFit) and cards must not   *)
(* be shared or a reveal would take out two players (CardsFit); a phase    *)
(* promises the cards and players its moves need (PhaseFits).              *)
(***************************************************************************)
EXTENDS GameProperties, RackFacts

Hidden(g, p) == ~ AllRevealed(g, p)

CardsFit(g) ==
  /\ Conserved(g)
  /\ Ordered(g)
  /\ ToSet(g.drawPile) \cap g.revealed = {}
  /\ \A p \in Player :
       /\ g.rack[p] # <<>>
       /\ ToSet(g.pendingJokers[p]) \subseteq Joker \cap ToSet(g.rack[p])
       /\ IsInjective(g.pendingJokers[p])

TwoHidden(g) == \E p, q \in Player : p # q /\ Hidden(g, p) /\ Hidden(g, q)

PlayersFit(g) ==
  /\ \A p \in g.eliminated : AllRevealed(g, p)
  /\ IF g.phase = "game-over"
     THEN g.winner \in Player /\ g.eliminated = Player \ {g.winner}
     ELSE g.winner = NoPlayer /\ Hidden(g, g.current) /\ TwoHidden(g)

PhaseFits(g) ==
  /\ DrawFits(g)
  /\ g.phase \in {"starter-place", "draw"} => g.drawPile # <<>>
  /\ g.phase = "starter-place" => HasPendingStartingJokerPlacements(g)
  /\ g.phase # "game-over" =>
       \A p \in Player : g.pendingJokers[p] # <<>> =>
          g.phase = "starter-place" /\ Hidden(g, p)

Safe(g) ==
  /\ g \in GameState
  /\ CardsFit(g)
  /\ PlayersFit(g)
  /\ PhaseFits(g)

-----------------------------------------------------------------------------
(***************************************************************************)
(* The deal of createInitialGameWithStartingCards: every opening gives     *)
(* each player the hand computeInitialHandSizes promises out of one deck,  *)
(* with no card dealt twice or lost and a draw pile left over.             *)
(***************************************************************************)
\* The deals of an opening, and the order in which the loop makes them.
Deals(o) == {d \in Player \X (1..BaseHand) : d[2] < HandSize(o, d[1])}

DealOrder(o) == [d \in Deals(o) |-> DealtUpTo(o, d[1], d[2])]

DealNumber(o, p, r) == Cardinality(DealtUpTo(o, p, r))

\* Seats and hands are counted in naturals, and the hands fit the deck.
LEMMA HandNumbers ==
  /\ NumPlayers \in Nat
  /\ Player \subseteq Nat
  /\ IsFiniteSet(Player)
  /\ Cardinality(Player) = NumPlayers
  /\ Cardinality(Card) \in Nat
  /\ BaseHand \in Nat
  /\ NumPlayers * BaseHand <= Cardinality(Card) - NumPlayers
<1>1. NumPlayers \in 3..6 /\ DrawRounds \in 1..8 /\ MaxHand \in Nat /\ BaseHand >= 2
  BY GameAssumption
<1>2. Cardinality(Card) \in Nat
  BY CardsAssumption, FS_CardinalityType
<1>3. IsFiniteSet(Player) /\ Cardinality(Player) = NumPlayers /\ Player \subseteq Nat
  BY <1>1, FS_Interval DEF Player
<1> DEFINE c == Cardinality(Card)
           fits == (c - DrawRounds * NumPlayers) \div NumPlayers
<1> HIDE DEF c
<1>4. c \in Nat
  BY <1>2 DEF c
<1>5. fits \in Int /\ NumPlayers * fits <= c - NumPlayers
  <2>1. CASE NumPlayers = 3
    BY <1>1, <1>4, <2>1
  <2>2. CASE NumPlayers = 4
    BY <1>1, <1>4, <2>2
  <2>3. CASE NumPlayers = 5
    BY <1>1, <1>4, <2>3
  <2>4. CASE NumPlayers = 6
    BY <1>1, <1>4, <2>4
  <2> QED
    BY <1>1, <2>1, <2>2, <2>3, <2>4
<1>6. BaseHand = IF fits < MaxHand THEN fits ELSE MaxHand
  BY DEF BaseHand, c
<1> HIDE DEF fits
<1>7. BaseHand \in Int /\ BaseHand <= fits
  BY <1>1, <1>5, <1>6
<1>8. NumPlayers * BaseHand <= NumPlayers * fits
  <2>1. CASE NumPlayers = 3
    BY <1>5, <1>7, <2>1
  <2>2. CASE NumPlayers = 4
    BY <1>5, <1>7, <2>2
  <2>3. CASE NumPlayers = 5
    BY <1>5, <1>7, <2>3
  <2>4. CASE NumPlayers = 6
    BY <1>5, <1>7, <2>4
  <2> QED
    BY <1>1, <2>1, <2>2, <2>3, <2>4
<1>9. NumPlayers * BaseHand \in Int /\ NumPlayers * fits \in Int
  BY <1>1, <1>5, <1>7
<1>10. NumPlayers * BaseHand <= c - NumPlayers
  BY <1>1, <1>4, <1>5, <1>8, <1>9
<1> QED
  BY <1>1, <1>2, <1>3, <1>7, <1>10 DEF c

\* Only the starter's hand is larger than the base hand.
LEMMA HandSizes ==
  ASSUME NEW o, IsOpening(o), NEW p \in Player
  PROVE  /\ HandSize(o, p) \in {BaseHand - 1, BaseHand, BaseHand + 1}
         /\ p # o.starter => HandSize(o, p) <= BaseHand
<1>1. HandSize(o, p) \in {BaseHand - 1, BaseHand, BaseHand + 1}
  BY DEF HandSize
<1>2. ASSUME p # o.starter
      PROVE  HandSize(o, p) \in {BaseHand - 1, BaseHand}
  <2>0. NumPlayers \in 3..6 /\ p \in 0..(NumPlayers - 1) /\ o.starter \in 0..(NumPlayers - 1)
    BY GameAssumption DEF Player, IsOpening
  <2>1. (p - o.starter + NumPlayers) % NumPlayers # 0
    <3> SUFFICES ASSUME NEW s \in 0..(NumPlayers - 1), p # s
                 PROVE  (p - s + NumPlayers) % NumPlayers # 0
      BY <1>2, <2>0
    <3>0. NumPlayers \in 3..6 /\ p \in 0..(NumPlayers - 1)
      BY <2>0
    <3>1. CASE NumPlayers = 3
      BY <3>0, <3>1
    <3>2. CASE NumPlayers = 4
      BY <3>0, <3>2
    <3>3. CASE NumPlayers = 5
      BY <3>0, <3>3
    <3>4. CASE NumPlayers = 6
      BY <3>0, <3>4
    <3> QED
      BY <3>0, <3>1, <3>2, <3>3, <3>4
  <2> QED
    BY <2>1 DEF HandSize
<1> QED
  BY <1>1, <1>2, HandNumbers

\* The deals are finitely many and leave cards for the draw pile.
LEMMA DealsFit ==
  ASSUME NEW o, IsOpening(o)
  PROVE  /\ IsFiniteSet(Deals(o))
         /\ Cardinality(Deals(o)) \in Nat
         /\ Cardinality(Deals(o)) < NumPlayers * BaseHand
<1> DEFINE all == Player \X (1..BaseHand)
<1>1. IsFiniteSet(all) /\ Cardinality(all) = NumPlayers * BaseHand
  <2>1. IsFiniteSet(1..BaseHand) /\ Cardinality(1..BaseHand) = BaseHand
    <3>1. BaseHand \in Nat /\ BaseHand >= 1
      BY HandNumbers, GameAssumption
    <3>2. IsFiniteSet(1..BaseHand)
      BY <3>1, FS_Interval
    <3>3. Cardinality(1..BaseHand) = IF 1 > BaseHand THEN 0 ELSE BaseHand - 1 + 1
      BY <3>1, FS_Interval
    <3> QED
      BY <3>1, <3>2, <3>3
  <2> QED
    BY <2>1, HandNumbers, FS_Product
<1>2. PICK p \in Player : p # o.starter
  <2>1. 0 \in Player /\ 1 \in Player
    BY GameAssumption DEF Player
  <2> QED
    BY <2>1
<1>3. <<p, BaseHand>> \in all
  BY HandNumbers, GameAssumption
<1>4. <<p, BaseHand>> \notin Deals(o)
  <2>1. HandSize(o, p) \in Int /\ HandSize(o, p) <= BaseHand
    BY <1>2, HandSizes, HandNumbers
  <2> QED
    BY <2>1, HandNumbers DEF Deals
<1>5. Deals(o) \in SUBSET all
  BY DEF Deals
<1> HIDE DEF all
<1>6. IsFiniteSet(Deals(o)) /\ Cardinality(Deals(o)) <= Cardinality(all)
  BY <1>1, <1>5, FS_Subset
<1>7. Cardinality(Deals(o)) # Cardinality(all)
  BY <1>1, <1>3, <1>4, <1>5, FS_Subset
<1>8. Cardinality(Deals(o)) \in Nat /\ Cardinality(all) \in Nat
  BY <1>1, <1>6, FS_CardinalityType
<1> QED
  BY <1>1, <1>6, <1>7, <1>8

\* The deck of an opening has a card for every deal, and more.
LEMMA DeckLength ==
  ASSUME NEW o, IsOpening(o)
  PROVE  Len(o.deck) = Cardinality(Card) - NumPlayers
<1> DEFINE kept == {o.starting[p] : p \in Player}
<1>1. o.starting \in Surjection(Player, kept)
  BY DEF IsOpening, Surjection
<1>2. o.starting \in Injection(Player, kept)
  BY DEF IsOpening, Injection
<1>3. IsFiniteSet(kept) /\ Cardinality(kept) = NumPlayers
  BY <1>1, <1>2, HandNumbers, FS_Surjection
<1>4. kept \subseteq Card
  BY DEF IsOpening
<1>5. o.deck \in Seq(Card) /\ IsInjective(o.deck) /\ ToSet(o.deck) = Card \ kept
  BY DEF IsOpening
<1> HIDE DEF kept
<1> DEFINE n == Len(o.deck)
<1>6. n \in Nat /\ o.deck \in [1..n -> Card] /\ DOMAIN o.deck = 1..n
  BY <1>5, LenProperties
<1>7. o.deck \in [1..n -> Card \ kept]
  BY <1>5, <1>6 DEF ToSet
<1>8. o.deck \in Bijection(1..n, Card \ kept)
  BY <1>5, <1>6, <1>7 DEF Bijection, Injection, Surjection, ToSet
<1>9. Cardinality(Card \ kept) = n
  <2> HIDE DEF n
  <2> QED
    BY <1>6, <1>8, FS_CountingElements DEF ExistsBijection
<1>10. Cardinality(Card \ kept) = Cardinality(Card) - Cardinality(Card \cap kept)
  BY <1>3, CardsAssumption, FS_Difference
<1>11. Card \cap kept = kept
  BY <1>4
<1> QED
  BY <1>3, <1>9, <1>10, <1>11, HandNumbers

\* A deal is a seat and a round within that seat's hand.
LEMMA DealParts ==
  ASSUME NEW o, IsOpening(o), NEW d \in Deals(o)
  PROVE  /\ d = <<d[1], d[2]>>
         /\ d[1] \in Player
         /\ d[2] \in 1..BaseHand
         /\ d[2] \in 1..(HandSize(o, d[1]) - 1)
<1>1. d \in Player \X (1..BaseHand) /\ d[2] < HandSize(o, d[1])
  BY DEF Deals
<1>2. d = <<d[1], d[2]>> /\ d[1] \in Player /\ d[2] \in 1..BaseHand
  BY <1>1
<1>3. HandSize(o, d[1]) \in Int
  BY <1>2, HandSizes, HandNumbers
<1>4. d[2] \in 1..(HandSize(o, d[1]) - 1)
  BY <1>1, <1>2, <1>3, HandNumbers
<1> QED
  BY <1>2, <1>4

\* The loop numbers its deals from one, each once.
LEMMA DealNumbers ==
  ASSUME NEW o, IsOpening(o)
  PROVE  Numbers(DealOrder(o), Deals(o))
<1> DEFINE S == Deals(o)
           below == DealOrder(o)
<1>1. \A d \in S : d[1] \in Nat /\ d[2] \in Nat /\ d = <<d[1], d[2]>>
  BY DealParts, HandNumbers
<1>2. \A d, e \in S : e \in below[d] <=> e[2] < d[2] \/ (e[2] = d[2] /\ e[1] <= d[1])
  BY DEF Deals, DealOrder, DealtUpTo
<1>3. below \in [S -> SUBSET S]
  BY DEF Deals, DealOrder, DealtUpTo
<1> HIDE DEF S, below
<1>4. \A d \in S : d \in below[d]
  BY <1>1, <1>2
<1>5. \A d, e \in S : d \in below[e] => \A f \in below[d] : f \in below[e]
  <2> SUFFICES ASSUME NEW d \in S, NEW e \in S, d \in below[e], NEW f \in below[d]
               PROVE  f \in below[e]
    OBVIOUS
  <2>1. f \in S
    BY <1>3
  <2>2. d[2] < e[2] \/ (d[2] = e[2] /\ d[1] <= e[1])
    BY <1>2
  <2>3. f[2] < d[2] \/ (f[2] = d[2] /\ f[1] <= d[1])
    BY <1>2, <2>1
  <2>4. f[2] < e[2] \/ (f[2] = e[2] /\ f[1] <= e[1])
    BY <1>1, <2>1, <2>2, <2>3
  <2> QED
    BY <1>2, <2>1, <2>4
<1>6. \A d, e \in S : d \in below[e] /\ e \in below[d] => d = e
  <2> SUFFICES ASSUME NEW d \in S, NEW e \in S, d \in below[e], e \in below[d]
               PROVE  d = e
    OBVIOUS
  <2>1. d[1] = e[1] /\ d[2] = e[2]
    BY <1>1, <1>2
  <2> QED
    BY <1>1, <2>1
<1>7. \A d, e \in S : d \in below[e] \/ e \in below[d]
  BY <1>1, <1>2
<1>8. Orders(below, S)
  BY <1>3, <1>4, <1>5, <1>6, <1>7 DEF Orders
<1>9. IsFiniteSet(S)
  BY DealsFit DEF S
<1> QED
  BY <1>8, <1>9, Rank DEF S, below

\* The cards dealt are the first NumDealt of the deck, fewer than it has.
LEMMA DealRange ==
  ASSUME NEW o, IsOpening(o)
  PROVE  /\ NumDealt(o) \in Nat
         /\ Len(o.deck) \in Nat
         /\ NumDealt(o) < Len(o.deck)
         /\ \A p \in Player : \A r \in 1..(HandSize(o, p) - 1) :
              /\ <<p, r>> \in Deals(o)
              /\ DealNumber(o, p, r) \in 1..NumDealt(o)
         /\ \A k \in 1..NumDealt(o) :
              \E p \in Player : \E r \in 1..(HandSize(o, p) - 1) : DealNumber(o, p, r) = k
         /\ \A p, q \in Player :
              \A r \in 1..(HandSize(o, p) - 1), t \in 1..(HandSize(o, q) - 1) :
                 DealNumber(o, p, r) = DealNumber(o, q, t) => p = q /\ r = t
<1>1. DealtUpTo(o, NumPlayers - 1, BaseHand) = Deals(o)
  <2>1. \A d \in Deals(o) : d[2] < BaseHand \/ (d[2] = BaseHand /\ d[1] <= NumPlayers - 1)
    BY HandNumbers DEF Deals, Player
  <2> QED
    BY <2>1 DEF Deals, DealtUpTo
<1>2. NumDealt(o) = Cardinality(Deals(o))
  BY <1>1 DEF NumDealt
<1>3. NumDealt(o) \in Nat /\ Len(o.deck) \in Nat /\ NumDealt(o) < Len(o.deck)
  <2>1. Len(o.deck) \in Nat
    BY LenProperties DEF IsOpening
  <2>2. NumPlayers * BaseHand \in Nat
    BY HandNumbers
  <2> QED
    BY <1>2, <2>1, <2>2, DealsFit, DeckLength, HandNumbers
<1>4. \A p \in Player : HandSize(o, p) \in Int /\ HandSize(o, p) - 1 <= BaseHand
  BY HandSizes, HandNumbers
<1>5. \A p \in Player : \A r \in 1..(HandSize(o, p) - 1) : <<p, r>> \in Deals(o)
  <2> SUFFICES ASSUME NEW p \in Player, NEW r \in 1..(HandSize(o, p) - 1)
               PROVE  <<p, r>> \in Deals(o)
    OBVIOUS
  <2>1. r \in 1..BaseHand /\ r < HandSize(o, p)
    BY <1>4, HandNumbers
  <2> QED
    BY <2>1 DEF Deals
<1>6. \A d \in Deals(o) : /\ d[1] \in Player
                          /\ d[2] \in 1..(HandSize(o, d[1]) - 1)
                          /\ d = <<d[1], d[2]>>
  BY DealParts
<1>7. \A d \in Deals(o) : Cardinality(DealOrder(o)[d]) = DealNumber(o, d[1], d[2])
  BY DEF DealOrder, DealNumber
<1>8. /\ \A d \in Deals(o) : DealNumber(o, d[1], d[2]) \in 1..NumDealt(o)
      /\ \A k \in 1..NumDealt(o) : \E d \in Deals(o) : DealNumber(o, d[1], d[2]) = k
      /\ \A d, e \in Deals(o) :
           DealNumber(o, d[1], d[2]) = DealNumber(o, e[1], e[2]) => d = e
  BY <1>2, <1>7, DealNumbers DEF Numbers
<1>9. \A p \in Player : \A r \in 1..(HandSize(o, p) - 1) : DealNumber(o, p, r) \in 1..NumDealt(o)
  <2> SUFFICES ASSUME NEW p \in Player, NEW r \in 1..(HandSize(o, p) - 1)
               PROVE  DealNumber(o, p, r) \in 1..NumDealt(o)
    OBVIOUS
  <2>1. <<p, r>> \in Deals(o) /\ <<p, r>>[1] = p /\ <<p, r>>[2] = r
    BY <1>5
  <2>2. DealNumber(o, <<p, r>>[1], <<p, r>>[2]) \in 1..NumDealt(o)
    BY <1>8, <2>1
  <2> QED
    BY <2>1, <2>2
<1>10. \A k \in 1..NumDealt(o) :
         \E p \in Player : \E r \in 1..(HandSize(o, p) - 1) : DealNumber(o, p, r) = k
  BY <1>6, <1>8
<1>11. ASSUME NEW p \in Player, NEW q \in Player,
              NEW r \in 1..(HandSize(o, p) - 1), NEW t \in 1..(HandSize(o, q) - 1),
              DealNumber(o, p, r) = DealNumber(o, q, t)
       PROVE  p = q /\ r = t
  <2>1. <<p, r>> \in Deals(o) /\ <<q, t>> \in Deals(o)
    BY <1>5
  <2>2. <<p, r>> = <<q, t>>
    BY <1>8, <1>11, <2>1
  <2> QED
    BY <2>2
<1> QED
  BY <1>3, <1>5, <1>9, <1>10, <1>11

\* A player's dealt cards are the deck's cards at the numbers of their deals.
LEMMA DealtRackFacts ==
  ASSUME NEW o, IsOpening(o), NEW p \in Player
  PROVE  /\ DealtRack(o, p) \in Seq(Card)
         /\ IsInjective(DealtRack(o, p))
         /\ ToSet(DealtRack(o, p)) =
              {o.deck[DealNumber(o, p, r)] : r \in 1..(HandSize(o, p) - 1)}
         /\ HandSize(o, p) >= 2 => DealtRack(o, p) # <<>>
<1> DEFINE n == HandSize(o, p) - 1
           f == [r \in 1..n |-> o.deck[DealNumber(o, p, r)]]
<1>1. n \in Nat
  BY HandSizes, HandNumbers, GameAssumption
<1>2. DealtRack(o, p) = f
  BY DEF DealtRack, DealNumber
<1>3. \A r \in 1..n : DealNumber(o, p, r) \in 1..Len(o.deck)
  <2>1. \A r \in 1..n : DealNumber(o, p, r) \in 1..NumDealt(o)
    BY DealRange
  <2>2. NumDealt(o) \in Nat /\ Len(o.deck) \in Nat /\ NumDealt(o) < Len(o.deck)
    BY DealRange
  <2> HIDE DEF n
  <2> QED
    BY <2>1, <2>2
<1>4. o.deck \in [1..Len(o.deck) -> Card] /\ DOMAIN o.deck = 1..Len(o.deck)
  BY LenProperties DEF IsOpening
<1>5. \A r, t \in 1..n : DealNumber(o, p, r) = DealNumber(o, p, t) => r = t
  BY DealRange
<1> HIDE DEF n
<1>6. f \in [1..n -> Card]
  BY <1>3, <1>4
<1>7. f \in Seq(Card) /\ DOMAIN f = 1..n /\ Len(f) = n
  BY <1>1, <1>6, FunctionIsSeq
<1>8. IsInjective(f)
  BY <1>3, <1>4, <1>5 DEF IsInjective, IsOpening
<1>9. ToSet(f) = {o.deck[DealNumber(o, p, r)] : r \in 1..n}
  BY DEF ToSet
<1>10. HandSize(o, p) >= 2 => f # <<>>
  <2>1. HandSize(o, p) >= 2 => n # 0
    BY <1>1 DEF n
  <2> QED
    BY <1>7, <2>1, EmptySeq
<1> QED
  BY <1>2, <1>7, <1>8, <1>9, <1>10 DEF n

\* Two players at least hold a card besides their starting card, one of them
\* the starter.
LEMMA TwoLargeHands ==
  ASSUME NEW o, IsOpening(o)
  PROVE  /\ HandSize(o, o.starter) >= 2
         /\ \E q \in Player : q # o.starter /\ HandSize(o, q) >= 2
<1>0. NumPlayers \in 3..6 /\ o.starter \in 0..(NumPlayers - 1) /\ BaseHand \in Nat /\ BaseHand >= 2
  BY GameAssumption, HandNumbers DEF Player, IsOpening
<1> SUFFICES ASSUME NEW s \in 0..(NumPlayers - 1)
             PROVE  /\ (s - s + NumPlayers) % NumPlayers = 0
                    /\ \E q \in 0..(NumPlayers - 1) :
                         q # s /\ (q - s + NumPlayers) % NumPlayers = 1
  <2>1. HandSize(o, o.starter) = BaseHand + 1
    BY <1>0 DEF HandSize
  <2>2. PICK q \in Player : q # o.starter /\ (q - o.starter + NumPlayers) % NumPlayers = 1
    BY <1>0 DEF Player
  <2>3. HandSize(o, q) = BaseHand
    BY <1>0, <2>2 DEF HandSize
  <2> QED
    BY <1>0, <2>1, <2>2, <2>3
<1>1. (s - s + NumPlayers) % NumPlayers = 0
  <2>1. CASE NumPlayers = 3 BY <2>1
  <2>2. CASE NumPlayers = 4 BY <2>2
  <2>3. CASE NumPlayers = 5 BY <2>3
  <2>4. CASE NumPlayers = 6 BY <2>4
  <2> QED
    BY <1>0, <2>1, <2>2, <2>3, <2>4
<1>2. \E q \in 0..(NumPlayers - 1) : q # s /\ (q - s + NumPlayers) % NumPlayers = 1
  <2> DEFINE q == IF s = NumPlayers - 1 THEN 0 ELSE s + 1
  <2>1. q \in 0..(NumPlayers - 1) /\ q # s
    BY <1>0
  <2>2. q - s + NumPlayers = 1 \/ q - s + NumPlayers = NumPlayers + 1
    BY <1>0
  <2>3. 1 % NumPlayers = 1 /\ (NumPlayers + 1) % NumPlayers = 1
    <3>1. CASE NumPlayers = 3 BY <3>1
    <3>2. CASE NumPlayers = 4 BY <3>2
    <3>3. CASE NumPlayers = 5 BY <3>3
    <3>4. CASE NumPlayers = 6 BY <3>4
    <3> QED
      BY <1>0, <3>1, <3>2, <3>3, <3>4
  <2> HIDE DEF q
  <2>4. (q - s + NumPlayers) % NumPlayers = 1
    BY <2>2, <2>3
  <2> QED
    BY <2>1, <2>4
<1> QED
  BY <1>1, <1>2

\* A player's first rack holds the cards dealt and the starting card, in order.
LEMMA OpeningRackFacts ==
  ASSUME NEW o, IsOpening(o), NEW p \in Player
  PROVE  /\ OpeningRack(o, p) \in Seq(Card)
         /\ ToSet(OpeningRack(o, p)) = ToSet(DealtRack(o, p)) \cup {o.starting[p]}
         /\ IsInjective(OpeningRack(o, p))
         /\ IsValidRackOrder(OpeningRack(o, p))
<1> DEFINE dealt == DealtRack(o, p)
           rack == SortRackKeepingJokers(dealt)
           card == o.starting[p]
           valid == ValidInsertionIndexes(rack, card)
           least == CHOOSE i \in valid : \A j \in valid : i <= j
           slot == IF card \in Joker THEN Len(rack) ELSE least
<1>1. dealt \in Seq(Card) /\ IsInjective(dealt)
  BY DealtRackFacts
<1>2. /\ rack \in Seq(Card) /\ ToSet(rack) = ToSet(dealt)
      /\ IsInjective(rack) /\ IsValidRackOrder(rack)
  BY <1>1, SortFacts
<1>3. card \in Card /\ card \notin ToSet(dealt)
  <2>1. card \in Card /\ card \notin ToSet(o.deck)
    BY DEF IsOpening
  <2>2. \A r \in 1..(HandSize(o, p) - 1) : o.deck[DealNumber(o, p, r)] \in ToSet(o.deck)
    <3>1. DOMAIN o.deck = 1..Len(o.deck)
      BY LenProperties DEF IsOpening
    <3>2. \A r \in 1..(HandSize(o, p) - 1) : DealNumber(o, p, r) \in 1..Len(o.deck)
      <4> DEFINE n == HandSize(o, p) - 1
      <4>1. \A r \in 1..n : DealNumber(o, p, r) \in 1..NumDealt(o)
        BY DealRange
      <4>2. NumDealt(o) \in Nat /\ Len(o.deck) \in Nat /\ NumDealt(o) < Len(o.deck)
        BY DealRange
      <4> HIDE DEF n
      <4>3. \A r \in 1..n : DealNumber(o, p, r) \in 1..Len(o.deck)
        BY <4>1, <4>2
      <4> QED
        BY <4>3 DEF n
    <3> QED
      BY <3>1, <3>2 DEF ToSet
  <2> QED
    BY <2>1, <2>2, DealtRackFacts
<1>4. OpeningRack(o, p) = InsertCard(rack, card, slot)
  BY DEF OpeningRack
<1> HIDE DEF dealt, rack, card
<1>5. Len(rack) \in Nat /\ valid \in SUBSET Nat
  BY <1>2, LenProperties DEF ValidInsertionIndexes
<1>6. slot \in 0..Len(rack) /\ IsValidRackOrder(InsertCard(rack, card, slot))
  <2>1. CASE card \in Joker
    <3>1. Len(rack) \in 0..Len(rack) /\ card \notin Standard
      BY <1>5, <2>1 DEF Standard
    <3> QED
      BY <1>2, <1>3, <2>1, <3>1, InsertKeepsOrder
  <2>2. CASE card \notin Joker
    <3>1. valid # {}
      BY <1>2, <1>3, LegalSlot
    <3>2. least \in valid
      <4> HIDE DEF valid
      <4>1. \E n \in valid : \A m \in valid : n <= m
        BY <1>5, <3>1, LeastElement
      <4> QED
        BY <4>1
    <3> QED
      BY <2>2, <3>2 DEF ValidInsertionIndexes
  <2> QED
    BY <2>1, <2>2
<1> HIDE DEF slot
<1>7. LET new == InsertCard(rack, card, slot)
      IN  /\ new \in Seq(Card)
          /\ ToSet(new) = ToSet(rack) \cup {card}
          /\ IsInjective(rack) /\ card \notin ToSet(rack) => IsInjective(new)
  BY <1>2, <1>3, <1>6, InsertFacts
<1> QED
  BY <1>2, <1>3, <1>4, <1>6, <1>7 DEF card, dealt

-----------------------------------------------------------------------------
(***************************************************************************)
(* Turning to the next player, and counting who is left.                   *)
(***************************************************************************)
\* Some offset from 1 to NumPlayers reaches every seat.
LEMMA SeatReaches ==
  ASSUME NEW p \in Player, NEW q \in Player
  PROVE  \E k \in 1..NumPlayers : Seat(p, k) = q
<1>0. NumPlayers \in 3..6 /\ p \in 0..(NumPlayers - 1) /\ q \in 0..(NumPlayers - 1)
  BY GameAssumption DEF Player
<1> DEFINE k == IF q > p THEN q - p ELSE q - p + NumPlayers
<1>1. k \in 1..NumPlayers
  BY <1>0
<1>2. (p + k) % NumPlayers = q
  <2>1. p + k = q \/ p + k = q + NumPlayers
    BY <1>0
  <2>2. q % NumPlayers = q /\ (q + NumPlayers) % NumPlayers = q
    <3>1. CASE NumPlayers = 3
      BY <1>0, <3>1
    <3>2. CASE NumPlayers = 4
      BY <1>0, <3>2
    <3>3. CASE NumPlayers = 5
      BY <1>0, <3>3
    <3>4. CASE NumPlayers = 6
      BY <1>0, <3>4
    <3> QED
      BY <1>0, <3>1, <3>2, <3>3, <3>4
  <2> HIDE DEF k
  <2> QED
    BY <2>1, <2>2
<1> QED
  BY <1>1, <1>2 DEF Seat

\* The turn passes to the next player who is still in.
LEMMA NextActiveIs ==
  ASSUME NEW g, NEW p \in Player, NEW q \in Player, q \notin g.eliminated
  PROVE  \E k \in 1..NumPlayers :
           /\ NextActive(g, p) = Seat(p, k) /\ Seat(p, k) \in Player
           /\ Seat(p, k) \notin g.eliminated
           /\ \A j \in 1..(k - 1) : Seat(p, j) \in g.eliminated
<1> DEFINE T == {k \in 1..NumPlayers : Seat(p, k) \notin g.eliminated}
           P(k) == /\ Seat(p, k) \notin g.eliminated
                   /\ \A j \in 1..(k - 1) : Seat(p, j) \in g.eliminated
<1>0. NumPlayers \in Nat /\ NumPlayers > 0
  BY GameAssumption
<1>1. T \in SUBSET Nat /\ T # {}
  BY <1>0, SeatReaches
<1>2. PICK n \in T : \A m \in T : n <= m
  <2> HIDE DEF T
  <2> QED
    BY <1>1, LeastElement
<1>3. n \in 1..NumPlayers /\ P(n)
  <2> SUFFICES ASSUME NEW j \in 1..(n - 1)
               PROVE  Seat(p, j) \in g.eliminated
    OBVIOUS
  <2>1. j \in 1..NumPlayers /\ j < n
    BY <1>0
  <2>2. j \in T => n <= j
    BY <1>2
  <2>3. j \notin T
    BY <1>0, <2>1, <2>2
  <2> QED
    BY <2>1, <2>3
<1> DEFINE next == CHOOSE k \in 1..NumPlayers : P(k)
<1>4. next \in 1..NumPlayers /\ P(next)
  <2> HIDE DEF P
  <2> QED
    BY <1>3
<1>5. NextActive(g, p) = Seat(p, next)
  BY DEF NextActive
<1> HIDE DEF next
<1>6. Seat(p, next) \in Player
  <2>1. p + next \in Nat
    BY <1>0, <1>4, HandNumbers
  <2>2. (p + next) % NumPlayers \in 0..(NumPlayers - 1)
    BY <1>0, <2>1
  <2> QED
    BY <2>2 DEF Seat, Player
<1> QED
  BY <1>4, <1>5, <1>6

LEMMA NextActiveIsIn ==
  ASSUME NEW g, NEW p \in Player, NEW q \in Player, q \notin g.eliminated
  PROVE  NextActive(g, p) \in Player /\ NextActive(g, p) \notin g.eliminated
BY NextActiveIs

\* At most one member, or two different ones.
LEMMA OneOrTwo ==
  ASSUME NEW S \in SUBSET Player
  PROVE  /\ Cardinality(S) <= 1 <=> \A p, q \in S : p = q
         /\ Cardinality(S) \in Nat
<1>1. IsFiniteSet(S) /\ Cardinality(S) \in Nat
  BY HandNumbers, FS_Subset, FS_CardinalityType
<1>2. ASSUME NEW p \in S, NEW q \in S, p # q
      PROVE  Cardinality(S) >= 2
  <2>1. IsFiniteSet({p}) /\ Cardinality({p}) = 1
    BY FS_Singleton
  <2>2. Cardinality({p} \cup {q}) = 2
    BY <1>2, <2>1, FS_AddElement
  <2>3. {p} \cup {q} \in SUBSET S
    OBVIOUS
  <2> QED
    BY <1>1, <2>2, <2>3, FS_Subset
<1>3. ASSUME \A p, q \in S : p = q
      PROVE  Cardinality(S) <= 1
  <2>1. CASE S = {}
    BY <2>1, FS_EmptySet
  <2>2. CASE S # {}
    <3>1. PICK p \in S : TRUE
      BY <2>2
    <3>2. S = {p}
      BY <1>3
    <3> QED
      BY <3>2, FS_Singleton
  <2> QED
    BY <2>1, <2>2
<1> QED
  BY <1>1, <1>2, <1>3

-----------------------------------------------------------------------------
(***************************************************************************)
(* Ending a turn.  SameCards(g, h): only the players' state differs.       *)
(***************************************************************************)
SameCards(g, h) ==
  /\ h.rack = g.rack
  /\ h.revealed = g.revealed
  /\ h.drawPile = g.drawPile
  /\ h.pendingDraw = g.pendingDraw
  /\ h.pendingJokers = g.pendingJokers

Table(g) == {g.pendingDraw} \ {NoCard}

\* What conservation says, part by part.
LEMMA ConservedParts ==
  ASSUME NEW g
  PROVE  Conserved(g) <=>
           /\ \A c : c \in Card <=>
                \/ \E p \in Player : c \in ToSet(g.rack[p])
                \/ c \in ToSet(g.drawPile)
                \/ c \in Table(g)
           /\ IsInjective(g.drawPile)
           /\ ToSet(g.drawPile) \cap Table(g) = {}
           /\ \A p \in Player :
                /\ ToSet(g.rack[p]) \cap ToSet(g.drawPile) = {}
                /\ ToSet(g.rack[p]) \cap Table(g) = {}
                /\ IsInjective(g.rack[p])
           /\ \A p, q \in Player : p # q => ToSet(g.rack[p]) \cap ToSet(g.rack[q]) = {}
<1> DEFINE rack(p) == ToSet(g.rack[p])
           pile    == ToSet(g.drawPile)
<1> SUFFICES (/\ Card = (UNION {rack(p) : p \in Player}) \cup pile \cup Table(g)
              /\ pile \cap Table(g) = {}
              /\ IsInjective(g.drawPile)
              /\ \A p \in Player :
                   /\ rack(p) \cap (pile \cup Table(g)) = {}
                   /\ \A q \in Player \ {p} : rack(p) \cap rack(q) = {}
                   /\ IsInjective(g.rack[p]))
             <=>
             (/\ \A c : c \in Card <=>
                   (\E p \in Player : c \in rack(p)) \/ c \in pile \/ c \in Table(g)
              /\ IsInjective(g.drawPile)
              /\ pile \cap Table(g) = {}
              /\ \A p \in Player :
                   /\ rack(p) \cap pile = {}
                   /\ rack(p) \cap Table(g) = {}
                   /\ IsInjective(g.rack[p])
              /\ \A p, q \in Player : p # q => rack(p) \cap rack(q) = {})
  BY Zenon DEF Conserved, Table
<1> HIDE DEF rack, pile
<1>1. Card = (UNION {rack(p) : p \in Player}) \cup pile \cup Table(g) <=>
        \A c : c \in Card <=>
           (\E p \in Player : c \in rack(p)) \/ c \in pile \/ c \in Table(g)
  OBVIOUS
<1> QED
  BY <1>1

\* What is said of the cards stays true while the cards stay where they are.
LEMMA SameCardsFit ==
  ASSUME NEW g, NEW h, SameCards(g, h)
  PROVE  /\ CardsFit(g) => CardsFit(h)
         /\ \A p \in Player : AllRevealed(h, p) <=> AllRevealed(g, p)
         /\ HasPendingStartingJokerPlacements(h) <=> HasPendingStartingJokerPlacements(g)
<1>1. CardsFit(g) => CardsFit(h)
  <2>1. Conserved(g) => Conserved(h)
    <3>1. Table(h) = Table(g)
      BY DEF SameCards, Table
    <3> QED
      BY <3>1, ConservedParts DEF SameCards
  <2>2. Ordered(g) => Ordered(h)
    BY DEF SameCards, Ordered
  <2> QED
    BY <2>1, <2>2 DEF SameCards, CardsFit
<1>2. \A p \in Player : AllRevealed(h, p) <=> AllRevealed(g, p)
  BY DEF SameCards, AllRevealed
<1>3. HasPendingStartingJokerPlacements(h) <=> HasPendingStartingJokerPlacements(g)
  BY DEF SameCards, HasPendingStartingJokerPlacements
<1> QED
  BY <1>1, <1>2, <1>3

\* updateEndGame declares the one player left the winner, or changes nothing
\* but the eliminations.
LEMMA UpdateEndGameFacts ==
  ASSUME NEW g \in GameState, g.phase # "game-over", g.winner = NoPlayer,
         \E p \in Player : Hidden(g, p)
  PROVE  LET u == UpdateEndGame(g)
         IN  /\ u \in GameState
             /\ SameCards(g, u)
             /\ u.current = g.current
             /\ u.eliminated = {p \in Player : AllRevealed(g, p)}
             /\ \/ u.phase = "game-over" /\ PlayersFit(u)
                \/ u.phase = g.phase /\ u.winner = NoPlayer /\ TwoHidden(u)
<1> DEFINE u == UpdateEndGame(g)
           out == {p \in Player : AllRevealed(g, p)}
           active == Player \ out
           last == CHOOSE p \in active : TRUE
<1>0. active \in SUBSET Player /\ out \in SUBSET Player /\ active # {}
  BY DEF Hidden
<1>1. \A p \in Player : p \in active <=> Hidden(g, p)
  BY DEF Hidden
<1>2. CASE Cardinality(active) <= 1
  <2>1. last \in active /\ active = {last}
    <3> HIDE DEF active
    <3>1. last \in active
      BY <1>0
    <3> QED
      BY <1>0, <1>2, <3>1, OneOrTwo
  <2>2. out = Player \ {last} /\ last \in Player
    BY <2>1
  <2>3. u = [g EXCEPT !.eliminated = out, !.phase = "game-over", !.winner = last]
    BY <1>0, <1>2 DEF UpdateEndGame
  <2> HIDE DEF out, last, active
  <2>4. u \in GameState /\ SameCards(g, u) /\ u.current = g.current
        /\ u.eliminated = out /\ u.phase = "game-over" /\ u.winner = last
    BY <1>0, <2>2, <2>3 DEF GameState, SameCards, TurnPhase
  <2> HIDE DEF u
  <2>5. \A p \in out : AllRevealed(u, p)
    BY <2>4, SameCardsFit DEF out
  <2>6. PlayersFit(u)
    BY <2>2, <2>4, <2>5 DEF PlayersFit
  <2> QED
    BY <2>4, <2>6 DEF u, out
<1>3. CASE ~ (Cardinality(active) <= 1)
  <2>1. u = [g EXCEPT !.eliminated = out]
    BY <1>3 DEF UpdateEndGame
  <2>2. \E p, q \in active : p # q
    <3> HIDE DEF active
    <3> QED
      BY <1>0, <1>3, OneOrTwo
  <2>3. TwoHidden(g)
    BY <1>1, <2>2 DEF TwoHidden
  <2> HIDE DEF out, active
  <2>4. u \in GameState /\ SameCards(g, u) /\ u.current = g.current
        /\ u.eliminated = out /\ u.phase = g.phase /\ u.winner = NoPlayer
    BY <1>0, <2>1 DEF GameState, SameCards
  <2> HIDE DEF u
  <2>5. TwoHidden(u)
    BY <2>3, <2>4, SameCardsFit DEF TwoHidden, Hidden
  <2> QED
    BY <2>4, <2>5 DEF u, out
<1> QED
  BY <1>2, <1>3

\* advanceTurn passes the turn to a player still in, with nothing drawn.
LEMMA AdvanceTurnFacts ==
  ASSUME NEW g \in GameState, NEW q \in Player, q \notin g.eliminated
  PROVE  LET a == AdvanceTurn(g)
         IN  /\ a \in GameState
             /\ a.rack = g.rack /\ a.revealed = g.revealed
             /\ a.drawPile = g.drawPile /\ a.pendingJokers = g.pendingJokers
             /\ a.eliminated = g.eliminated /\ a.winner = g.winner
             /\ a.current \in Player \ g.eliminated
             /\ a.pendingDraw = NoCard
             /\ a.phase = IF g.drawPile # <<>> THEN "draw" ELSE "guess"
<1> DEFINE a == AdvanceTurn(g)
           next == NextActive(g, g.current)
<1>1. g.current \in Player
  BY DEF GameState
<1>2. next \in Player /\ next \notin g.eliminated
  BY <1>1, NextActiveIsIn
<1> HIDE DEF next
<1>3. a = [g EXCEPT !.current = next,
                    !.phase = IF g.drawPile # <<>> THEN "draw" ELSE "guess",
                    !.drawnCard = NoCard, !.pendingDraw = NoCard,
                    !.correctGuesses = 0]
  BY DEF AdvanceTurn, next
<1> HIDE DEF a
<1>4. a \in GameState
  BY <1>2, <1>3 DEF GameState, TurnPhase
<1>5. /\ a.rack = g.rack /\ a.revealed = g.revealed
      /\ a.drawPile = g.drawPile /\ a.pendingJokers = g.pendingJokers
      /\ a.eliminated = g.eliminated /\ a.winner = g.winner
      /\ a.current = next /\ a.pendingDraw = NoCard
      /\ a.phase = IF g.drawPile # <<>> THEN "draw" ELSE "guess"
  BY <1>3 DEF GameState
<1> QED
  BY <1>2, <1>4, <1>5 DEF a

\* A match that is over keeps its promises.
LEMMA OverIsSafe ==
  ASSUME NEW g \in GameState, CardsFit(g), PlayersFit(g), g.phase = "game-over"
  PROVE  Safe(g)
BY DEF Safe, PhaseFits, DrawFits

\* Ending a turn is safe once nothing is drawn and some player is still in.
LEMMA EndTurnSafe ==
  ASSUME NEW g \in GameState, CardsFit(g), g.phase # "game-over",
         g.winner = NoPlayer, g.pendingDraw = NoCard,
         \A p \in Player : g.pendingJokers[p] = <<>>,
         \E p \in Player : Hidden(g, p)
  PROVE  Safe(EndTurn(g))
<1> DEFINE u == UpdateEndGame(g)
           a == AdvanceTurn(u)
<1>1. /\ u \in GameState
      /\ SameCards(g, u)
      /\ u.eliminated = {p \in Player : AllRevealed(g, p)}
      /\ \/ u.phase = "game-over" /\ PlayersFit(u)
         \/ u.phase = g.phase /\ u.winner = NoPlayer /\ TwoHidden(u)
  BY UpdateEndGameFacts
<1>2. EndTurn(g) = IF u.phase = "game-over" THEN u ELSE a
  BY DEF EndTurn
<1> HIDE DEF u
<1>3. CardsFit(u) /\ \A p \in Player : AllRevealed(u, p) <=> AllRevealed(g, p)
  BY <1>1, SameCardsFit
<1>4. CASE u.phase = "game-over"
  BY <1>1, <1>2, <1>3, <1>4, OverIsSafe
<1>5. CASE u.phase # "game-over"
  <2>1. u.winner = NoPlayer /\ TwoHidden(u)
    BY <1>1, <1>5
  <2>2. PICK q \in Player : q \notin u.eliminated
    BY <1>1, <1>3, <2>1 DEF TwoHidden, Hidden
  <2>3. /\ a \in GameState
        /\ a.rack = u.rack /\ a.revealed = u.revealed
        /\ a.drawPile = u.drawPile /\ a.pendingJokers = u.pendingJokers
        /\ a.eliminated = u.eliminated /\ a.winner = u.winner
        /\ a.current \in Player \ u.eliminated
        /\ a.pendingDraw = NoCard
        /\ a.phase = IF u.drawPile # <<>> THEN "draw" ELSE "guess"
    BY <1>1, <2>2, AdvanceTurnFacts
  <2> HIDE DEF a
  <2>4. SameCards(u, a)
    BY <1>1, <2>3 DEF SameCards
  <2>5. CardsFit(a) /\ \A p \in Player : AllRevealed(a, p) <=> AllRevealed(u, p)
    BY <1>3, <2>4, SameCardsFit
  <2>6. PlayersFit(a)
    <3>1. TwoHidden(a)
      BY <2>1, <2>5 DEF TwoHidden, Hidden
    <3>2. Hidden(a, a.current)
      BY <1>1, <1>3, <2>3, <2>5 DEF Hidden
    <3> QED
      BY <1>1, <1>3, <2>1, <2>3, <2>5, <3>1, <3>2 DEF PlayersFit
  <2>7. PhaseFits(a)
    <3>1. NoCard \notin a.revealed
      BY <2>3, GameAssumption DEF GameState
    <3>2. DrawFits(a)
      BY <2>3, <3>1 DEF DrawFits
    <3>3. \A p \in Player : a.pendingJokers[p] = <<>>
      BY <1>1, <2>3 DEF SameCards
    <3> QED
      BY <2>3, <3>2, <3>3 DEF PhaseFits
  <2> QED
    BY <1>2, <1>5, <2>3, <2>5, <2>6, <2>7 DEF Safe
<1> QED
  BY <1>4, <1>5

-----------------------------------------------------------------------------
(***************************************************************************)
(* Cards that move: one rack is replaced by another with the same cards,   *)
(* or with the drawn card as well.                                         *)
(***************************************************************************)
\* A rack may be put in another order, or take in the drawn card.
LEMMA RackReplaced ==
  ASSUME NEW g, CardsFit(g), NEW h, NEW p \in Player, NEW rack \in Seq(Card),
         g.rack \in [Player -> Seq(Card)],
         h.rack = [g.rack EXCEPT ![p] = rack],
         h.drawPile = g.drawPile,
         rack # <<>>, IsInjective(rack), IsValidRackOrder(rack),
         ToSet(g.rack[p]) \subseteq ToSet(rack),
         ToSet(rack) \cup Table(h) = ToSet(g.rack[p]) \cup Table(g),
         ToSet(rack) \cap Table(h) = {},
         \A q \in Player : /\ ToSet(h.pendingJokers[q]) \subseteq ToSet(g.pendingJokers[q])
                           /\ IsInjective(h.pendingJokers[q]),
         ToSet(h.drawPile) \cap h.revealed = {}
  PROVE  CardsFit(h)
<1>1. h.rack[p] = rack /\ \A q \in Player : q # p => h.rack[q] = g.rack[q]
  OBVIOUS
<1> DEFINE in(q) == ToSet(g.rack[q])
           to(q) == ToSet(h.rack[q])
           pile == ToSet(g.drawPile)
<1>2. /\ \A c : c \in Card <=>
            (\E q \in Player : c \in in(q)) \/ c \in pile \/ c \in Table(g)
      /\ IsInjective(g.drawPile)
      /\ pile \cap Table(g) = {}
      /\ \A q \in Player : /\ in(q) \cap pile = {}
                           /\ in(q) \cap Table(g) = {}
                           /\ IsInjective(g.rack[q])
      /\ \A q, r \in Player : q # r => in(q) \cap in(r) = {}
  BY ConservedParts DEF CardsFit
<1>3. /\ in(p) \subseteq to(p)
      /\ to(p) \cup Table(h) = in(p) \cup Table(g)
      /\ to(p) \cap Table(h) = {}
      /\ \A q \in Player : q # p => to(q) = in(q)
  BY <1>1
<1>4. \A q \in Player : IsInjective(h.rack[q])
  BY <1>1, <1>2
<1> HIDE DEF in, to, pile
<1>5. /\ \A c : c \in Card <=>
            (\E q \in Player : c \in to(q)) \/ c \in pile \/ c \in Table(h)
      /\ pile \cap Table(h) = {}
      /\ \A q \in Player : to(q) \cap pile = {} /\ to(q) \cap Table(h) = {}
      /\ \A q, r \in Player : q # r => to(q) \cap to(r) = {}
  <2>1. \A c : c \in Card <=>
            (\E q \in Player : c \in to(q)) \/ c \in pile \/ c \in Table(h)
    <3> SUFFICES ASSUME NEW c
                 PROVE  c \in Card <=> (\E q \in Player : c \in to(q)) \/ c \in pile
                                       \/ c \in Table(h)
      OBVIOUS
    <3>1. (\E q \in Player : c \in to(q)) <=>
             c \in to(p) \/ \E q \in Player : q # p /\ c \in in(q)
      BY <1>3
    <3>2. (\E q \in Player : c \in in(q)) <=>
             c \in in(p) \/ \E q \in Player : q # p /\ c \in in(q)
      OBVIOUS
    <3>3. c \in to(p) \/ c \in Table(h) <=> c \in in(p) \/ c \in Table(g)
      BY <1>3
    <3>4. c \in Card <=> (\E q \in Player : c \in in(q)) \/ c \in pile
                          \/ c \in Table(g)
      BY <1>2
    <3> QED
      BY <3>1, <3>2, <3>3, <3>4
  <2>2. pile \cap Table(h) = {} /\ \A q \in Player : to(q) \cap pile = {}
    BY <1>2, <1>3
  <2>3. \A q \in Player : to(q) \cap Table(h) = {}
    BY <1>2, <1>3
  <2>4. \A q, r \in Player : q # r => to(q) \cap to(r) = {}
    <3>1. \A r \in Player : r # p => to(p) \cap to(r) = {}
      BY <1>2, <1>3
    <3>2. \A q, r \in Player : q # r /\ q # p /\ r # p => to(q) \cap to(r) = {}
      BY <1>2, <1>3
    <3> QED
      BY <3>1, <3>2
  <2> QED
    BY <2>1, <2>2, <2>3, <2>4
<1>6. Conserved(h)
  BY <1>2, <1>4, <1>5, ConservedParts DEF to, pile
<1>7. Ordered(h)
  BY <1>1 DEF CardsFit, Ordered
<1>8. \A q \in Player : h.rack[q] # <<>> /\ ToSet(h.pendingJokers[q]) \subseteq Joker \cap to(q)
  BY <1>1, <1>3 DEF CardsFit, in
<1> QED
  BY <1>6, <1>7, <1>8 DEF CardsFit, to

\* Revealing cards that are not in a player's rack leaves what they hide.
LEMMA HiddenStays ==
  ASSUME NEW g, NEW h, NEW q \in Player, Hidden(g, q),
         g.rack[q] # <<>>, h.rack[q] = g.rack[q],
         \A c \in ToSet(g.rack[q]) : c \in h.revealed => c \in g.revealed
  PROVE  Hidden(h, q)
BY DEF Hidden, AllRevealed

-----------------------------------------------------------------------------
(***************************************************************************)
(* The moves of the active player.                                         *)
(***************************************************************************)
\* The parts of a state in GameState.
LEMMA StateParts ==
  ASSUME NEW g \in GameState
  PROVE  /\ g.rack \in [Player -> Seq(Card)] /\ g.revealed \in SUBSET Card
         /\ g.drawPile \in Seq(Card) /\ g.current \in Player
         /\ g.pendingDraw \in Card \cup {NoCard} /\ g.correctGuesses \in Nat
         /\ g.pendingJokers \in [Player -> Seq(Card)]
         /\ NoCard \notin g.revealed
BY GameAssumption DEF GameState

\* Of two players with hidden cards one is not p.
LEMMA AnotherHidden ==
  ASSUME NEW g, TwoHidden(g), NEW p
  PROVE  \E q \in Player : q # p /\ Hidden(g, q)
BY DEF TwoHidden

\* Drawing moves the top card of the pile to the table, face down.
LEMMA DrawCardSafe ==
  ASSUME Safe(game), NEW p \in Player, DrawCard(p)
  PROVE  Safe(game')
<1> DEFINE pile == game.drawPile
           card == Head(pile)
<1>0. game \in GameState /\ CardsFit(game) /\ PlayersFit(game) /\ PhaseFits(game)
  BY DEF Safe
<1>1. game' = [game EXCEPT !.drawPile = Tail(pile), !.pendingDraw = card,
                           !.drawnCard = card, !.correctGuesses = 0,
                           !.phase = "guess"]
      /\ game.phase = "draw" /\ pile # <<>> /\ pile \in Seq(Card)
  BY <1>0, StateParts DEF DrawCard
<1>2. /\ card \in Card /\ Tail(pile) \in Seq(Card)
      /\ ToSet(pile) = {card} \cup ToSet(Tail(pile))
      /\ IsInjective(pile) => IsInjective(Tail(pile)) /\ card \notin ToSet(Tail(pile))
  BY <1>1, HeadTailSets
<1>3. /\ game'.rack = game.rack /\ game'.revealed = game.revealed
      /\ game'.eliminated = game.eliminated /\ game'.winner = game.winner
      /\ game'.current = game.current /\ game'.pendingJokers = game.pendingJokers
      /\ game'.drawPile = Tail(pile) /\ game'.pendingDraw = card
      /\ game'.phase = "guess"
  BY <1>0, <1>1 DEF GameState
<1>4. game' \in GameState
  BY <1>0, <1>1, <1>2 DEF GameState, TurnPhase
<1>5. card # NoCard /\ Table(game) = {} /\ Table(game') = {card}
  BY <1>0, <1>1, <1>2, <1>3, GameAssumption DEF PhaseFits, DrawFits, Table
<1> HIDE DEF card, pile
<1>6. CardsFit(game')
  <2>1. Conserved(game)
    BY <1>0 DEF CardsFit
  <2>2. Conserved(game')
    <3>0. \A q \in Player : ToSet(game'.rack[q]) = ToSet(game.rack[q])
      BY <1>3
    <3>1. ToSet(game.drawPile) = {card} \cup ToSet(game'.drawPile)
      BY <1>2, <1>3 DEF pile
    <3>2. \A c : c \in Card <=>
             \/ \E q \in Player : c \in ToSet(game'.rack[q])
             \/ c \in ToSet(game'.drawPile)
             \/ c \in Table(game')
      <4>1. \A c : c \in Card <=>
               \/ \E q \in Player : c \in ToSet(game.rack[q])
               \/ c \in ToSet(game.drawPile)
               \/ c \in Table(game)
        BY <2>1, ConservedParts
      <4> QED
        BY <1>5, <3>0, <3>1, <4>1
    <3>3. /\ IsInjective(game'.drawPile)
          /\ ToSet(game'.drawPile) \cap Table(game') = {}
      BY <1>2, <1>3, <1>5, <2>1, ConservedParts DEF pile
    <3>4. \A q \in Player :
             /\ ToSet(game'.rack[q]) \cap ToSet(game'.drawPile) = {}
             /\ ToSet(game'.rack[q]) \cap Table(game') = {}
      <4>1. \A q \in Player : ToSet(game.rack[q]) \cap ToSet(game.drawPile) = {}
        BY <2>1, ConservedParts
      <4> QED
        BY <1>5, <3>0, <3>1, <4>1
    <3>5. /\ \A q \in Player : IsInjective(game'.rack[q])
          /\ \A q, r \in Player : q # r =>
               ToSet(game'.rack[q]) \cap ToSet(game'.rack[r]) = {}
      BY <1>3, <2>1, ConservedParts
    <3> QED
      BY <3>2, <3>3, <3>4, <3>5, ConservedParts
  <2>3. Ordered(game') /\ ToSet(game'.drawPile) \cap game'.revealed = {}
    BY <1>0, <1>2, <1>3 DEF CardsFit, Ordered, pile
  <2> QED
    BY <1>0, <1>3, <2>2, <2>3 DEF CardsFit
<1>7. PlayersFit(game')
  BY <1>0, <1>1, <1>3 DEF PlayersFit, TwoHidden, Hidden, AllRevealed
<1>8. PhaseFits(game')
  <2>1. card \notin game.revealed
    BY <1>0, <1>2 DEF CardsFit, pile
  <2>2. \A q \in Player : game.pendingJokers[q] = <<>>
    BY <1>0, <1>1 DEF PhaseFits
  <2> QED
    BY <1>3, <1>5, <2>1, <2>2 DEF PhaseFits, DrawFits
<1> QED
  BY <1>4, <1>6, <1>7, <1>8 DEF Safe

\* Stopping after a correct guess changes the phase alone.
LEMMA StopGuessingSafe ==
  ASSUME Safe(game), NEW p \in Player, StopGuessingAndPlace(p)
  PROVE  Safe(game')
<1>0. game \in GameState /\ CardsFit(game) /\ PlayersFit(game) /\ PhaseFits(game)
  BY DEF Safe
<1>1. /\ game' = [game EXCEPT !.phase = "place"]
      /\ game.phase = "guess" /\ game.pendingDraw # NoCard
  BY DEF StopGuessingAndPlace
<1>2. /\ SameCards(game, game') /\ game'.phase = "place"
      /\ game'.eliminated = game.eliminated /\ game'.winner = game.winner
      /\ game'.current = game.current
  BY <1>0, <1>1 DEF GameState, SameCards
<1>3. game' \in GameState
  BY <1>0, <1>1 DEF GameState, TurnPhase
<1>4. CardsFit(game') /\ \A q \in Player : AllRevealed(game', q) <=> AllRevealed(game, q)
  BY <1>0, <1>2, SameCardsFit
<1>5. PlayersFit(game')
  BY <1>0, <1>1, <1>2, <1>4 DEF PlayersFit, TwoHidden, Hidden, GameState
<1>6. PhaseFits(game')
  BY <1>0, <1>1, <1>2 DEF PhaseFits, DrawFits, SameCards
<1> QED
  BY <1>3, <1>4, <1>5, <1>6 DEF Safe

\* The drawn card goes to a legal slot of the player's rack.
LEMMA InsertDrawnCardSafe ==
  ASSUME Safe(game), NEW p \in Player, NEW index, InsertDrawnCard(p, index)
  PROVE  Safe(game')
<1> DEFINE card == game.pendingDraw
           rack == InsertCard(game.rack[p], card, index)
           h == [game EXCEPT !.rack[p] = rack, !.pendingDraw = NoCard,
                             !.drawnCard = card]
<1>0. game \in GameState /\ CardsFit(game) /\ PlayersFit(game) /\ PhaseFits(game)
  BY DEF Safe
<1>1. /\ game.phase \in {"place", "penalty-place"} /\ card # NoCard
      /\ index \in 0..Len(game.rack[p]) /\ IsValidRackOrder(rack)
      /\ game' = EndTurn(h)
  BY <1>0 DEF InsertDrawnCard, ValidInsertionIndexes, GameState
<1>2. card \in Card /\ game.rack[p] \in Seq(Card)
  BY <1>0, <1>1, StateParts
<1>3. card \notin ToSet(game.rack[p]) /\ IsInjective(game.rack[p]) /\ Table(game) = {card}
  BY <1>0, <1>1, ConservedParts DEF CardsFit, Table
<1>4. rack \in Seq(Card) /\ ToSet(rack) = ToSet(game.rack[p]) \cup {card} /\ IsInjective(rack)
  BY <1>1, <1>2, <1>3, InsertFacts
<1>5. rack # <<>>
  BY <1>4 DEF ToSet
<1> HIDE DEF rack
<1>6. /\ h.rack = [game.rack EXCEPT ![p] = rack] /\ h.revealed = game.revealed
      /\ h.drawPile = game.drawPile /\ h.pendingDraw = NoCard
      /\ h.pendingJokers = game.pendingJokers /\ h.phase = game.phase
      /\ h.winner = game.winner
  BY <1>0 DEF GameState
<1>7. h \in GameState
  BY <1>0, <1>1, <1>2, <1>4 DEF GameState
<1> HIDE DEF h, card
<1>8. CardsFit(h)
  <2>1. Table(h) = {}
    BY <1>6 DEF Table
  <2>2. ToSet(h.drawPile) \cap h.revealed = {}
    BY <1>0, <1>6 DEF CardsFit
  <2>3. game.rack \in [Player -> Seq(Card)]
    BY <1>0, StateParts
  <2> QED
    <3>1. \A q \in Player : /\ ToSet(h.pendingJokers[q]) \subseteq ToSet(game.pendingJokers[q])
                            /\ IsInjective(h.pendingJokers[q])
      BY <1>0, <1>6 DEF CardsFit
    <3>2. /\ ToSet(game.rack[p]) \subseteq ToSet(rack)
          /\ ToSet(rack) \cup Table(h) = ToSet(game.rack[p]) \cup Table(game)
          /\ ToSet(rack) \cap Table(h) = {}
      BY <1>3, <1>4, <2>1
    <3> QED
      BY <1>0, <1>1, <1>4, <1>5, <1>6, <2>2, <2>3, <3>1, <3>2, RackReplaced
<1>9. \E q \in Player : Hidden(h, q)
  <2>1. PICK q \in Player : q # p /\ Hidden(game, q)
    BY <1>0, <1>1, AnotherHidden DEF PlayersFit
  <2>2. h.rack[q] = game.rack[q]
    BY <1>0, <1>6, <2>1, StateParts
  <2> QED
    BY <1>6, <2>1, <2>2 DEF Hidden, AllRevealed
<1>10. \A q \in Player : h.pendingJokers[q] = <<>>
  BY <1>0, <1>1, <1>6 DEF PhaseFits
<1>11. h.winner = NoPlayer /\ h.phase # "game-over"
  BY <1>0, <1>1, <1>6 DEF PlayersFit
<1> QED
  BY <1>1, <1>6, <1>7, <1>8, <1>9, <1>10, <1>11, EndTurnSafe

Shown(g, S) == [g EXCEPT !.revealed = @ \cup S]

\* Cards outside the pile may be turned face up where they are.
LEMMA RevealFits ==
  ASSUME NEW g \in GameState, CardsFit(g), NEW S \in SUBSET Card,
         S \cap ToSet(g.drawPile) = {}
  PROVE  LET h == Shown(g, S)
         IN  /\ h \in GameState
             /\ CardsFit(h)
             /\ h.rack = g.rack /\ h.revealed = g.revealed \cup S
             /\ h.drawPile = g.drawPile /\ h.pendingDraw = g.pendingDraw
             /\ h.pendingJokers = g.pendingJokers /\ h.phase = g.phase
             /\ h.winner = g.winner /\ h.current = g.current
             /\ h.eliminated = g.eliminated
             /\ \A q \in Player :
                  Hidden(g, q) /\ ToSet(g.rack[q]) \cap S = {} => Hidden(h, q)
<1> DEFINE h == Shown(g, S)
<1>1. h \in GameState
  BY DEF GameState, Shown
<1>2. /\ h.rack = g.rack /\ h.revealed = g.revealed \cup S
      /\ h.drawPile = g.drawPile /\ h.pendingDraw = g.pendingDraw
      /\ h.pendingJokers = g.pendingJokers /\ h.phase = g.phase
      /\ h.winner = g.winner /\ h.current = g.current
      /\ h.eliminated = g.eliminated
  BY DEF GameState, Shown
<1> HIDE DEF h
<1>3. Conserved(h)
  <2>1. Table(h) = Table(g)
    BY <1>2 DEF Table
  <2> QED
    BY <1>2, <2>1, ConservedParts DEF CardsFit
<1>4. CardsFit(h)
  BY <1>2, <1>3 DEF CardsFit, Ordered
<1>5. \A q \in Player : Hidden(g, q) /\ ToSet(g.rack[q]) \cap S = {} => Hidden(h, q)
  BY <1>2 DEF Hidden, AllRevealed
<1> QED
  BY <1>1, <1>2, <1>4, <1>5 DEF h

\* A card in a rack is in no other rack, nor in the pile.
LEMMA RackCard ==
  ASSUME NEW g, CardsFit(g), NEW p \in Player, NEW c \in ToSet(g.rack[p])
  PROVE  /\ c \in Card
         /\ c \notin ToSet(g.drawPile)
         /\ \A q \in Player : q # p => c \notin ToSet(g.rack[q])
<1>1. /\ \A d : d \in Card <=>
            \/ \E q \in Player : d \in ToSet(g.rack[q])
            \/ d \in ToSet(g.drawPile)
            \/ d \in Table(g)
      /\ ToSet(g.rack[p]) \cap ToSet(g.drawPile) = {}
      /\ \A q \in Player : p # q => ToSet(g.rack[p]) \cap ToSet(g.rack[q]) = {}
  BY ConservedParts DEF CardsFit
<1> QED
  BY <1>1

\* A correct guess turns a card of one opponent, so someone else is still in.
LEMMA CorrectGuessSafe ==
  ASSUME Safe(game), game.phase = "guess",
         NEW target \in Player, target # game.current,
         NEW card \in ToSet(game.rack[target])
  PROVE  Safe(AfterCorrectGuess(card))
<1> DEFINE shown == Shown(game, {card})
           u == UpdateEndGame(shown)
           more == [u EXCEPT !.correctGuesses = @ + 1]
<1>0. game \in GameState /\ CardsFit(game) /\ PlayersFit(game) /\ PhaseFits(game)
  BY DEF Safe
<1>1. /\ card \in Card /\ card \notin ToSet(game.drawPile)
      /\ \A q \in Player : q # target => card \notin ToSet(game.rack[q])
  BY <1>0, RackCard
<1>2. /\ shown \in GameState
      /\ CardsFit(shown)
      /\ shown.rack = game.rack /\ shown.revealed = game.revealed \cup {card}
      /\ shown.drawPile = game.drawPile /\ shown.pendingDraw = game.pendingDraw
      /\ shown.pendingJokers = game.pendingJokers /\ shown.phase = game.phase
      /\ shown.winner = game.winner /\ shown.current = game.current
      /\ \A q \in Player : Hidden(game, q) /\ ToSet(game.rack[q]) \cap {card} = {}
            => Hidden(shown, q)
  <2>1. {card} \in SUBSET Card /\ {card} \cap ToSet(game.drawPile) = {}
    BY <1>1
  <2> QED
    BY <1>0, <2>1, RevealFits
<1>3. AfterCorrectGuess(card) =
        IF game.pendingDraw = NoCard THEN EndTurn(shown)
        ELSE IF u.phase = "game-over" THEN u ELSE more
  BY DEF AfterCorrectGuess, Shown
<1> HIDE DEF shown
<1>4. game.current \in Player /\ Hidden(shown, game.current)
  <2>1. game.current \in Player /\ Hidden(game, game.current)
    BY <1>0, StateParts DEF PlayersFit
  <2> QED
    BY <1>1, <1>2, <2>1
<1>5. \A q \in Player : shown.pendingJokers[q] = <<>>
  BY <1>0, <1>2 DEF PhaseFits
<1>6. shown.winner = NoPlayer /\ shown.phase = "guess"
  BY <1>0, <1>2 DEF PlayersFit
<1>7. CASE game.pendingDraw = NoCard
  <2>1. Safe(EndTurn(shown))
    BY <1>2, <1>4, <1>5, <1>6, <1>7, EndTurnSafe
  <2> QED
    BY <1>3, <1>7, <2>1
<1>8. CASE game.pendingDraw # NoCard
  <2>1. /\ u \in GameState
        /\ SameCards(shown, u)
        /\ u.current = shown.current
        /\ u.eliminated = {q \in Player : AllRevealed(shown, q)}
        /\ \/ u.phase = "game-over" /\ PlayersFit(u)
           \/ u.phase = shown.phase /\ u.winner = NoPlayer /\ TwoHidden(u)
    BY <1>2, <1>4, <1>6, UpdateEndGameFacts
  <2> HIDE DEF u
  <2>2. CardsFit(u) /\ \A q \in Player : AllRevealed(u, q) <=> AllRevealed(shown, q)
    BY <1>2, <2>1, SameCardsFit
  <2>3. CASE u.phase = "game-over"
    <3>1. AfterCorrectGuess(card) = u
      BY <1>3, <1>8, <2>3
    <3>2. PlayersFit(u)
      BY <1>6, <2>1, <2>3
    <3> QED
      BY <2>1, <2>2, <2>3, <3>1, <3>2, OverIsSafe
  <2>4. CASE u.phase # "game-over"
    <3>1. u.phase = "guess" /\ u.winner = NoPlayer /\ TwoHidden(u)
      BY <1>6, <2>1, <2>4
    <3>2. more \in GameState
      <4>1. u.correctGuesses + 1 \in Nat
        BY <2>1, StateParts
      <4> QED
        BY <2>1, <4>1 DEF GameState
    <3>3. /\ SameCards(u, more) /\ more.phase = u.phase
          /\ more.eliminated = u.eliminated /\ more.winner = u.winner
          /\ more.current = u.current
      BY <2>1 DEF GameState, SameCards
    <3> HIDE DEF more
    <3>4. CardsFit(more) /\ \A q \in Player : AllRevealed(more, q) <=> AllRevealed(u, q)
      BY <2>2, <3>3, SameCardsFit
    <3>5. PlayersFit(more)
      <4>1. \A q \in more.eliminated : AllRevealed(more, q)
        BY <2>1, <2>2, <3>3, <3>4
      <4>2. Hidden(more, more.current)
        BY <1>2, <1>4, <2>1, <2>2, <3>3, <3>4 DEF Hidden
      <4>3. TwoHidden(more)
        BY <3>1, <3>4 DEF TwoHidden, Hidden
      <4> QED
        BY <3>1, <3>3, <4>1, <4>2, <4>3 DEF PlayersFit
    <3>6. PhaseFits(more)
      <4>1. /\ more.pendingDraw = game.pendingDraw
            /\ more.revealed = game.revealed \cup {card}
            /\ more.pendingJokers = game.pendingJokers
        BY <1>2, <2>1, <3>3 DEF SameCards
      <4>2. game.pendingDraw \notin game.revealed
        BY <1>0 DEF PhaseFits, DrawFits
      <4>3. game.pendingDraw # card
        <5>1. ToSet(game.rack[target]) \cap Table(game) = {}
          BY <1>0, ConservedParts DEF CardsFit
        <5> QED
          BY <1>8, <5>1 DEF Table
      <4>4. \A q \in Player : more.pendingJokers[q] = <<>>
        BY <1>2, <1>5, <4>1
      <4> QED
        BY <1>8, <3>1, <3>3, <4>1, <4>2, <4>3, <4>4 DEF PhaseFits, DrawFits
    <3> QED
      BY <1>3, <1>8, <2>4, <3>2, <3>4, <3>5, <3>6 DEF Safe
  <2> QED
    BY <2>3, <2>4
<1> QED
  BY <1>7, <1>8

\* A wrong guess turns the drawn card, or asks for a penalty.
LEMMA WrongGuessSafe ==
  ASSUME Safe(game), game.phase = "guess"
  PROVE  Safe(AfterWrongGuess)
<1>0. game \in GameState /\ CardsFit(game) /\ PlayersFit(game) /\ PhaseFits(game)
  BY DEF Safe
<1>1. \A q \in Player : game.pendingJokers[q] = <<>>
  BY <1>0 DEF PhaseFits
<1>2. CASE game.pendingDraw = NoCard
  <2> DEFINE h == [game EXCEPT !.phase = "self-penalty"]
  <2>1. AfterWrongGuess = h
    BY <1>2 DEF AfterWrongGuess
  <2>2. h \in GameState
    BY <1>0 DEF GameState, TurnPhase
  <2>3. /\ SameCards(game, h) /\ h.phase = "self-penalty"
        /\ h.eliminated = game.eliminated /\ h.winner = game.winner
        /\ h.current = game.current
    BY <1>0 DEF GameState, SameCards
  <2> HIDE DEF h
  <2>4. CardsFit(h) /\ \A q \in Player : AllRevealed(h, q) <=> AllRevealed(game, q)
    BY <1>0, <2>3, SameCardsFit
  <2>5. PlayersFit(h)
    BY <1>0, <2>3, <2>4, StateParts DEF PlayersFit, TwoHidden, Hidden, GameState
  <2>6. PhaseFits(h)
    BY <1>0, <1>1, <1>2, <2>3 DEF PhaseFits, DrawFits, SameCards
  <2> QED
    BY <2>1, <2>2, <2>4, <2>5, <2>6 DEF Safe
<1>3. CASE game.pendingDraw # NoCard
  <2> DEFINE s == Shown(game, {game.pendingDraw})
             h == [game EXCEPT !.revealed = @ \cup {game.pendingDraw},
                               !.phase = "penalty-place"]
  <2>1. AfterWrongGuess = h
    BY <1>3 DEF AfterWrongGuess
  <2>2. /\ game.pendingDraw \in Card
        /\ game.pendingDraw \notin ToSet(game.drawPile)
        /\ \A q \in Player : game.pendingDraw \notin ToSet(game.rack[q])
    BY <1>0, <1>3, StateParts, ConservedParts DEF CardsFit, Table
  <2>3. /\ s \in GameState
        /\ CardsFit(s)
        /\ s.rack = game.rack /\ s.revealed = game.revealed \cup {game.pendingDraw}
        /\ s.drawPile = game.drawPile /\ s.pendingDraw = game.pendingDraw
        /\ s.pendingJokers = game.pendingJokers
        /\ \A q \in Player : Hidden(game, q) /\ ToSet(game.rack[q]) \cap {game.pendingDraw} = {}
              => Hidden(s, q)
    <3>1. {game.pendingDraw} \in SUBSET Card
          /\ {game.pendingDraw} \cap ToSet(game.drawPile) = {}
      BY <2>2
    <3> QED
      BY <1>0, <3>1, RevealFits
  <2>4. /\ SameCards(s, h) /\ h.phase = "penalty-place"
        /\ h.eliminated = game.eliminated /\ h.winner = game.winner
        /\ h.current = game.current
        /\ h \in GameState
    BY <1>0, <2>2 DEF GameState, SameCards, TurnPhase, Shown
  <2> HIDE DEF s, h
  <2>5. CardsFit(h) /\ \A q \in Player : AllRevealed(h, q) <=> AllRevealed(s, q)
    BY <2>3, <2>4, SameCardsFit
  <2>6. \A q \in Player : Hidden(game, q) => Hidden(h, q)
    BY <2>2, <2>3, <2>5 DEF Hidden
  <2>7. PlayersFit(h)
    <3>1. \A q \in Player : AllRevealed(game, q) => AllRevealed(h, q)
      BY <2>3, <2>4 DEF AllRevealed, SameCards
    <3>2. game.eliminated \subseteq Player /\ game.current \in Player
      BY <1>0 DEF GameState
    <3>3. \A q \in h.eliminated : AllRevealed(h, q)
      BY <1>0, <2>4, <3>1, <3>2 DEF PlayersFit
    <3>4. Hidden(h, h.current) /\ TwoHidden(h) /\ h.winner = NoPlayer
      BY <1>0, <2>4, <2>6, <3>2 DEF PlayersFit, TwoHidden
    <3> QED
      BY <2>4, <3>3, <3>4 DEF PlayersFit
  <2>8. PhaseFits(h)
    BY <1>1, <1>3, <2>3, <2>4 DEF PhaseFits, DrawFits, SameCards
  <2> QED
    BY <2>1, <2>4, <2>5, <2>7, <2>8 DEF Safe
<1> QED
  BY <1>2, <1>3

\* A guess is safe, right or wrong.
LEMMA ResolveGuessSafe ==
  ASSUME Safe(game), NEW p \in Player, NEW target \in Player, NEW card, NEW guess,
         ResolveGuess(p, target, card, guess)
  PROVE  Safe(game')
<1>1. /\ game.phase = "guess" /\ p = game.current /\ target # p
      /\ card \in ToSet(game.rack[target])
  BY DEF ResolveGuess, IsActor, GuessTarget
<1>2. game' = AfterCorrectGuess(card) \/ game' = AfterWrongGuess
  BY DEF ResolveGuess
<1> QED
  BY <1>1, <1>2, CorrectGuessSafe, WrongGuessSafe

\* A penalty turns one card of the player's own rack.
LEMMA RevealSelfPenaltySafe ==
  ASSUME Safe(game), NEW p \in Player, NEW card, RevealSelfPenalty(p, card)
  PROVE  Safe(game')
<1> DEFINE shown == Shown(game, {card})
<1>0. game \in GameState /\ CardsFit(game) /\ PlayersFit(game) /\ PhaseFits(game)
  BY DEF Safe
<1>1. /\ game.phase = "self-penalty" /\ game.pendingDraw = NoCard
      /\ card \in ToSet(game.rack[p])
      /\ game' = EndTurn(shown)
  BY DEF RevealSelfPenalty, Shown
<1>2. /\ card \in Card /\ card \notin ToSet(game.drawPile)
      /\ \A q \in Player : q # p => card \notin ToSet(game.rack[q])
  BY <1>0, <1>1, RackCard
<1>3. /\ shown \in GameState
      /\ CardsFit(shown)
      /\ shown.pendingDraw = game.pendingDraw
      /\ shown.pendingJokers = game.pendingJokers /\ shown.phase = game.phase
      /\ shown.winner = game.winner
      /\ \A q \in Player : Hidden(game, q) /\ ToSet(game.rack[q]) \cap {card} = {}
            => Hidden(shown, q)
  <2>1. {card} \in SUBSET Card /\ {card} \cap ToSet(game.drawPile) = {}
    BY <1>2
  <2> QED
    BY <1>0, <2>1, RevealFits
<1> HIDE DEF shown
<1>4. \E q \in Player : Hidden(shown, q)
  <2>1. PICK q \in Player : q # p /\ Hidden(game, q)
    BY <1>0, <1>1, AnotherHidden DEF PlayersFit
  <2> QED
    BY <1>2, <1>3, <2>1
<1>5. \A q \in Player : shown.pendingJokers[q] = <<>>
  BY <1>0, <1>1, <1>3 DEF PhaseFits
<1>6. shown.winner = NoPlayer
  BY <1>0, <1>1, <1>3 DEF PlayersFit
<1> QED
  BY <1>1, <1>3, <1>4, <1>5, <1>6, EndTurnSafe

-----------------------------------------------------------------------------
(***************************************************************************)
(* The opening Jokers and forfeits.                                        *)
(***************************************************************************)
\* Placing a Joker rearranges the rack and loses none of its cards.
LEMMA RackAfterPlacingFacts ==
  ASSUME game \in GameState, CardsFit(game), NEW p \in Player,
         game.pendingJokers[p] # <<>>,
         NEW index \in ValidInsertionIndexes(PlacedCards(p), Head(game.pendingJokers[p]))
  PROVE  LET rack == RackAfterPlacing(p, index)
         IN  /\ rack \in Seq(Card)
             /\ ToSet(rack) = ToSet(game.rack[p])
             /\ IsInjective(rack)
             /\ IsValidRackOrder(rack)
<1> DEFINE old == game.rack[p]
           jokers == game.pendingJokers[p]
           card == Head(jokers)
           placed == PlacedCards(p)
           new == InsertCard(placed, card, index)
           rest == Filter(old, ToSet(Tail(jokers)))
<1>1. old \in Seq(Card) /\ jokers \in Seq(Card)
  BY StateParts
<1>2. /\ IsInjective(old) /\ IsInjective(jokers)
      /\ ToSet(jokers) \subseteq Joker \cap ToSet(old)
  BY ConservedParts DEF CardsFit
<1>3. /\ card \in Card
      /\ ToSet(jokers) = {card} \cup ToSet(Tail(jokers))
      /\ card \notin ToSet(Tail(jokers))
  BY <1>1, <1>2, HeadTailSets
<1>4. /\ placed \in Seq(Card)
      /\ ToSet(placed) = ToSet(old) \cap (Card \ ToSet(jokers))
      /\ IsInjective(placed)
  BY <1>1, <1>2, FilterFacts DEF PlacedCards
<1>5. /\ rest \in Seq(Card) /\ ToSet(rest) = ToSet(old) \cap ToSet(Tail(jokers))
      /\ IsInjective(rest)
  BY <1>1, <1>2, FilterFacts
<1>6. index \in 0..Len(placed) /\ IsValidRackOrder(new)
  BY DEF ValidInsertionIndexes
<1>7. RackAfterPlacing(p, index) = new \o rest
  BY DEF RackAfterPlacing
<1>8. ToSet(old) \subseteq Card
  BY <1>1, LenProperties DEF ToSet
<1> HIDE DEF placed, rest, card, jokers, old
<1>9. new \in Seq(Card) /\ ToSet(new) = ToSet(placed) \cup {card} /\ IsInjective(new)
  <2>1. card \notin ToSet(placed)
    BY <1>3, <1>4
  <2> QED
    BY <1>3, <1>4, <1>6, <2>1, InsertFacts
<1> HIDE DEF new
<1>10. ToSet(new) \cap ToSet(rest) = {} /\ ToSet(new) \cup ToSet(rest) = ToSet(old)
  BY <1>2, <1>3, <1>4, <1>5, <1>8, <1>9
<1>11. new \o rest \in Seq(Card) /\ ToSet(new \o rest) = ToSet(old) /\ IsInjective(new \o rest)
  <2>1. /\ new \o rest \in Seq(Card)
        /\ ToSet(new \o rest) = ToSet(new) \cup ToSet(rest)
        /\ IsInjective(new) /\ IsInjective(rest) /\ ToSet(new) \cap ToSet(rest) = {} =>
             IsInjective(new \o rest)
    <3>1. new \in Seq(Card) /\ rest \in Seq(Card)
      BY <1>5, <1>9
    <3> QED
      BY <3>1, JoinSets
  <2> QED
    BY <1>5, <1>9, <1>10, <2>1
<1>12. IsValidRackOrder(new \o rest)
  BY <1>2, <1>3, <1>5, <1>6, <1>9, JokersBehind
<1> QED
  BY <1>7, <1>11, <1>12 DEF old

\* Placing an opening Joker is safe; the last one starts turn one.
LEMMA PlaceStartingJokerSafe ==
  ASSUME Safe(game), NEW p \in Player, NEW index, PlaceStartingJoker(p, index)
  PROVE  Safe(game')
<1> DEFINE rack == RackAfterPlacing(p, index)
           rest == Tail(game.pendingJokers[p])
           h == [game EXCEPT !.rack[p] = rack, !.pendingJokers[p] = rest]
           d == [h EXCEPT !.phase = "draw"]
<1>0. game \in GameState /\ CardsFit(game) /\ PlayersFit(game) /\ PhaseFits(game)
  BY DEF Safe
<1>1. /\ game.phase = "starter-place" /\ game.pendingJokers[p] # <<>>
      /\ index \in ValidInsertionIndexes(PlacedCards(p), Head(game.pendingJokers[p]))
      /\ game' = IF HasPendingStartingJokerPlacements(h) THEN h ELSE d
  BY DEF PlaceStartingJoker
<1>2. /\ rack \in Seq(Card) /\ ToSet(rack) = ToSet(game.rack[p])
      /\ IsInjective(rack) /\ IsValidRackOrder(rack)
  BY <1>0, <1>1, RackAfterPlacingFacts
<1>3. /\ rest \in Seq(Card) /\ ToSet(rest) \subseteq ToSet(game.pendingJokers[p])
      /\ IsInjective(rest)
  <2>1. game.pendingJokers[p] \in Seq(Card) /\ IsInjective(game.pendingJokers[p])
    BY <1>0, StateParts DEF CardsFit
  <2> QED
    BY <1>1, <2>1, HeadTailSets
<1> HIDE DEF rack, rest
<1>4. h \in GameState
  BY <1>0, <1>2, <1>3 DEF GameState
<1>5. /\ h.rack = [game.rack EXCEPT ![p] = rack] /\ h.revealed = game.revealed
      /\ h.drawPile = game.drawPile /\ h.pendingDraw = game.pendingDraw
      /\ h.pendingJokers = [game.pendingJokers EXCEPT ![p] = rest]
      /\ h.phase = game.phase /\ h.winner = game.winner
      /\ h.current = game.current /\ h.eliminated = game.eliminated
  BY <1>0 DEF GameState
<1> HIDE DEF h
<1>6. \A q \in Player : /\ ToSet(h.rack[q]) = ToSet(game.rack[q])
                        /\ h.rack[q] # <<>>
                        /\ game.rack[q] # <<>>
  <2>1. \A q \in Player : ToSet(h.rack[q]) = ToSet(game.rack[q])
    BY <1>0, <1>2, <1>5, StateParts
  <2>2. \A q \in Player : ToSet(game.rack[q]) # {}
    <3> SUFFICES ASSUME NEW q \in Player PROVE ToSet(game.rack[q]) # {}
      OBVIOUS
    <3>1. game.rack[q] \in Seq(Card) /\ game.rack[q] # <<>>
      BY <1>0, StateParts DEF CardsFit
    <3> QED
      BY <3>1, HeadTailSets
  <2>3. ToSet(<<>>) = {}
    BY DEF ToSet
  <2> QED
    BY <2>1, <2>2, <2>3
<1>7. \A q \in Player : AllRevealed(h, q) <=> AllRevealed(game, q)
  BY <1>5, <1>6 DEF AllRevealed
<1>8. \A q \in Player : /\ ToSet(h.pendingJokers[q]) \subseteq ToSet(game.pendingJokers[q])
                        /\ IsInjective(h.pendingJokers[q])
                        /\ h.pendingJokers[q] # <<>> => game.pendingJokers[q] # <<>>
  BY <1>0, <1>1, <1>3, <1>5, StateParts DEF CardsFit
<1>9. CardsFit(h)
  <2>1. Table(h) = Table(game)
    BY <1>5 DEF Table
  <2>2. ToSet(game.rack[p]) \cap Table(game) = {}
    BY <1>0, ConservedParts DEF CardsFit
  <2>3. ToSet(h.drawPile) \cap h.revealed = {}
    BY <1>0, <1>5 DEF CardsFit
  <2>4. game.rack \in [Player -> Seq(Card)] /\ rack # <<>>
    BY <1>0, <1>5, <1>6, StateParts
  <2>5. ToSet(rack) \cup Table(h) = ToSet(game.rack[p]) \cup Table(game)
        /\ ToSet(rack) \cap Table(h) = {}
    BY <1>2, <2>1, <2>2
  <2> QED
    BY <1>0, <1>2, <1>5, <1>8, <2>3, <2>4, <2>5, RackReplaced
<1>10. /\ game'.eliminated = h.eliminated /\ game'.winner = h.winner
       /\ game'.current = h.current /\ SameCards(h, game')
       /\ game'.phase = IF HasPendingStartingJokerPlacements(h)
                        THEN "starter-place" ELSE "draw"
       /\ game' \in GameState
  BY <1>1, <1>4, <1>5 DEF GameState, SameCards, TurnPhase
<1>11. /\ CardsFit(game')
       /\ \A q \in Player : AllRevealed(game', q) <=> AllRevealed(game, q)
       /\ HasPendingStartingJokerPlacements(game') <=> HasPendingStartingJokerPlacements(h)
  BY <1>7, <1>9, <1>10, SameCardsFit
<1>12. PlayersFit(game')
  BY <1>0, <1>1, <1>5, <1>10, <1>11 DEF PlayersFit, TwoHidden, Hidden, GameState
<1>13. PhaseFits(game')
  <2>1. game'.pendingDraw = NoCard /\ game'.drawPile # <<>>
    BY <1>0, <1>1, <1>5, <1>10 DEF PhaseFits, DrawFits, SameCards
  <2>2. \A q \in Player : game'.pendingJokers[q] # <<>> => Hidden(game', q)
    BY <1>0, <1>1, <1>8, <1>10, <1>11 DEF PhaseFits, SameCards, Hidden
  <2>3. \A q \in Player : game'.pendingJokers[q] # <<>> => game'.phase = "starter-place"
    BY <1>10, <1>11 DEF HasPendingStartingJokerPlacements
  <2> QED
    BY <1>10, <1>11, <2>1, <2>2, <2>3 DEF PhaseFits, DrawFits
<1> QED
  BY <1>10, <1>11, <1>12, <1>13 DEF Safe

\* A forfeiting player's rack takes in the card they had drawn.
LEMMA RackWithDrawnCardFacts ==
  ASSUME NEW g \in GameState, CardsFit(g), NEW p \in Player
  PROVE  LET rack == RackWithDrawnCard(g, p)
         IN  /\ rack \in Seq(Card)
             /\ ToSet(rack) = IF HasDrawn(g, p) THEN ToSet(g.rack[p]) \cup {g.pendingDraw}
                              ELSE ToSet(g.rack[p])
             /\ IsInjective(rack)
             /\ IsValidRackOrder(rack)
             /\ rack # <<>>
<1> DEFINE old == g.rack[p]
           all == Append(old, g.pendingDraw)
<1>1. old \in Seq(Card) /\ IsInjective(old) /\ IsValidRackOrder(old) /\ old # <<>>
  BY StateParts, ConservedParts DEF CardsFit, Ordered
<1>2. CASE HasDrawn(g, p)
  <2>1. g.pendingDraw \in Card /\ g.pendingDraw \notin ToSet(old)
    BY <1>2, StateParts, ConservedParts DEF HasDrawn, CardsFit, Table
  <2>2. all \in Seq(Card) /\ ToSet(all) = ToSet(old) \cup {g.pendingDraw} /\ IsInjective(all)
    BY <1>1, <2>1, AppendSets
  <2> HIDE DEF all
  <2>3. LET s == SortRackKeepingJokers(all)
        IN  /\ s \in Seq(Card) /\ ToSet(s) = ToSet(all)
            /\ IsInjective(s) /\ IsValidRackOrder(s)
    BY <2>2, SortFacts
  <2>4. RackWithDrawnCard(g, p) = SortRackKeepingJokers(all)
    BY <1>2 DEF RackWithDrawnCard, all
  <2>5. ToSet(<<>>) = {}
    BY DEF ToSet
  <2> QED
    BY <1>2, <2>2, <2>3, <2>4, <2>5
<1>3. CASE ~ HasDrawn(g, p)
  BY <1>1, <1>3 DEF RackWithDrawnCard
<1> QED
  BY <1>2, <1>3

\* The state of a forfeit before the end of the game is looked for: the
\* whole rack is turned, with the drawn card, and no card is lost.
Surrendered(g, p) ==
  [g EXCEPT !.rack[p] = RackWithDrawnCard(g, p),
            !.revealed = @ \cup ToSet(RackWithDrawnCard(g, p)),
            !.pendingDraw = IF HasDrawn(g, p) THEN NoCard ELSE @,
            !.drawnCard = IF HasDrawn(g, p) THEN g.pendingDraw ELSE @,
            !.pendingJokers = JokersAfterForfeit(g, p)]

LEMMA SurrenderedFacts ==
  ASSUME NEW g, Safe(g), NEW p \in Player, g.phase # "game-over"
  PROVE  LET drawn == HasDrawn(g, p)
             rack == RackWithDrawnCard(g, p)
             jokers == JokersAfterForfeit(g, p)
             shown == Surrendered(g, p)
         IN  /\ rack \in Seq(Card)
             /\ ToSet(rack) = IF drawn THEN ToSet(g.rack[p]) \cup {g.pendingDraw}
                              ELSE ToSet(g.rack[p])
             /\ IsInjective(rack) /\ IsValidRackOrder(rack) /\ rack # <<>>
             /\ jokers \in [Player -> Seq(Card)]
             /\ g.phase = "starter-place" => jokers[p] = <<>>
             /\ \A q \in Player : jokers[q] = g.pendingJokers[q] \/ jokers[q] = <<>>
             /\ ToSet(rack) \subseteq Card
             /\ drawn => p = g.current /\ g.pendingDraw # NoCard /\ g.pendingDraw \in Card
             /\ ~ drawn => p # g.current \/ g.pendingDraw = NoCard
             /\ shown \in GameState
             /\ shown.rack = [g.rack EXCEPT ![p] = rack]
             /\ shown.revealed = g.revealed \cup ToSet(rack)
             /\ shown.drawPile = g.drawPile
             /\ shown.pendingDraw = IF drawn THEN NoCard ELSE g.pendingDraw
             /\ shown.pendingJokers = jokers
             /\ shown.phase = g.phase /\ shown.winner = g.winner /\ shown.current = g.current
             /\ ToSet(rack) \cap ToSet(g.drawPile) = {}
             /\ \A q \in Player : q # p => ToSet(rack) \cap ToSet(g.rack[q]) = {}
             /\ ToSet(rack) \cap Table(shown) = {}
             /\ CardsFit(shown)
             /\ \A q \in Player : q # p /\ Hidden(g, q) => Hidden(shown, q)
             /\ \E q \in Player : Hidden(shown, q)
<1> DEFINE drawn == HasDrawn(g, p)
           rack == RackWithDrawnCard(g, p)
           jokers == JokersAfterForfeit(g, p)
           shown == [g EXCEPT
                       !.rack[p] = rack,
                       !.revealed = @ \cup ToSet(rack),
                       !.pendingDraw = IF drawn THEN NoCard ELSE @,
                       !.drawnCard = IF drawn THEN g.pendingDraw ELSE @,
                       !.pendingJokers = jokers]
<1>0. g \in GameState /\ CardsFit(g) /\ PlayersFit(g) /\ PhaseFits(g)
  BY DEF Safe
<1>1. Surrendered(g, p) = shown
  BY DEF Surrendered
<1>2. /\ rack \in Seq(Card)
      /\ ToSet(rack) = IF drawn THEN ToSet(g.rack[p]) \cup {g.pendingDraw}
                       ELSE ToSet(g.rack[p])
      /\ IsInjective(rack) /\ IsValidRackOrder(rack) /\ rack # <<>>
  BY <1>0, RackWithDrawnCardFacts
<1>3. /\ jokers \in [Player -> Seq(Card)]
      /\ g.phase = "starter-place" => jokers[p] = <<>>
      /\ \A q \in Player : jokers[q] = g.pendingJokers[q] \/ jokers[q] = <<>>
  BY <1>0, StateParts DEF JokersAfterForfeit
<1>4. /\ ToSet(rack) \subseteq Card
      /\ drawn => p = g.current /\ g.pendingDraw # NoCard /\ g.pendingDraw \in Card
      /\ ~ drawn => p # g.current \/ g.pendingDraw = NoCard
  BY <1>0, <1>2, StateParts, LenProperties DEF HasDrawn, ToSet
<1> HIDE DEF rack, jokers, drawn
<1>5. shown \in GameState
  BY <1>0, <1>2, <1>3, <1>4 DEF GameState
<1>6. /\ shown.rack = [g.rack EXCEPT ![p] = rack]
      /\ shown.revealed = g.revealed \cup ToSet(rack)
      /\ shown.drawPile = g.drawPile
      /\ shown.pendingDraw = IF drawn THEN NoCard ELSE g.pendingDraw
      /\ shown.pendingJokers = jokers
      /\ shown.phase = g.phase /\ shown.winner = g.winner /\ shown.current = g.current
  BY <1>0 DEF GameState
<1> HIDE DEF shown
<1>7. /\ ToSet(rack) \cap ToSet(g.drawPile) = {}
      /\ \A q \in Player : q # p => ToSet(rack) \cap ToSet(g.rack[q]) = {}
      /\ ToSet(rack) \cap Table(shown) = {}
      /\ ToSet(rack) \cup Table(shown) = ToSet(g.rack[p]) \cup Table(g)
  <2>1. /\ ToSet(g.rack[p]) \cap ToSet(g.drawPile) = {}
        /\ ToSet(g.drawPile) \cap Table(g) = {}
        /\ \A q \in Player : q # p => ToSet(g.rack[p]) \cap ToSet(g.rack[q]) = {}
        /\ \A q \in Player : ToSet(g.rack[q]) \cap Table(g) = {}
    BY <1>0, ConservedParts DEF CardsFit
  <2>2. CASE drawn
    <3>1. Table(g) = {g.pendingDraw} /\ Table(shown) = {}
      BY <1>4, <1>6, <2>2 DEF Table
    <3> QED
      BY <1>2, <2>1, <2>2, <3>1
  <2>3. CASE ~ drawn
    <3>1. Table(shown) = Table(g)
      BY <1>6, <2>3 DEF Table
    <3> QED
      BY <1>2, <2>1, <2>3, <3>1
  <2> QED
    BY <2>2, <2>3
<1>8. CardsFit(shown)
  <2>1. \A q \in Player : /\ ToSet(shown.pendingJokers[q]) \subseteq ToSet(g.pendingJokers[q])
                          /\ IsInjective(shown.pendingJokers[q])
    <3>1. ToSet(<<>>) = {} /\ IsInjective(<<>>)
      BY DEF ToSet, IsInjective
    <3> QED
      BY <1>0, <1>3, <1>6, <3>1 DEF CardsFit
  <2>2. ToSet(shown.drawPile) \cap shown.revealed = {}
    BY <1>0, <1>6, <1>7 DEF CardsFit
  <2>3. ToSet(g.rack[p]) \subseteq ToSet(rack) /\ g.rack \in [Player -> Seq(Card)]
    BY <1>0, <1>2, StateParts
  <2> QED
    BY <1>0, <1>2, <1>6, <1>7, <2>1, <2>2, <2>3, RackReplaced
<1>9. \A q \in Player : q # p /\ Hidden(g, q) => Hidden(shown, q)
  <2> SUFFICES ASSUME NEW q \in Player, q # p, Hidden(g, q)
               PROVE  Hidden(shown, q)
    OBVIOUS
  <2>1. shown.rack[q] = g.rack[q] /\ g.rack[q] # <<>>
    BY <1>0, <1>6, StateParts DEF CardsFit
  <2>2. \A c \in ToSet(g.rack[q]) : c \in shown.revealed => c \in g.revealed
    BY <1>6, <1>7
  <2> QED
    BY <2>1, <2>2, HiddenStays
<1>10. \E q \in Player : Hidden(shown, q)
  <2>1. PICK q \in Player : q # p /\ Hidden(g, q)
    BY <1>0, AnotherHidden DEF PlayersFit
  <2> QED
    BY <1>9, <2>1
<1> QED
  BY <1>1, <1>2, <1>3, <1>4, <1>5, <1>6, <1>7, <1>8, <1>9, <1>10
  DEF rack, jokers, drawn

\* A forfeit turns a whole rack, keeps every card in the match, and hands on
\* the turn or the opening if it was theirs.
LEMMA ForfeitSafe ==
  ASSUME NEW g, Safe(g), NEW p \in Player, g.phase # "game-over"
  PROVE  Safe(ForfeitPlayer(g, p))
<1> DEFINE drawn == HasDrawn(g, p)
           rack == RackWithDrawnCard(g, p)
           jokers == JokersAfterForfeit(g, p)
           shown == Surrendered(g, p)
           u == UpdateEndGame(shown)
           opening == [u EXCEPT
                         !.current = IF p = g.current THEN NextActive(u, p) ELSE @,
                         !.phase = IF HasPendingStartingJokerPlacements(u)
                                   THEN "starter-place" ELSE "draw"]
<1>0. g \in GameState /\ CardsFit(g) /\ PlayersFit(g) /\ PhaseFits(g)
  BY DEF Safe
<1>1. ForfeitPlayer(g, p) =
        IF u.phase = "game-over" THEN u
        ELSE IF g.phase = "starter-place" THEN opening
        ELSE IF p = g.current THEN AdvanceTurn(u) ELSE u
  BY DEF ForfeitPlayer, Surrendered
<1>2. /\ jokers \in [Player -> Seq(Card)]
      /\ g.phase = "starter-place" => jokers[p] = <<>>
      /\ \A q \in Player : jokers[q] = g.pendingJokers[q] \/ jokers[q] = <<>>
      /\ ToSet(rack) \subseteq Card
      /\ drawn => p = g.current /\ g.pendingDraw # NoCard
      /\ ~ drawn => p # g.current \/ g.pendingDraw = NoCard
  BY SurrenderedFacts
<1>3. /\ shown \in GameState
      /\ shown.revealed = g.revealed \cup ToSet(rack)
      /\ shown.drawPile = g.drawPile
      /\ shown.pendingDraw = IF drawn THEN NoCard ELSE g.pendingDraw
      /\ shown.pendingJokers = jokers
      /\ shown.phase = g.phase /\ shown.current = g.current
      /\ shown.winner = NoPlayer /\ shown.phase # "game-over"
  <2>1. shown.pendingDraw = IF drawn THEN NoCard ELSE g.pendingDraw
    BY SurrenderedFacts
  <2>2. shown.winner = NoPlayer
    <3>1. g.winner = NoPlayer /\ shown.winner = g.winner
      BY <1>0, SurrenderedFacts DEF PlayersFit
    <3> QED
      BY <3>1
  <2>4. shown \in GameState
    BY SurrenderedFacts
  <2>3. /\ shown.revealed = g.revealed \cup ToSet(rack)
        /\ shown.drawPile = g.drawPile /\ shown.pendingJokers = jokers
        /\ shown.phase = g.phase /\ shown.current = g.current
    BY SurrenderedFacts
  <2> QED
    BY <2>1, <2>2, <2>3, <2>4
<1>4. ToSet(rack) \cap Table(shown) = {} /\ CardsFit(shown)
  BY SurrenderedFacts
<1>5. /\ \A q \in Player : q # p /\ Hidden(g, q) => Hidden(shown, q)
      /\ \E q \in Player : Hidden(shown, q)
  BY SurrenderedFacts
<1> HIDE DEF rack, jokers, drawn, shown
<1>6. /\ u \in GameState
       /\ SameCards(shown, u)
       /\ u.current = shown.current
       /\ u.eliminated = {q \in Player : AllRevealed(shown, q)}
       /\ \/ u.phase = "game-over" /\ PlayersFit(u)
          \/ u.phase = shown.phase /\ u.winner = NoPlayer /\ TwoHidden(u)
  BY <1>3, <1>5, UpdateEndGameFacts
<1>7. /\ CardsFit(u)
       /\ \A q \in Player : AllRevealed(u, q) <=> AllRevealed(shown, q)
  BY <1>4, <1>6, SameCardsFit
<1>8. CASE u.phase = "game-over"
  <2>1. ForfeitPlayer(g, p) = u
    BY <1>1, <1>8
  <2>2. PlayersFit(u)
    BY <1>3, <1>6, <1>8
  <2> HIDE DEF u
  <2> QED
    BY <1>6, <1>7, <1>8, <2>1, <2>2, OverIsSafe
<1>9. CASE u.phase # "game-over" /\ g.phase # "starter-place" /\ p = g.current
  <2>1. EndTurn(shown) = AdvanceTurn(u)
    BY <1>9 DEF EndTurn
  <2>2. shown.pendingDraw = NoCard
    BY <1>2, <1>3, <1>9
  <2>3. \A q \in Player : shown.pendingJokers[q] = <<>>
    BY <1>0, <1>2, <1>3, <1>9 DEF PhaseFits
  <2>4. Safe(EndTurn(shown))
    BY <1>3, <1>4, <1>5, <2>2, <2>3, EndTurnSafe
  <2> QED
    BY <1>1, <1>9, <2>1, <2>4
<1>10. CASE u.phase # "game-over" /\ g.phase # "starter-place" /\ p # g.current
  <2>1. ForfeitPlayer(g, p) = u
    BY <1>1, <1>10
  <2> HIDE DEF u
  <2>2. u.phase = g.phase /\ u.winner = NoPlayer /\ TwoHidden(u) /\ u.current = g.current
    BY <1>3, <1>6, <1>10
  <2>3. g.current \in Player /\ Hidden(g, g.current)
    BY <1>0, StateParts DEF PlayersFit
  <2>4. PlayersFit(u)
    BY <1>5, <1>6, <1>7, <1>10, <2>2, <2>3 DEF PlayersFit, Hidden
  <2>5. PhaseFits(u)
    <3>1. ~ drawn /\ u.pendingDraw = g.pendingDraw /\ u.drawPile = g.drawPile
          /\ u.revealed = g.revealed \cup ToSet(rack)
      BY <1>2, <1>3, <1>6, <1>10 DEF SameCards
    <3>2. g.pendingDraw \notin ToSet(rack)
      <4>1. g.pendingDraw # NoCard => g.pendingDraw \in Table(shown)
        BY <1>3, <3>1 DEF Table
      <4>2. NoCard \notin ToSet(rack)
        BY <1>2, GameAssumption
      <4> QED
        BY <1>4, <4>1, <4>2
    <3>3. DrawFits(u)
      BY <1>0, <1>10, <2>2, <3>1, <3>2 DEF PhaseFits, DrawFits
    <3>4. \A q \in Player : u.pendingJokers[q] = <<>>
      BY <1>0, <1>2, <1>3, <1>6, <1>10 DEF PhaseFits, SameCards
    <3>5. u.phase = "draw" => u.drawPile # <<>>
      BY <1>0, <2>2, <3>1 DEF PhaseFits
    <3> QED
      BY <1>10, <2>2, <3>3, <3>4, <3>5 DEF PhaseFits
  <2> QED
    BY <1>6, <1>7, <2>1, <2>4, <2>5 DEF Safe
<1>11. CASE u.phase # "game-over" /\ g.phase = "starter-place"
  <2>1. ForfeitPlayer(g, p) = opening
    BY <1>1, <1>11
  <2> DEFINE next == IF p = g.current THEN NextActive(u, p) ELSE u.current
             stage == IF HasPendingStartingJokerPlacements(u) THEN "starter-place" ELSE "draw"
  <2>2. opening = [u EXCEPT !.current = next, !.phase = stage]
    OBVIOUS
  <2> HIDE DEF u, opening
  <2>3. u.winner = NoPlayer /\ TwoHidden(u) /\ u.current = g.current
    BY <1>3, <1>6, <1>11
  <2>4. next \in Player /\ Hidden(u, next)
    <3>1. CASE p = g.current
      <4>1. PICK q \in Player : q \notin u.eliminated
        BY <1>6, <1>7, <2>3 DEF TwoHidden, Hidden
      <4>2. NextActive(u, p) \in Player /\ NextActive(u, p) \notin u.eliminated
        BY <4>1, NextActiveIsIn
      <4> QED
        BY <1>6, <1>7, <3>1, <4>2 DEF Hidden
    <3>2. CASE p # g.current
      <4>1. g.current \in Player /\ Hidden(g, g.current)
        BY <1>0, StateParts DEF PlayersFit
      <4> QED
        BY <1>5, <1>7, <2>3, <3>2, <4>1 DEF Hidden
    <3> QED
      BY <3>1, <3>2
  <2> HIDE DEF next
  <2>5. opening \in GameState
    BY <1>6, <2>2, <2>4 DEF GameState, TurnPhase
  <2>6. /\ SameCards(u, opening) /\ opening.current = next /\ opening.phase = stage
        /\ opening.eliminated = u.eliminated /\ opening.winner = u.winner
    BY <1>6, <2>2 DEF GameState, SameCards
  <2>7. /\ CardsFit(opening)
        /\ \A q \in Player : AllRevealed(opening, q) <=> AllRevealed(u, q)
        /\ HasPendingStartingJokerPlacements(opening) <=> HasPendingStartingJokerPlacements(u)
    BY <1>7, <2>6, SameCardsFit
  <2>8. PlayersFit(opening)
    BY <1>6, <1>7, <2>3, <2>4, <2>6, <2>7 DEF PlayersFit, TwoHidden, Hidden
  <2>9. PhaseFits(opening)
    <3>1. opening.pendingDraw = NoCard /\ opening.drawPile # <<>>
      BY <1>0, <1>3, <1>6, <1>11, <2>6 DEF PhaseFits, DrawFits, SameCards
    <3>2. opening.pendingJokers = jokers
      BY <1>3, <1>6, <2>6 DEF SameCards
    <3>3. \A q \in Player : jokers[q] # <<>> => q # p /\ Hidden(g, q)
      BY <1>0, <1>2, <1>11 DEF PhaseFits
    <3>4. \A q \in Player : jokers[q] # <<>> => Hidden(opening, q)
      BY <1>5, <1>7, <2>7, <3>3 DEF Hidden
    <3>5. \A q \in Player : jokers[q] # <<>> => opening.phase = "starter-place"
      BY <2>6, <2>7, <3>2 DEF HasPendingStartingJokerPlacements
    <3>6. opening.phase = "starter-place" => HasPendingStartingJokerPlacements(opening)
      BY <2>6, <2>7
    <3> HIDE DEF stage
    <3>7. opening.phase \in {"starter-place", "draw"}
      BY <2>6 DEF stage
    <3> QED
      BY <3>1, <3>2, <3>4, <3>5, <3>6, <3>7 DEF PhaseFits, DrawFits
  <2> QED
    BY <2>1, <2>5, <2>7, <2>8, <2>9 DEF Safe
<1> QED
  BY <1>8, <1>9, <1>10, <1>11

\* The action timer forfeits the active player, or whoever has not placed
\* their opening Jokers.
LEMMA ResolveTurnTimeoutSafe ==
  ASSUME Safe(game), ResolveTurnTimeout
  PROVE  Safe(game')
<1>1. ASSUME NEW g, Safe(g), NEW p
      PROVE  Safe(TimeoutStep(g, p))
  BY <1>1, ForfeitSafe DEF TimeoutStep
<1>2. Safe(StartingJokersTimeout)
  <2> DEFINE t0 == TimeoutStep(game, 0)  t1 == TimeoutStep(t0, 1)
             t2 == TimeoutStep(t1, 2)    t3 == TimeoutStep(t2, 3)
             t4 == TimeoutStep(t3, 4)
  <2>1. StartingJokersTimeout = TimeoutStep(t4, 5)
    BY DEF StartingJokersTimeout
  <2>2. Safe(t0)
    BY <1>1
  <2> HIDE DEF t0
  <2>3. Safe(t1)
    BY <1>1, <2>2
  <2> HIDE DEF t1
  <2>4. Safe(t2)
    BY <1>1, <2>3
  <2> HIDE DEF t2
  <2>5. Safe(t3)
    BY <1>1, <2>4
  <2> HIDE DEF t3
  <2>6. Safe(t4)
    BY <1>1, <2>5
  <2> HIDE DEF t4
  <2> QED
    BY <1>1, <2>1, <2>6
<1>3. game.current \in Player
  BY StateParts DEF Safe
<1> QED
  BY <1>2, <1>3, ForfeitSafe DEF ResolveTurnTimeout

-----------------------------------------------------------------------------
(***************************************************************************)
(* The deal, and the invariant of the whole match.                         *)
(***************************************************************************)
\* Every card is a starting card, dealt to one player, or in the pile.
LEMMA DealConserves ==
  ASSUME NEW o, IsOpening(o)
  PROVE  Conserved(CreateGame(o))
<1> DEFINE g == CreateGame(o)
           deck == o.deck
           n == NumDealt(o)
           hand(p) == 1..(HandSize(o, p) - 1)
           dealt(p) == {deck[DealNumber(o, p, r)] : r \in hand(p)}
           rack(p) == ToSet(g.rack[p])
           pile == ToSet(g.drawPile)
<1>1. /\ n \in Nat /\ Len(deck) \in Nat /\ n < Len(deck)
      /\ \A p \in Player : \A r \in hand(p) : DealNumber(o, p, r) \in 1..n
      /\ \A k \in 1..n : \E p \in Player : \E r \in hand(p) : DealNumber(o, p, r) = k
      /\ \A p, q \in Player : \A r \in hand(p), t \in hand(q) :
            DealNumber(o, p, r) = DealNumber(o, q, t) => p = q /\ r = t
  BY DealRange
<1>2. /\ deck \in Seq(Card) /\ IsInjective(deck)
      /\ ToSet(deck) = Card \ {o.starting[p] : p \in Player}
      /\ \A p \in Player : o.starting[p] \in Card
      /\ \A p, q \in Player : o.starting[p] = o.starting[q] => p = q
      /\ DOMAIN deck = 1..Len(deck)
  BY LenProperties DEF IsOpening, IsInjective
<1>3. \A p \in Player : /\ g.rack[p] = OpeningRack(o, p)
                        /\ rack(p) = dealt(p) \cup {o.starting[p]}
                        /\ IsInjective(g.rack[p])
  BY OpeningRackFacts, DealtRackFacts DEF CreateGame
<1>4. g.drawPile = SubSeq(deck, n + 1, Len(deck)) /\ g.pendingDraw = NoCard
  BY DEF CreateGame
<1>5. pile = {deck[i] : i \in (n + 1)..Len(deck)} /\ IsInjective(g.drawPile)
  <2>1. n <= Len(deck)
    BY <1>1
  <2> HIDE DEF n, g
  <2> QED
    BY <1>1, <1>2, <1>4, <2>1, RestOfDeck
<1>6. Table(g) = {}
  BY <1>4 DEF Table
<1> HIDE DEF g, deck, n, hand
<1>7. /\ \A i, j \in 1..Len(deck) : deck[i] = deck[j] => i = j
      /\ \A i \in 1..Len(deck) : deck[i] \in Card /\ \A p \in Player : deck[i] # o.starting[p]
      /\ \A c \in Card : (\E p \in Player : c = o.starting[p])
                         \/ \E i \in 1..Len(deck) : c = deck[i]
  <2>1. \A i \in 1..Len(deck) : deck[i] \in ToSet(deck)
    BY <1>2 DEF ToSet
  <2>2. \A c \in ToSet(deck) : \E i \in 1..Len(deck) : c = deck[i]
    BY <1>2 DEF ToSet
  <2> QED
    BY <1>2, <2>1, <2>2 DEF IsInjective
<1>8. /\ \A k \in 1..n : k \in 1..Len(deck) /\ ~ (k \in (n + 1)..Len(deck))
      /\ \A k \in (n + 1)..Len(deck) : k \in 1..Len(deck)
      /\ \A k \in 1..Len(deck) : k \in 1..n \/ k \in (n + 1)..Len(deck)
  BY <1>1
<1>9. \A p \in Player : \A c \in dealt(p) : \E k \in 1..n : c = deck[k]
  BY <1>1
<1>10. \A k \in 1..n : \E p \in Player : deck[k] \in dealt(p)
  BY <1>1
<1>11. \A p, q \in Player : p # q => dealt(p) \cap dealt(q) = {}
  <2> SUFFICES ASSUME NEW p \in Player, NEW q \in Player, p # q,
                      NEW r \in hand(p), NEW t \in hand(q),
                      deck[DealNumber(o, p, r)] = deck[DealNumber(o, q, t)]
               PROVE  FALSE
    OBVIOUS
  <2>1. DealNumber(o, p, r) \in 1..Len(deck) /\ DealNumber(o, q, t) \in 1..Len(deck)
    BY <1>1, <1>8
  <2>2. DealNumber(o, p, r) = DealNumber(o, q, t)
    BY <1>7, <2>1
  <2> QED
    BY <1>1, <2>2
<1> HIDE DEF dealt, pile
<1>12. \A c \in pile : \E k \in (n + 1)..Len(deck) : c = deck[k]
  BY <1>5
<1>13. \A k \in (n + 1)..Len(deck) : deck[k] \in pile
  BY <1>5
<1>14. \A c : c \in Card <=>
          \/ \E p \in Player : c \in rack(p)
          \/ c \in pile
          \/ c \in Table(g)
  <2>1. ASSUME NEW c \in Card
        PROVE  (\E p \in Player : c \in rack(p)) \/ c \in pile
    <3>1. CASE \E p \in Player : c = o.starting[p]
      BY <1>3, <3>1
    <3>2. CASE \E i \in 1..Len(deck) : c = deck[i]
      <4>1. PICK i \in 1..Len(deck) : c = deck[i]
        BY <3>2
      <4>2. CASE i \in 1..n
        BY <1>3, <1>10, <4>1, <4>2
      <4>3. CASE i \in (n + 1)..Len(deck)
        BY <1>13, <4>1, <4>3
      <4> QED
        BY <1>8, <4>2, <4>3
    <3> QED
      BY <1>7, <3>1, <3>2
  <2>2. \A p \in Player : rack(p) \subseteq Card
    BY <1>2, <1>3, <1>7, <1>8, <1>9
  <2>3. pile \subseteq Card
    BY <1>7, <1>8, <1>12
  <2> QED
    BY <1>6, <2>1, <2>2, <2>3
<1>15. \A p \in Player : rack(p) \cap pile = {}
  <2> SUFFICES ASSUME NEW p \in Player, NEW c \in rack(p), c \in pile
               PROVE  FALSE
    OBVIOUS
  <2>1. PICK k \in (n + 1)..Len(deck) : c = deck[k]
    BY <1>12
  <2>2. c # o.starting[p]
    BY <1>7, <1>8, <2>1
  <2>3. PICK i \in 1..n : c = deck[i]
    BY <1>3, <1>9, <2>2
  <2> QED
    BY <1>7, <1>8, <2>1, <2>3
<1>16. \A p, q \in Player : p # q => rack(p) \cap rack(q) = {}
  <2>1. \A p, q \in Player : o.starting[p] \notin dealt(q)
    BY <1>7, <1>8, <1>9
  <2> QED
    BY <1>2, <1>3, <1>11, <2>1
<1> QED
  BY <1>3, <1>5, <1>6, <1>14, <1>15, <1>16, ConservedParts DEF g, pile

\* A hand of two or more has a card besides the starting card, face down.
LEMMA DealHides ==
  ASSUME NEW o, IsOpening(o), NEW p \in Player, HandSize(o, p) >= 2
  PROVE  Hidden(CreateGame(o), p)
<1> DEFINE kept == {o.starting[q] : q \in Player}
<1>1. \A c \in ToSet(DealtRack(o, p)) : c \in ToSet(o.deck)
  <2> SUFFICES ASSUME NEW r \in 1..(HandSize(o, p) - 1)
               PROVE  o.deck[DealNumber(o, p, r)] \in ToSet(o.deck)
    BY DealtRackFacts
  <2>1. DealNumber(o, p, r) \in 1..NumDealt(o) /\ NumDealt(o) \in Nat
        /\ Len(o.deck) \in Nat /\ NumDealt(o) < Len(o.deck)
    BY DealRange
  <2>2. DealNumber(o, p, r) \in 1..Len(o.deck) /\ DOMAIN o.deck = 1..Len(o.deck)
    BY <2>1, LenProperties DEF IsOpening
  <2> QED
    BY <2>2 DEF ToSet
<1>2. ToSet(OpeningRack(o, p)) = ToSet(DealtRack(o, p)) \cup {o.starting[p]}
  BY OpeningRackFacts
<1>3. CreateGame(o).rack[p] = OpeningRack(o, p) /\ CreateGame(o).revealed = kept
  BY DEF CreateGame
<1> HIDE DEF kept
<1> SUFFICES \E c \in ToSet(OpeningRack(o, p)) : c \notin kept
  BY <1>3 DEF Hidden, AllRevealed
<1>4. DealtRack(o, p) \in Seq(Card) /\ DealtRack(o, p) # <<>>
  BY DealtRackFacts
<1>5. PICK c : c \in ToSet(DealtRack(o, p))
  <2>1. LET s == DealtRack(o, p)
        IN  ToSet(s) = {Head(s)} \cup ToSet(Tail(s))
    BY <1>4, HeadTailSets
  <2> QED
    BY <2>1
<1>6. ToSet(o.deck) = Card \ kept
  BY DEF IsOpening, kept
<1> QED
  BY <1>1, <1>2, <1>5, <1>6

\* A match starts safe: the starter and another player hold hidden cards.
LEMMA DealSafe ==
  ASSUME NEW o, IsOpening(o)
  PROVE  Safe(CreateGame(o))
<1> DEFINE g == CreateGame(o)
           racks == [p \in Player |-> OpeningRack(o, p)]
           jokers == [p \in Player |-> Filter(racks[p], Joker)]
           kept == {o.starting[p] : p \in Player}
           pile == SubSeq(o.deck, NumDealt(o) + 1, Len(o.deck))
           stage == IF \E p \in Player : jokers[p] # <<>> THEN "starter-place" ELSE "draw"
<1>1. \A p \in Player : /\ racks[p] \in Seq(Card)
                        /\ ToSet(racks[p]) = ToSet(DealtRack(o, p)) \cup {o.starting[p]}
                        /\ IsInjective(racks[p]) /\ IsValidRackOrder(racks[p])
  BY OpeningRackFacts
<1>2. \A p \in Player : /\ jokers[p] \in Seq(Card)
                        /\ ToSet(jokers[p]) = ToSet(racks[p]) \cap Joker
                        /\ IsInjective(jokers[p])
  BY <1>1, FilterFacts
<1>3. pile \in Seq(Card) /\ pile # <<>> /\ ToSet(pile) \subseteq Card \ kept
  <2> DEFINE n == NumDealt(o)
  <2>1. o.deck \in Seq(Card) /\ n \in Nat /\ Len(o.deck) \in Nat /\ n < Len(o.deck)
    BY DealRange DEF IsOpening
  <2> HIDE DEF n
  <2>2. n <= Len(o.deck)
    BY <2>1
  <2>3. LET t == SubSeq(o.deck, n + 1, Len(o.deck))
        IN  t \in Seq(Card) /\ ToSet(t) = {o.deck[i] : i \in (n + 1)..Len(o.deck)} /\ t # <<>>
    BY <2>1, <2>2, RestOfDeck
  <2>4. \A i \in (n + 1)..Len(o.deck) : o.deck[i] \in ToSet(o.deck)
    <3>1. DOMAIN o.deck = 1..Len(o.deck)
      BY <2>1, LenProperties
    <3>2. \A i \in (n + 1)..Len(o.deck) : i \in 1..Len(o.deck)
      BY <2>1
    <3> QED
      BY <3>1, <3>2 DEF ToSet
  <2>5. ToSet(o.deck) = Card \ kept
    BY DEF IsOpening
  <2> QED
    BY <2>3, <2>4, <2>5 DEF n
<1>4. g = [rack |-> racks, revealed |-> kept, eliminated |-> {}, drawPile |-> pile,
           current |-> o.starter, phase |-> stage, pendingDraw |-> NoCard,
           drawnCard |-> NoCard, correctGuesses |-> 0, pendingJokers |-> jokers,
           winner |-> NoPlayer]
  BY DEF CreateGame
<1>5. kept \subseteq Card /\ o.starter \in Player
  BY DEF IsOpening
<1>6. racks \in [Player -> Seq(Card)] /\ jokers \in [Player -> Seq(Card)]
  BY <1>1, <1>2
<1>8. \A p \in Player : jokers[p] # <<>> => HandSize(o, p) >= 2
  <2> SUFFICES ASSUME NEW p \in Player, jokers[p] # <<>>
               PROVE  HandSize(o, p) >= 2
    OBVIOUS
  <2>1. PICK c \in ToSet(racks[p]) : c \in Joker
    BY <1>2, HeadTailSets
  <2>2. CASE p = o.starter
    BY <2>2, TwoLargeHands
  <2>3. CASE p # o.starter
    <3>1. o.starting[p] \notin Joker
      BY <2>3 DEF IsOpening
    <3>2. c \in ToSet(DealtRack(o, p))
      BY <1>1, <2>1, <3>1
    <3>3. PICK r \in 1..(HandSize(o, p) - 1) : TRUE
      BY <3>2, DealtRackFacts
    <3>4. HandSize(o, p) \in Int
      BY HandSizes, HandNumbers
    <3> QED
      BY <3>3, <3>4
  <2> QED
    BY <2>2, <2>3
<1> HIDE DEF racks, jokers, pile, kept, stage
<1>9. g \in GameState
  <2>1. stage \in TurnPhase
    BY DEF stage, TurnPhase
  <2> QED
    BY <1>3, <1>4, <1>5, <1>6, <2>1 DEF GameState
<1>10. Conserved(g)
  BY DealConserves
<1>11. \A p \in Player : HandSize(o, p) >= 2 => Hidden(g, p)
  BY DealHides
<1> HIDE DEF g
<1>12. CardsFit(g)
  <2>1. Ordered(g)
    BY <1>1, <1>4 DEF Ordered
  <2>2. ToSet(g.drawPile) \cap g.revealed = {}
    BY <1>3, <1>4
  <2>3. \A p \in Player : racks[p] # <<>>
    <3>1. ToSet(<<>>) = {}
      BY DEF ToSet
    <3> QED
      BY <1>1, <3>1
  <2>4. \A p \in Player : ToSet(g.pendingJokers[p]) \subseteq Joker \cap ToSet(g.rack[p])
                          /\ IsInjective(g.pendingJokers[p])
    BY <1>2, <1>4
  <2> QED
    BY <1>4, <1>10, <2>1, <2>2, <2>3, <2>4 DEF CardsFit
<1>13. PlayersFit(g)
  <2>1. stage # "game-over"
    BY DEF stage
  <2>2. Hidden(g, o.starter) /\ TwoHidden(g)
    BY <1>5, <1>11, TwoLargeHands DEF TwoHidden
  <2> QED
    BY <1>4, <2>1, <2>2 DEF PlayersFit
<1>14. PhaseFits(g)
  <2>1. g.phase \in {"starter-place", "draw"}
    BY <1>4 DEF stage
  <2>2. g.phase = "starter-place" <=> \E p \in Player : g.pendingJokers[p] # <<>>
    BY <1>4 DEF stage
  <2>3. \A p \in Player : g.pendingJokers[p] # <<>> => Hidden(g, p)
    BY <1>4, <1>8, <1>11
  <2>4. g.pendingDraw = NoCard /\ g.drawPile # <<>>
    BY <1>3, <1>4
  <2> QED
    BY <2>1, <2>2, <2>3, <2>4 DEF PhaseFits, DrawFits, HasPendingStartingJokerPlacements
<1> QED
  BY <1>9, <1>12, <1>13, <1>14 DEF Safe, g

\* The engine only deals from openings the room hands it.
LEMMA InitSafe == Init => Safe(game)
BY DealSafe, GameAssumption DEF Init

\* Every move, forfeit and timeout keeps the match safe.
LEMMA NextSafe == Safe(game) /\ [Next]_vars => Safe(game')
<1> SUFFICES ASSUME Safe(game), [Next]_vars
             PROVE  Safe(game')
  OBVIOUS
<1>1. ASSUME NEW p \in Player, DrawCard(p)
      PROVE  Safe(game')
  BY <1>1, DrawCardSafe
<1>2. ASSUME NEW p \in Player, StopGuessingAndPlace(p)
      PROVE  Safe(game')
  BY <1>2, StopGuessingSafe
<1>3. ASSUME NEW p \in Player, NEW index, InsertDrawnCard(p, index)
      PROVE  Safe(game')
  BY <1>3, InsertDrawnCardSafe
<1>4. ASSUME NEW p \in Player, NEW index, PlaceStartingJoker(p, index)
      PROVE  Safe(game')
  BY <1>4, PlaceStartingJokerSafe
<1>5. ASSUME NEW p \in Player, NEW target \in Player, NEW card, NEW guess,
             ResolveGuess(p, target, card, guess)
      PROVE  Safe(game')
  BY <1>5, ResolveGuessSafe
<1>6. ASSUME NEW p \in Player, NEW card, RevealSelfPenalty(p, card)
      PROVE  Safe(game')
  BY <1>6, RevealSelfPenaltySafe
<1>7. ASSUME NEW p \in Player, Forfeit(p)
      PROVE  Safe(game')
  BY <1>7, ForfeitSafe DEF Forfeit
<1>8. CASE ResolveTurnTimeout
  BY <1>8, ResolveTurnTimeoutSafe
<1>9. CASE UNCHANGED vars
  BY <1>9 DEF vars
<1> QED
  BY <1>1, <1>2, <1>3, <1>4, <1>5, <1>6, <1>7, <1>8, <1>9 DEF Next, Move

-----------------------------------------------------------------------------
(***************************************************************************)
(* The theorems.                                                           *)
(***************************************************************************)
\* A match is safe throughout: Safe is an inductive invariant.
THEOREM MatchIsSafe == Spec => []Safe(game)
<1>1. Safe(game) /\ [Next]_vars => Safe(game)'
  BY NextSafe
<1> QED
  BY <1>1, InitSafe, PTL DEF Spec

\* The game state always has the shape of GameState in types.ts.
THEOREM TypeCorrect == Spec => []TypeOK
<1>1. Safe(game) => TypeOK
  BY DEF Safe, TypeOK
<1> QED
  BY <1>1, MatchIsSafe, PTL

\* No draw, placement, sort or forfeit loses or doubles a card.
THEOREM NoCardDisappears == Spec => []CardsConserved
<1>1. Safe(game) => CardsConserved
  BY DEF Safe, CardsFit, CardsConserved
<1> QED
  BY <1>1, MatchIsSafe, PTL

\* Every rack stays in order, whoever changes it.
THEOREM RacksStayOrdered == Spec => []RacksOrdered
<1>1. Safe(game) => RacksOrdered
  BY DEF Safe, CardsFit, RacksOrdered
<1> QED
  BY <1>1, MatchIsSafe, PTL

\* The players who are still in: one, or two and more.
LEMMA SafeDecided ==
  ASSUME NEW g, Safe(g)
  PROVE  Decided(g)
<1>1. CASE g.phase = "game-over"
  BY <1>1 DEF Safe, PlayersFit, Decided
<1>2. CASE g.phase # "game-over"
  <2> DEFINE active == Player \ g.eliminated
  <2>1. \E p, q \in active : p # q
    BY <1>2 DEF Safe, PlayersFit, TwoHidden, Hidden
  <2>2. active \in SUBSET Player
    OBVIOUS
  <2> HIDE DEF active
  <2>3. Cardinality(active) \in Nat /\ ~ (Cardinality(active) <= 1)
    BY <2>1, <2>2, OneOrTwo
  <2>4. Cardinality(active) >= 2
    BY <2>3
  <2> QED
    BY <1>2, <2>4 DEF active, Decided, Safe, PlayersFit
<1> QED
  BY <1>1, <1>2

\* The match is over exactly when one player is left, and that player wins.
THEOREM LastPlayerWins == Spec => []LastActivePlayerWins
<1>1. Safe(game) => LastActivePlayerWins
  BY SafeDecided DEF LastActivePlayerWins
<1> QED
  BY <1>1, MatchIsSafe, PTL

\* A card is on the table exactly in the phases that resolve it, and face
\* down until a wrong guess turns it.
THEOREM DrawnCardFitsPhase == Spec => []DrawnCardMatchesPhase
<1>1. Safe(game) => DrawnCardMatchesPhase
  BY DEF Safe, PhaseFits, DrawnCardMatchesPhase
<1> QED
  BY <1>1, MatchIsSafe, PTL

\* The active player always has a legal move, so a turn is never stuck.
THEOREM NoTurnIsStuck == Spec => []CurrentPlayerCanMove
<1>1. Safe(game) => CurrentPlayerCanMove
  <2> SUFFICES ASSUME Safe(game), game.phase # "game-over"
               PROVE  LET p == game.current
                      IN  /\ p \notin game.eliminated
                          /\ CASE game.phase = "draw" -> game.drawPile # <<>>
                               [] game.phase = "guess" ->
                                    \E q \in Player, card \in Card : GuessTarget(p, q, card)
                               [] game.phase \in {"place", "penalty-place"} ->
                                    ValidInsertionIndexes(game.rack[p], game.pendingDraw) # {}
                               [] game.phase = "self-penalty" ->
                                    ToSet(game.rack[p]) \ game.revealed # {}
                               [] OTHER -> HasPendingStartingJokerPlacements(game)
    BY DEF CurrentPlayerCanMove
  <2> DEFINE p == game.current
  <2>0. game \in GameState /\ CardsFit(game) /\ PlayersFit(game) /\ PhaseFits(game)
    BY DEF Safe
  <2>1. p \in Player /\ p \notin game.eliminated
    BY <2>0, StateParts DEF PlayersFit, Hidden
  <2>2. \A q \in Player : Hidden(game, q) => ToSet(game.rack[q]) \ game.revealed # {}
    BY <2>0 DEF CardsFit, Hidden, AllRevealed
  <2>3. \E q \in Player, card \in Card : GuessTarget(p, q, card)
    <3>1. PICK q \in Player : q # p /\ Hidden(game, q)
      BY <2>0, AnotherHidden DEF PlayersFit
    <3>2. PICK card \in ToSet(game.rack[q]) : card \notin game.revealed
      BY <2>2, <3>1
    <3>3. card \in Card /\ q \notin game.eliminated
      BY <2>0, <3>1, RackCard DEF PlayersFit, Hidden
    <3> QED
      BY <3>1, <3>2, <3>3 DEF GuessTarget
  <2>4. game.phase \in {"place", "penalty-place"} =>
          ValidInsertionIndexes(game.rack[p], game.pendingDraw) # {}
    <3> SUFFICES ASSUME game.phase \in {"place", "penalty-place"}
                 PROVE  ValidInsertionIndexes(game.rack[p], game.pendingDraw) # {}
      OBVIOUS
    <3>1. game.pendingDraw \in Card /\ game.rack[p] \in Seq(Card) /\ IsValidRackOrder(game.rack[p])
      BY <2>0, <2>1, StateParts DEF PhaseFits, DrawFits, CardsFit, Ordered
    <3> QED
      BY <3>1, LegalSlot
  <2>5. ToSet(game.rack[p]) \ game.revealed # {}
    BY <2>0, <2>1, <2>2 DEF PlayersFit
  <2>6. game.phase = "draw" => game.drawPile # <<>>
    BY <2>0 DEF PhaseFits
  <2>7. game.phase = "starter-place" => HasPendingStartingJokerPlacements(game)
    BY <2>0 DEF PhaseFits
  <2>8. game.phase \in TurnPhase
    BY <2>0 DEF GameState
  <2> HIDE DEF p
  <2>9. CASE game.phase = "draw"
    BY <2>1, <2>6, <2>9 DEF p
  <2>10. CASE game.phase = "guess"
    BY <2>1, <2>3, <2>10 DEF p
  <2>11. CASE game.phase \in {"place", "penalty-place"}
    BY <2>1, <2>4, <2>11 DEF p
  <2>12. CASE game.phase = "self-penalty"
    BY <2>1, <2>5, <2>12 DEF p
  <2>13. CASE game.phase = "starter-place"
    BY <2>1, <2>7, <2>13 DEF p
  <2> QED
    BY <2>8, <2>9, <2>10, <2>11, <2>12, <2>13 DEF TurnPhase
<1> QED
  BY <1>1, MatchIsSafe, PTL

\* Turn one starts exactly when the opening Jokers are placed, and only
\* players still in have Jokers to place.
THEOREM OpeningIsPlacedFirst == Spec => []OpeningJokersGateTheFirstTurn
<1>1. Safe(game) => OpeningJokersGateTheFirstTurn
  BY DEF Safe, CardsFit, PlayersFit, PhaseFits, Hidden, GameState,
         HasPendingStartingJokerPlacements, OpeningJokersGateTheFirstTurn
<1> QED
  BY <1>1, MatchIsSafe, PTL
=============================================================================
