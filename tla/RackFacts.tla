------------------------------ MODULE RackFacts ------------------------------
(***************************************************************************)
(* What the helpers of Racks return, proved once for every rack: filtering *)
(* and sorting keep the cards, an inserted card joins them, and an ordered *)
(* rack has a legal slot for every card.                                   *)
(***************************************************************************)
EXTENDS Racks, FiniteSetTheorems, FunctionTheorems, SequenceTheorems, TLAPS

-----------------------------------------------------------------------------
(***************************************************************************)
(* Numbers and sequences.                                                  *)
(***************************************************************************)
\* A function on 1..n is a sequence of length n.
LEMMA FunctionIsSeq ==
  ASSUME NEW S, NEW n \in Nat, NEW f \in [1..n -> S]
  PROVE  f \in Seq(S) /\ Len(f) = n /\ DOMAIN f = 1..n
<1>1. f \in Seq(S)
  BY SeqDef
<1>2. DOMAIN f = 1..Len(f) /\ Len(f) \in Nat /\ DOMAIN f = 1..n
  BY <1>1, LenProperties
<1>3. Len(f) = n
  <2>1. CASE n < Len(f)
    BY <1>2, <2>1
  <2>2. CASE Len(f) < n
    BY <1>2, <2>2
  <2> QED
    BY <1>2, <2>1, <2>2
<1> QED
  BY <1>1, <1>2, <1>3

\* A set of naturals has a least element.
LEMMA LeastElement ==
  ASSUME NEW T \in SUBSET Nat, T # {}
  PROVE  \E n \in T : \A m \in T : n <= m
<1>1. PICK n \in T : \A m \in T : ~ (<<m, n>> \in OpToRel(<, Nat))
  BY NatLessThanWellFounded, WFMin
<1>2. \A m \in T : ~ (m < n)
  BY <1>1 DEF OpToRel
<1> QED
  BY <1>2

\* below orders S: below[x] are the elements up to x.
Orders(below, S) ==
  /\ below \in [S -> SUBSET S]
  /\ \A x \in S : x \in below[x]
  /\ \A x, y \in S : x \in below[y] => \A z \in below[x] : z \in below[y]
  /\ \A x, y \in S : x \in below[y] /\ y \in below[x] => x = y
  /\ \A x, y \in S : x \in below[y] \/ y \in below[x]

\* Counting below[x] numbers the elements of S from 1, each once and in order.
Numbers(below, S) ==
  /\ Cardinality(S) \in Nat
  /\ \A x \in S : Cardinality(below[x]) \in 1..Cardinality(S)
  /\ \A x, y \in S : x \in below[y] /\ x # y =>
        Cardinality(below[x]) < Cardinality(below[y])
  /\ \A x, y \in S : Cardinality(below[x]) = Cardinality(below[y]) => x = y
  /\ \A k \in 1..Cardinality(S) : \E x \in S : Cardinality(below[x]) = k

\* An order on a finite set numbers it.
LEMMA Rank ==
  ASSUME NEW S, IsFiniteSet(S), NEW below, Orders(below, S)
  PROVE  Numbers(below, S)
<1> USE DEF Orders
<1> DEFINE rank == [x \in S |-> Cardinality(below[x])]
<1>0. Cardinality(S) \in Nat
  BY FS_CardinalityType
<1>1. \A x \in S : IsFiniteSet(below[x]) /\ Cardinality(below[x]) \in 1..Cardinality(S)
  <2> SUFFICES ASSUME NEW x \in S
               PROVE  IsFiniteSet(below[x]) /\ Cardinality(below[x]) \in 1..Cardinality(S)
    OBVIOUS
  <2>1. below[x] \in SUBSET S /\ x \in below[x]
    OBVIOUS
  <2>2. IsFiniteSet(below[x]) /\ Cardinality(below[x]) <= Cardinality(S)
    BY <2>1, FS_Subset
  <2>3. Cardinality(below[x]) \in Nat /\ Cardinality(below[x]) # 0
    BY <2>1, <2>2, FS_CardinalityType, FS_EmptySet
  <2> QED
    BY <1>0, <2>2, <2>3
<1>2. \A x, y \in S : x \in below[y] /\ x # y =>
         Cardinality(below[x]) < Cardinality(below[y])
  <2> SUFFICES ASSUME NEW x \in S, NEW y \in S, x \in below[y], x # y
               PROVE  Cardinality(below[x]) < Cardinality(below[y])
    OBVIOUS
  <2>1. below[x] \in SUBSET below[y] /\ y \in below[y] /\ y \notin below[x]
    OBVIOUS
  <2>2. Cardinality(below[x]) <= Cardinality(below[y])
        /\ (Cardinality(below[y]) = Cardinality(below[x]) => below[y] = below[x])
    BY <1>1, <2>1, FS_Subset
  <2>3. Cardinality(below[x]) \in Int /\ Cardinality(below[y]) \in Int
    BY <1>0, <1>1
  <2> QED
    BY <2>1, <2>2, <2>3
<1>3. \A x, y \in S : Cardinality(below[x]) = Cardinality(below[y]) => x = y
  <2> SUFFICES ASSUME NEW x \in S, NEW y \in S, x # y
               PROVE  Cardinality(below[x]) # Cardinality(below[y])
    OBVIOUS
  <2>1. Cardinality(below[x]) \in Int /\ Cardinality(below[y]) \in Int
    BY <1>0, <1>1
  <2>2. \/ Cardinality(below[x]) < Cardinality(below[y])
        \/ Cardinality(below[y]) < Cardinality(below[x])
    BY <1>2
  <2> QED
    BY <2>1, <2>2
<1>4. \A k \in 1..Cardinality(S) : \E x \in S : Cardinality(below[x]) = k
  <2>1. rank \in Injection(S, 1..Cardinality(S))
    BY <1>1, <1>3 DEF Injection, IsInjective
  <2>2. IsFiniteSet(1..Cardinality(S)) /\ Cardinality(1..Cardinality(S)) = Cardinality(S)
    BY <1>0, FS_Interval
  <2>3. rank \in Surjection(S, 1..Cardinality(S))
    BY <2>1, <2>2, FS_Injection
  <2> QED
    BY <2>3 DEF Surjection
<1> QED
  BY <1>0, <1>1, <1>2, <1>3, <1>4 DEF Numbers

\* Nth(I, k) is the k-th index of I.
LEMMA NthIndex ==
  ASSUME NEW I \in SUBSET Nat, IsFiniteSet(I)
  PROVE  /\ Cardinality(I) \in Nat
         /\ \A i \in I : /\ Cardinality(UpTo(I, i)) \in 1..Cardinality(I)
                         /\ Nth(I, Cardinality(UpTo(I, i))) = i
         /\ \A k \in 1..Cardinality(I) : /\ Nth(I, k) \in I
                                         /\ Cardinality(UpTo(I, Nth(I, k))) = k
         /\ \A i, j \in I : i < j => Cardinality(UpTo(I, i)) < Cardinality(UpTo(I, j))
         /\ \A k, l \in 1..Cardinality(I) : k < l => Nth(I, k) < Nth(I, l)
<1> DEFINE below == [i \in I |-> UpTo(I, i)]
<1>1. Orders(below, I)
  <2>1. \A x \in I : UpTo(I, x) \in SUBSET I /\ \A y \in I : y \in UpTo(I, x) <=> y <= x
    BY DEF UpTo
  <2>2. below \in [I -> SUBSET I]
    BY <2>1
  <2>3. \A x, y \in I : y \in below[x] <=> y <= x
    BY <2>1
  <2>4. \A x \in I : x \in Nat
    OBVIOUS
  <2> HIDE DEF below
  <2>5. \A x, y \in I : x \in below[y] => \A z \in below[x] : z \in below[y]
    BY <2>2, <2>3, <2>4
  <2>6. \A x, y \in I : x \in below[y] \/ y \in below[x]
    <3> SUFFICES ASSUME NEW x \in I, NEW y \in I
                 PROVE  x \in below[y] \/ y \in below[x]
      OBVIOUS
    <3>1. x <= y \/ y <= x
      BY <2>4
    <3> QED
      BY <2>3, <3>1
  <2> QED
    BY <2>2, <2>3, <2>4, <2>5, <2>6 DEF Orders
<1>2. \A i \in I : below[i] = UpTo(I, i)
  OBVIOUS
<1>3. \A i, j \in I : i < j => i \in below[j] /\ i # j
  BY DEF UpTo
<1> HIDE DEF below
<1>4. Numbers(below, I)
  BY <1>1, Rank
<1>5. /\ Cardinality(I) \in Nat
      /\ \A x \in I : Cardinality(UpTo(I, x)) \in 1..Cardinality(I)
      /\ \A x, y \in I : x < y => Cardinality(UpTo(I, x)) < Cardinality(UpTo(I, y))
      /\ \A x, y \in I : Cardinality(UpTo(I, x)) = Cardinality(UpTo(I, y)) => x = y
      /\ \A k \in 1..Cardinality(I) : \E x \in I : Cardinality(UpTo(I, x)) = k
  BY <1>2, <1>3, <1>4 DEF Numbers
<1>6. \A k \in 1..Cardinality(I) : Nth(I, k) \in I /\ Cardinality(UpTo(I, Nth(I, k))) = k
  <2> SUFFICES ASSUME NEW k \in 1..Cardinality(I)
               PROVE  Nth(I, k) \in I /\ Cardinality(UpTo(I, Nth(I, k))) = k
    OBVIOUS
  <2>1. \E i \in I : Cardinality(UpTo(I, i)) = k
    BY <1>5
  <2> QED
    BY <2>1 DEF Nth
<1>7. \A i \in I : Nth(I, Cardinality(UpTo(I, i))) = i
  BY <1>5, <1>6
<1>8. \A k, l \in 1..Cardinality(I) : k < l => Nth(I, k) < Nth(I, l)
  <2> SUFFICES ASSUME NEW k \in 1..Cardinality(I), NEW l \in 1..Cardinality(I), k < l,
                      ~ (Nth(I, k) < Nth(I, l))
               PROVE  FALSE
    OBVIOUS
  <2> DEFINE a == Nth(I, k)
             b == Nth(I, l)
  <2>1. /\ a \in I /\ Cardinality(UpTo(I, a)) = k
        /\ b \in I /\ Cardinality(UpTo(I, b)) = l
    BY <1>6
  <2>2. ~ (a < b)
    OBVIOUS
  <2> HIDE DEF a, b
  <2>3. b = a \/ b < a
    BY <2>1, <2>2
  <2>4. l <= k
    BY <1>5, <2>1, <2>3
  <2> QED
    BY <1>5, <2>4
<1> QED
  BY <1>5, <1>6, <1>7, <1>8

\* The positions of a set in a sequence are finitely many indices.
LEMMA PositionsFinite ==
  ASSUME NEW T, NEW s \in Seq(T), NEW S
  PROVE  /\ Positions(s, S) \in SUBSET (1..Len(s))
         /\ Positions(s, S) \in SUBSET Nat
         /\ IsFiniteSet(Positions(s, S))
<1>1. DOMAIN s = 1..Len(s) /\ Len(s) \in Nat
  BY LenProperties
<1>2. Positions(s, S) \in SUBSET (1..Len(s))
  BY <1>1 DEF Positions
<1>3. IsFiniteSet(1..Len(s))
  BY <1>1, FS_Interval
<1> QED
  BY <1>1, <1>2, <1>3, FS_Subset

-----------------------------------------------------------------------------
(***************************************************************************)
(* Filter keeps the elements of s that are in S, and their number.         *)
(***************************************************************************)
\* Filtering a rack keeps exactly its cards of S, each as often as before.
LEMMA FilterFacts ==
  ASSUME NEW T, NEW s \in Seq(T), NEW S
  PROVE  /\ Filter(s, S) \in Seq(T)
         /\ ToSet(Filter(s, S)) = ToSet(s) \cap S
         /\ IsInjective(s) => IsInjective(Filter(s, S))
<1> DEFINE I == Positions(s, S)
           n == Cardinality(I)
           f == [k \in 1..n |-> s[Nth(I, k)]]
<1>0. DOMAIN s = 1..Len(s) /\ Len(s) \in Nat /\ s \in [1..Len(s) -> T]
  BY LenProperties
<1>1. I \in SUBSET (1..Len(s)) /\ I \in SUBSET Nat /\ IsFiniteSet(I)
  BY PositionsFinite
<1>2. /\ n \in Nat
      /\ \A i \in I : Cardinality(UpTo(I, i)) \in 1..n /\ Nth(I, Cardinality(UpTo(I, i))) = i
      /\ \A k \in 1..n : Nth(I, k) \in I /\ Cardinality(UpTo(I, Nth(I, k))) = k
  BY <1>1, NthIndex
<1>3. \A i \in DOMAIN s : i \in I <=> s[i] \in S
  BY DEF Positions
<1>4. Filter(s, S) = f
  BY DEF Filter
<1> HIDE DEF I, n
<1>5. f \in [1..n -> T]
  BY <1>0, <1>1, <1>2
<1>6. f \in Seq(T) /\ DOMAIN f = 1..n
  BY <1>2, <1>5, FunctionIsSeq
<1>7. ToSet(f) = ToSet(s) \cap S
  <2>1. \A k \in 1..n : f[k] \in ToSet(s) \cap S
    BY <1>0, <1>1, <1>2, <1>3 DEF ToSet
  <2>2. \A i \in DOMAIN s : s[i] \in S => \E k \in 1..n : f[k] = s[i]
    <3> SUFFICES ASSUME NEW i \in DOMAIN s, s[i] \in S
                 PROVE  \E k \in 1..n : f[k] = s[i]
      OBVIOUS
    <3>1. i \in I
      BY <1>3
    <3>2. Cardinality(UpTo(I, i)) \in 1..n /\ f[Cardinality(UpTo(I, i))] = s[i]
      BY <1>2, <3>1
    <3> QED
      BY <3>2
  <2> QED
    BY <1>6, <2>1, <2>2 DEF ToSet
<1>8. ASSUME IsInjective(s)
      PROVE  IsInjective(f)
  <2> SUFFICES ASSUME NEW k \in 1..n, NEW l \in 1..n, f[k] = f[l]
               PROVE  k = l
    BY <1>6 DEF IsInjective
  <2>1. Nth(I, k) = Nth(I, l)
    BY <1>0, <1>1, <1>2, <1>8 DEF IsInjective
  <2> QED
    BY <1>2, <2>1
<1> QED
  BY <1>4, <1>6, <1>7, <1>8

-----------------------------------------------------------------------------
(***************************************************************************)
(* Sorting moves the standard cards among their positions: the rack keeps  *)
(* its cards and becomes legal.                                            *)
(***************************************************************************)
\* The positions of the standard cards, counted by key and then by position.
LEMMA SortNumbers ==
  ASSUME NEW rack \in Seq(Card)
  PROVE  LET I == Positions(rack, Standard)
         IN  Numbers([i \in I |-> SortsUpTo(rack, i)], I)
<1> DEFINE I == Positions(rack, Standard)
           below == [i \in I |-> SortsUpTo(rack, i)]
           key(i) == Value[rack[i]]
<1>1. I \in SUBSET Nat /\ IsFiniteSet(I)
  BY PositionsFinite
<1>2. \A i \in I : key(i) \in Nat
  BY CardsAssumption DEF Positions
<1>3. \A i \in I : below[i] = {j \in I : key(j) < key(i) \/ (key(j) = key(i) /\ j <= i)}
  BY DEF SortsUpTo
<1>4. below \in [I -> SUBSET I]
  BY <1>3
<1> HIDE DEF I, below, key
<1>5. \A i, j \in I : j \in below[i] <=> key(j) < key(i) \/ (key(j) = key(i) /\ j <= i)
  BY <1>3
<1>6. \A i \in I : i \in below[i]
  BY <1>1, <1>2, <1>5
<1>7. \A i, j \in I : i \in below[j] => \A m \in below[i] : m \in below[j]
  <2> SUFFICES ASSUME NEW i \in I, NEW j \in I, i \in below[j], NEW m \in below[i]
               PROVE  m \in below[j]
    OBVIOUS
  <2>1. m \in I
    BY <1>4
  <2>2. i \in Nat /\ j \in Nat /\ m \in Nat
    BY <1>1, <2>1
  <2>3. key(i) \in Nat /\ key(j) \in Nat /\ key(m) \in Nat
    BY <1>2, <2>1
  <2> QED
    BY <1>5, <2>1, <2>2, <2>3
<1>8. \A i, j \in I : i \in below[j] /\ j \in below[i] => i = j
  <2> SUFFICES ASSUME NEW i \in I, NEW j \in I, i \in below[j], j \in below[i]
               PROVE  i = j
    OBVIOUS
  <2> QED
    BY <1>1, <1>2, <1>5
<1>9. \A i, j \in I : i \in below[j] \/ j \in below[i]
  <2> SUFFICES ASSUME NEW i \in I, NEW j \in I
               PROVE  i \in below[j] \/ j \in below[i]
    OBVIOUS
  <2>1. key(i) < key(j) \/ key(j) < key(i) \/ (key(i) = key(j) /\ (i <= j \/ j <= i))
    BY <1>1, <1>2
  <2> QED
    BY <1>5, <2>1
<1>10. Orders(below, I)
  BY <1>4, <1>6, <1>7, <1>8, <1>9 DEF Orders
<1> QED
  BY <1>1, <1>10, Rank DEF I, below

\* The permutation that sorting applies to the positions of a rack.
SortedFrom(rack) ==
  LET I == Positions(rack, Standard)
  IN  [i \in DOMAIN rack |->
         IF i \in I THEN NthSorted(rack, Cardinality(UpTo(I, i))) ELSE i]

\* Sorting takes each position's card from one position, standard to standard.
LEMMA SortPermutes ==
  ASSUME NEW rack \in Seq(Card)
  PROVE  LET I == Positions(rack, Standard)
         IN  /\ SortedFrom(rack) \in [DOMAIN rack -> DOMAIN rack]
             /\ \A i \in DOMAIN rack : SortedFrom(rack)[i] \in I <=> i \in I
             /\ \A i, j \in DOMAIN rack : SortedFrom(rack)[i] = SortedFrom(rack)[j] => i = j
             /\ \A m \in DOMAIN rack : \E i \in DOMAIN rack : SortedFrom(rack)[i] = m
             /\ \A i, j \in I : i < j =>
                   Value[rack[SortedFrom(rack)[i]]] <= Value[rack[SortedFrom(rack)[j]]]
<1> DEFINE I == Positions(rack, Standard)
           n == Cardinality(I)
           place(i) == Cardinality(UpTo(I, i))
           count(i) == Cardinality(SortsUpTo(rack, i))
           from(i) == SortedFrom(rack)[i]
<1>1. I \in SUBSET DOMAIN rack /\ I \in SUBSET Nat /\ IsFiniteSet(I)
  BY PositionsFinite DEF Positions
<1>2. /\ n \in Nat
      /\ \A i \in I : place(i) \in 1..n
      /\ \A i, j \in I : i < j => place(i) < place(j)
      /\ \A k \in 1..n : \E i \in I : place(i) = k
  BY <1>1, NthIndex
<1>3. Numbers([i \in I |-> SortsUpTo(rack, i)], I)
  BY SortNumbers
<1>4. /\ \A i \in I : count(i) \in 1..n
      /\ \A i, j \in I : i \in SortsUpTo(rack, j) /\ i # j => count(i) < count(j)
      /\ \A i, j \in I : count(i) = count(j) => i = j
      /\ \A k \in 1..n : \E i \in I : count(i) = k
  BY <1>3 DEF Numbers
<1>5. \A k \in 1..n : NthSorted(rack, k) \in I /\ count(NthSorted(rack, k)) = k
  <2> SUFFICES ASSUME NEW k \in 1..n
               PROVE  NthSorted(rack, k) \in I /\ count(NthSorted(rack, k)) = k
    OBVIOUS
  <2>1. \E i \in I : Cardinality(SortsUpTo(rack, i)) = k
    BY <1>4
  <2> QED
    BY <2>1 DEF NthSorted
<1>6. \A i \in DOMAIN rack :
         from(i) = IF i \in I THEN NthSorted(rack, place(i)) ELSE i
  BY DEF SortedFrom
<1>7. SortedFrom(rack) = [i \in DOMAIN rack |-> from(i)]
  BY DEF SortedFrom
<1>8. \A i \in I : Value[rack[i]] \in Nat
  BY CardsAssumption DEF Positions
<1>9. \A i, j \in I : Value[rack[i]] > Value[rack[j]] => j \in SortsUpTo(rack, i) /\ j # i
  BY <1>8 DEF SortsUpTo
<1> HIDE DEF I, n, place, count, from
<1>10. \A i \in I : from(i) \in I /\ count(from(i)) = place(i)
  BY <1>1, <1>2, <1>5, <1>6
<1>11. \A i \in DOMAIN rack \ I : from(i) = i
  BY <1>6
<1>12. SortedFrom(rack) \in [DOMAIN rack -> DOMAIN rack]
  BY <1>1, <1>7, <1>10, <1>11
<1>13. \A i \in DOMAIN rack : from(i) \in I <=> i \in I
  BY <1>10, <1>11
<1>14. \A i, j \in I : from(i) = from(j) => i = j
  <2> SUFFICES ASSUME NEW i \in I, NEW j \in I, from(i) = from(j)
               PROVE  i = j
    OBVIOUS
  <2>1. place(i) = place(j)
    BY <1>10
  <2>2. i \in Nat /\ j \in Nat /\ place(i) \in Nat /\ place(j) \in Nat
    BY <1>1, <1>2
  <2>3. i < j \/ j < i \/ i = j
    BY <2>2
  <2> QED
    BY <1>2, <2>1, <2>2, <2>3
<1>15. \A i, j \in DOMAIN rack : from(i) = from(j) => i = j
  BY <1>11, <1>13, <1>14
<1>16. \A m \in DOMAIN rack : \E i \in DOMAIN rack : from(i) = m
  <2> SUFFICES ASSUME NEW m \in DOMAIN rack
               PROVE  \E i \in DOMAIN rack : from(i) = m
    OBVIOUS
  <2>1. CASE m \notin I
    BY <1>11, <2>1
  <2>2. CASE m \in I
    <3>1. PICK i \in I : place(i) = count(m)
      BY <1>2, <1>4, <2>2
    <3>2. from(i) = m
      BY <1>4, <1>10, <2>2, <3>1
    <3> QED
      BY <1>1, <3>2
  <2> QED
    BY <2>1, <2>2
<1>17. \A i, j \in I : i < j => Value[rack[from(i)]] <= Value[rack[from(j)]]
  <2> SUFFICES ASSUME NEW i \in I, NEW j \in I, i < j,
                      ~ (Value[rack[from(i)]] <= Value[rack[from(j)]])
               PROVE  FALSE
    OBVIOUS
  <2>1. Value[rack[from(i)]] \in Nat /\ Value[rack[from(j)]] \in Nat
    BY <1>8, <1>10
  <2>2. Value[rack[from(i)]] > Value[rack[from(j)]]
    BY <2>1
  <2>3. count(from(j)) < count(from(i))
    BY <1>4, <1>9, <1>10, <2>2
  <2>4. place(j) < place(i) /\ place(i) < place(j)
    BY <1>2, <1>10, <2>3
  <2>5. place(i) \in Nat /\ place(j) \in Nat
    BY <1>2
  <2> QED
    BY <2>4, <2>5
<1> QED
  BY <1>12, <1>13, <1>15, <1>16, <1>17 DEF I, from

\* Sorting a rack keeps its cards and puts the standard ones in order.
LEMMA SortFacts ==
  ASSUME NEW rack \in Seq(Card)
  PROVE  /\ SortRackKeepingJokers(rack) \in Seq(Card)
         /\ Len(SortRackKeepingJokers(rack)) = Len(rack)
         /\ ToSet(SortRackKeepingJokers(rack)) = ToSet(rack)
         /\ IsInjective(rack) => IsInjective(SortRackKeepingJokers(rack))
         /\ IsValidRackOrder(SortRackKeepingJokers(rack))
<1> DEFINE I == Positions(rack, Standard)
           sorted == SortRackKeepingJokers(rack)
           p == SortedFrom(rack)
<1>0. DOMAIN rack = 1..Len(rack) /\ Len(rack) \in Nat /\ rack \in [1..Len(rack) -> Card]
  BY LenProperties
<1>1. /\ p \in [DOMAIN rack -> DOMAIN rack]
      /\ \A i \in DOMAIN rack : p[i] \in I <=> i \in I
      /\ \A i, j \in DOMAIN rack : p[i] = p[j] => i = j
      /\ \A m \in DOMAIN rack : \E i \in DOMAIN rack : p[i] = m
      /\ \A i, j \in I : i < j => Value[rack[p[i]]] <= Value[rack[p[j]]]
  BY SortPermutes
<1>2. sorted = [i \in DOMAIN rack |-> rack[p[i]]]
  BY DEF SortRackKeepingJokers, SortedFrom
<1>3. \A i \in DOMAIN rack : i \in I <=> rack[i] \in Standard
  BY DEF Positions
<1> HIDE DEF I, sorted, p
<1>4. sorted \in [1..Len(rack) -> Card]
  BY <1>0, <1>1, <1>2
<1>5. sorted \in Seq(Card) /\ Len(sorted) = Len(rack) /\ DOMAIN sorted = DOMAIN rack
  BY <1>0, <1>4, FunctionIsSeq
<1>6. ToSet(sorted) = ToSet(rack)
  BY <1>1, <1>2, <1>5 DEF ToSet
<1>7. IsInjective(rack) => IsInjective(sorted)
  BY <1>1, <1>2, <1>5 DEF IsInjective
<1>8. Positions(sorted, Standard) = I
  <2>1. \A i \in DOMAIN rack : sorted[i] \in Standard <=> i \in I
    BY <1>1, <1>2, <1>3
  <2>2. I \in SUBSET DOMAIN rack
    BY DEF I, Positions
  <2> QED
    BY <1>5, <2>1, <2>2 DEF Positions
<1>9. IsValidRackOrder(sorted)
  <2>1. \A i \in I : sorted[i] = rack[p[i]]
    BY <1>2 DEF I, Positions
  <2> SUFFICES ASSUME NEW i \in I, NEW j \in I, i < j
               PROVE  Value[sorted[i]] <= Value[sorted[j]]
    BY <1>8 DEF IsValidRackOrder
  <2>2. Value[rack[p[i]]] <= Value[rack[p[j]]]
    BY <1>1
  <2> QED
    BY <2>1, <2>2
<1> QED
  BY <1>5, <1>6, <1>7, <1>9 DEF sorted

-----------------------------------------------------------------------------
(***************************************************************************)
(* A card inserted at an index joins the cards of the rack.                *)
(***************************************************************************)
\* Where the cards of a rack are after an insertion.
LEMMA InsertShape ==
  ASSUME NEW rack \in Seq(Card), NEW card \in Card, NEW index \in 0..Len(rack)
  PROVE  LET new == InsertCard(rack, card, index)
         IN  /\ new \in Seq(Card)
             /\ Len(new) = Len(rack) + 1
             /\ DOMAIN new = 1..(Len(rack) + 1)
             /\ \A i \in 1..index : new[i] = rack[i]
             /\ new[index + 1] = card
             /\ \A i \in (index + 2)..(Len(rack) + 1) : new[i] = rack[i - 1]
<1> DEFINE n == Len(rack)
           left == SubSeq(rack, 1, index)
           right == SubSeq(rack, index + 1, n)
           new == InsertCard(rack, card, index)
<1>0. n \in Nat /\ index \in Nat /\ index <= n /\ \A i \in 1..n : rack[i] \in Card
  BY LenProperties, ElementOfSeq
<1>1. /\ left \in Seq(Card) /\ Len(left) = index
      /\ \A i \in 1..index : left[i] = rack[i]
  <2>1. \A i \in 1..index : rack[i] \in Card
    BY <1>0
  <2>2. /\ left \in Seq(Card)
        /\ Len(left) = IF 1 <= index THEN index - 1 + 1 ELSE 0
        /\ \A i \in 1..(index - 1 + 1) : left[i] = rack[1 + i - 1]
    BY <1>0, <2>1, SubSeqProperties
  <2> QED
    BY <1>0, <2>2
<1>2. /\ right \in Seq(Card) /\ Len(right) = n - index
      /\ \A i \in 1..(n - index) : right[i] = rack[index + i]
  <2>1. \A i \in (index + 1)..n : rack[i] \in Card
    BY <1>0
  <2>2. /\ right \in Seq(Card)
        /\ Len(right) = IF index + 1 <= n THEN n - (index + 1) + 1 ELSE 0
        /\ \A i \in 1..(n - (index + 1) + 1) : right[i] = rack[(index + 1) + i - 1]
    BY <1>0, <2>1, SubSeqProperties
  <2> QED
    BY <1>0, <2>2
<1>3. new = (left \o <<card>>) \o right
  <2>1. new = (SubSeq(rack, 1, (index + 1) - 1) \o <<card>>) \o right
    BY DEF InsertCard, InsertAt
  <2>2. (index + 1) - 1 = index
    BY <1>0
  <2> QED
    BY <2>1, <2>2
<1>4. <<card>> \in Seq(Card) /\ Len(<<card>>) = 1 /\ <<card>>[1] = card
  OBVIOUS
<1> HIDE DEF left, right, new, n
<1>5. /\ left \o <<card>> \in Seq(Card)
      /\ Len(left \o <<card>>) = index + 1
      /\ \A i \in 1..index : (left \o <<card>>)[i] = rack[i]
      /\ (left \o <<card>>)[index + 1] = card
  <2>1. /\ left \o <<card>> \in Seq(Card)
        /\ Len(left \o <<card>>) = Len(left) + Len(<<card>>)
        /\ \A i \in 1..(Len(left) + Len(<<card>>)) : (left \o <<card>>)[i] =
              IF i <= Len(left) THEN left[i] ELSE <<card>>[i - Len(left)]
    BY <1>1, <1>4, ConcatProperties
  <2> QED
    BY <1>0, <1>1, <1>4, <2>1
<1>6. /\ new \in Seq(Card)
      /\ Len(new) = Len(left \o <<card>>) + Len(right)
      /\ \A i \in 1..(Len(left \o <<card>>) + Len(right)) : new[i] =
            IF i <= Len(left \o <<card>>) THEN (left \o <<card>>)[i]
            ELSE right[i - Len(left \o <<card>>)]
  BY <1>2, <1>3, <1>5, ConcatProperties
<1>7. Len(new) = n + 1 /\ DOMAIN new = 1..(n + 1)
  BY <1>0, <1>2, <1>5, <1>6, LenProperties
<1>7a. \A i \in 1..(n + 1) : new[i] = IF i <= index + 1 THEN (left \o <<card>>)[i]
                                      ELSE right[i - (index + 1)]
  <2>1. Len(left \o <<card>>) = index + 1 /\ Len(right) = n - index
    BY <1>2, <1>5
  <2>2. (index + 1) + (n - index) = n + 1
    BY <1>0
  <2> QED
    BY <1>6, <2>1, <2>2
<1>8. \A i \in 1..index : new[i] = rack[i]
  <2> SUFFICES ASSUME NEW i \in 1..index
               PROVE  new[i] = rack[i]
    OBVIOUS
  <2>1. i \in 1..(n + 1) /\ i <= index + 1
    BY <1>0
  <2> QED
    BY <1>5, <1>7a, <2>1
<1>9. new[index + 1] = card
  BY <1>0, <1>5, <1>7a
<1>10. \A i \in (index + 2)..(n + 1) : new[i] = rack[i - 1]
  <2> SUFFICES ASSUME NEW i \in (index + 2)..(n + 1)
               PROVE  new[i] = rack[i - 1]
    OBVIOUS
  <2>1. new[i] = right[i - (index + 1)]
    <3>1. i \in 1..(n + 1) /\ ~ (i <= index + 1)
      BY <1>0
    <3> QED
      BY <1>7a, <3>1
  <2>2. i - (index + 1) \in 1..(n - index)
    BY <1>0
  <2>3. right[i - (index + 1)] = rack[index + (i - (index + 1))]
    BY <1>2, <2>2
  <2> QED
    BY <1>0, <2>1, <2>3
<1> QED
  BY <1>6, <1>7, <1>8, <1>9, <1>10 DEF n, new

\* After an insertion the rack holds its cards and the new one.
LEMMA InsertFacts ==
  ASSUME NEW rack \in Seq(Card), NEW card \in Card, NEW index \in 0..Len(rack)
  PROVE  LET new == InsertCard(rack, card, index)
         IN  /\ new \in Seq(Card)
             /\ ToSet(new) = ToSet(rack) \cup {card}
             /\ IsInjective(rack) /\ card \notin ToSet(rack) => IsInjective(new)
<1> DEFINE n == Len(rack)
           new == InsertCard(rack, card, index)
           back(i) == IF i <= index THEN i ELSE i - 1
<1>0. n \in Nat /\ index \in Nat /\ index <= n /\ DOMAIN rack = 1..n
  BY LenProperties
<1>1a. DOMAIN new = 1..(n + 1) /\ new[index + 1] = card
  BY InsertShape
<1>1b. \A i \in 1..index : new[i] = rack[i]
  BY InsertShape
<1>1c. \A i \in (index + 2)..(n + 1) : new[i] = rack[i - 1]
  BY InsertShape
<1>1d. new \in Seq(Card)
  BY InsertShape
<1>1. /\ new \in Seq(Card) /\ DOMAIN new = 1..(n + 1)
      /\ \A i \in 1..index : new[i] = rack[i]
      /\ new[index + 1] = card
      /\ \A i \in (index + 2)..(n + 1) : new[i] = rack[i - 1]
  BY <1>1a, <1>1b, <1>1c, <1>1d
<1> HIDE DEF new, n
<1>2. \A i \in 1..(n + 1) : i # index + 1 =>
         back(i) \in 1..n /\ new[i] = rack[back(i)]
  BY <1>0, <1>1
<1>3. \A i \in 1..n : \E j \in 1..(n + 1) : new[j] = rack[i]
  <2> SUFFICES ASSUME NEW i \in 1..n
               PROVE  \E j \in 1..(n + 1) : new[j] = rack[i]
    OBVIOUS
  <2>1. CASE i <= index
    BY <1>0, <1>1, <2>1
  <2>2. CASE i > index
    <3>1. i + 1 \in (index + 2)..(n + 1) /\ (i + 1) - 1 = i
      BY <1>0, <2>2
    <3>2. new[i + 1] = rack[i]
      BY <1>1, <3>1
    <3> QED
      BY <1>0, <3>1, <3>2
  <2> QED
    BY <1>0, <2>1, <2>2
<1>4. ToSet(new) = ToSet(rack) \cup {card}
  <2>1. \A i \in 1..(n + 1) : new[i] \in ToSet(rack) \cup {card}
    BY <1>0, <1>1, <1>2 DEF ToSet
  <2>2. card \in ToSet(new)
    BY <1>0, <1>1 DEF ToSet
  <2>3. ToSet(new) \subseteq ToSet(rack) \cup {card}
    BY <1>1, <2>1 DEF ToSet
  <2>4. ToSet(rack) \subseteq ToSet(new)
    <3> SUFFICES ASSUME NEW i \in 1..n
                 PROVE  rack[i] \in ToSet(new)
      BY <1>0 DEF ToSet
    <3>1. PICK j \in 1..(n + 1) : new[j] = rack[i]
      BY <1>3
    <3> QED
      BY <1>1, <3>1 DEF ToSet
  <2> QED
    BY <2>2, <2>3, <2>4
<1>5. ASSUME IsInjective(rack), card \notin ToSet(rack)
      PROVE  IsInjective(new)
  <2> SUFFICES ASSUME NEW i \in 1..(n + 1), NEW j \in 1..(n + 1), new[i] = new[j]
               PROVE  i = j
    BY <1>1 DEF IsInjective
  <2>1. \A k \in 1..n : rack[k] # card
    BY <1>0, <1>5 DEF ToSet
  <2>2. i = index + 1 <=> j = index + 1
    BY <1>1, <1>2, <2>1
  <2>3. i # index + 1 => back(i) = back(j)
    BY <1>0, <1>2, <1>5, <2>2 DEF IsInjective
  <2> QED
    BY <1>0, <2>2, <2>3
<1> QED
  BY <1>1, <1>4, <1>5 DEF new

\* A card between the smaller and the larger ones keeps the rack in order.
LEMMA InsertKeepsOrder ==
  ASSUME NEW rack \in Seq(Card), IsValidRackOrder(rack), NEW card \in Card,
         NEW index \in 0..Len(rack),
         card \in Standard =>
           \A j \in Positions(rack, Standard) :
              /\ j <= index => Value[rack[j]] <= Value[card]
              /\ j > index => Value[card] <= Value[rack[j]]
  PROVE  IsValidRackOrder(InsertCard(rack, card, index))
<1> DEFINE n == Len(rack)
           new == InsertCard(rack, card, index)
           back(i) == IF i <= index THEN i ELSE i - 1
<1>0. n \in Nat /\ index \in Nat /\ index <= n /\ DOMAIN rack = 1..n
  BY LenProperties
<1>1. /\ DOMAIN new = 1..(n + 1)
      /\ \A i \in 1..index : new[i] = rack[i]
      /\ new[index + 1] = card
      /\ \A i \in (index + 2)..(n + 1) : new[i] = rack[i - 1]
  BY InsertShape
<1> HIDE DEF new, n
<1>2. \A i \in 1..(n + 1) : i # index + 1 =>
         back(i) \in 1..n /\ new[i] = rack[back(i)]
  BY <1>0, <1>1
<1> SUFFICES ASSUME NEW i \in 1..(n + 1), NEW j \in 1..(n + 1),
                    new[i] \in Standard, new[j] \in Standard, i < j
             PROVE  Value[new[i]] <= Value[new[j]]
  BY <1>1 DEF new, IsValidRackOrder, Positions
<1>3. CASE i # index + 1 /\ j # index + 1
  <2>1. back(i) < back(j)
    BY <1>0, <1>3
  <2>2. back(i) \in Positions(rack, Standard) /\ back(j) \in Positions(rack, Standard)
    BY <1>0, <1>2, <1>3 DEF Positions
  <2> QED
    BY <1>2, <1>3, <2>1, <2>2 DEF IsValidRackOrder
<1>4. CASE i = index + 1
  <2>1. j # index + 1 /\ back(j) > index
    BY <1>0, <1>4
  <2>2. back(j) \in Positions(rack, Standard)
    BY <1>0, <1>2, <2>1 DEF Positions
  <2> QED
    BY <1>1, <1>2, <1>4, <2>1, <2>2
<1>5. CASE j = index + 1
  <2>1. i # index + 1 /\ back(i) <= index
    BY <1>0, <1>5
  <2>2. back(i) \in Positions(rack, Standard)
    BY <1>0, <1>2, <2>1 DEF Positions
  <2> QED
    BY <1>1, <1>2, <1>5, <2>1, <2>2
<1> QED
  BY <1>3, <1>4, <1>5

\* An ordered rack has a legal slot for every card, so placing is never stuck.
LEMMA LegalSlot ==
  ASSUME NEW rack \in Seq(Card), IsValidRackOrder(rack), NEW card \in Card
  PROVE  ValidInsertionIndexes(rack, card) # {}
<1> DEFINE n == Len(rack)
           I == Positions(rack, Standard)
           T == {i \in 0..n : \A j \in I : j > i => Value[card] <= Value[rack[j]]}
<1>0. n \in Nat /\ n \in 0..n /\ I \subseteq 1..n
  BY LenProperties DEF Positions
<1>1. CASE card \notin Standard
  BY <1>0, <1>1, InsertKeepsOrder DEF ValidInsertionIndexes
<1>2. CASE card \in Standard
  <2>0. \A j \in I : Value[rack[j]] \in Nat /\ j \in Nat
    BY <1>0, CardsAssumption DEF Positions
  <2>1. n \in T
    BY <1>0
  <2>2. PICK t \in T : \A m \in T : t <= m
    <3>1. T \in SUBSET Nat
      BY <1>0
    <3> HIDE DEF T
    <3> QED
      BY <2>1, <3>1, LeastElement
  <2>3. ASSUME NEW j \in I, j <= t
        PROVE  Value[rack[j]] <= Value[card]
    <3>1. Value[card] \in Nat /\ t \in 0..n /\ j \in 1..n
      BY <1>0, <1>2, CardsAssumption
    <3>2. SUFFICES ASSUME Value[card] < Value[rack[j]]
                   PROVE  FALSE
      BY <2>0, <3>1
    <3>3. \A k \in I : k > j - 1 => Value[card] <= Value[rack[k]]
      <4> SUFFICES ASSUME NEW k \in I, k > j - 1
                   PROVE  Value[card] <= Value[rack[k]]
        OBVIOUS
      <4>1. k = j \/ j < k
        BY <2>0
      <4>2. Value[rack[j]] <= Value[rack[k]]
        BY <2>0, <4>1 DEF IsValidRackOrder
      <4>3. Value[rack[j]] \in Nat /\ Value[rack[k]] \in Nat
        BY <2>0
      <4> HIDE DEF n, I, T
      <4> QED
        BY <3>1, <3>2, <4>2, <4>3
    <3>4. j - 1 \in T
      BY <1>0, <3>1, <3>3
    <3> HIDE DEF T
    <3>5. t <= j - 1
      BY <2>2, <3>4
    <3> QED
      BY <2>3, <3>1, <3>5
  <2>4. t \in 0..n /\ \A j \in I : j > t => Value[card] <= Value[rack[j]]
    OBVIOUS
  <2>5. IsValidRackOrder(InsertCard(rack, card, t))
    BY <2>3, <2>4, InsertKeepsOrder
  <2> QED
    BY <2>4, <2>5 DEF ValidInsertionIndexes
<1> QED
  BY <1>1, <1>2

-----------------------------------------------------------------------------
(***************************************************************************)
(* The code compares each standard card with the next one only.            *)
(***************************************************************************)
\* Numbers of which none is above the next do not decrease.
LEMMA NeighborsOrder ==
  ASSUME NEW n \in Nat, NEW f \in [1..n -> Nat],
         \A k \in 1..n : k + 1 \in 1..n => f[k] <= f[k + 1],
         NEW k \in 1..n, NEW l \in 1..n, k < l
  PROVE  f[k] <= f[l]
<1> SUFFICES ASSUME ~ (f[k] <= f[l]) PROVE FALSE
  OBVIOUS
<1> DEFINE T == {m \in 1..n : k < m /\ ~ (f[k] <= f[m])}
<1>1. T \in SUBSET Nat /\ T # {}
  <2>1. l \in T
    OBVIOUS
  <2>2. T \subseteq Nat
    OBVIOUS
  <2> QED
    BY <2>1, <2>2
<1>2. PICK m \in T : \A x \in T : m <= x
  BY <1>1, LeastElement
<1>3. m - 1 \in 1..n /\ m \in 1..n /\ k <= m - 1 /\ m - 1 + 1 = m /\ m - 1 \notin T
  BY <1>2
<1>4. f[k] <= f[m - 1]
  BY <1>3
<1>5. f[m - 1] <= f[m]
  BY <1>3
<1>6. f[k] \in Nat /\ f[m - 1] \in Nat /\ f[m] \in Nat
  BY <1>3
<1>7. f[k] <= f[m]
  BY <1>4, <1>5, <1>6
<1> QED
  BY <1>2, <1>7

(***************************************************************************)
(* isValidRackOrder as the code computes it, card by card over the         *)
(* standard cards of the rack, is IsValidRackOrder.                        *)
(***************************************************************************)
THEOREM NeighborsSuffice ==
  ASSUME NEW rack \in Seq(Card)
  PROVE  LET cards == Filter(rack, Standard)
         IN  IsValidRackOrder(rack) <=>
               \A k \in DOMAIN cards :
                 k + 1 \in DOMAIN cards => Value[cards[k]] <= Value[cards[k + 1]]
<1> DEFINE I     == Positions(rack, Standard)
           n     == Cardinality(I)
           cards == Filter(rack, Standard)
           key   == [k \in 1..n |-> Value[rack[Nth(I, k)]]]
<1>1. I \in SUBSET Nat /\ IsFiniteSet(I) /\ \A i \in I : rack[i] \in Standard
  BY PositionsFinite DEF Positions
<1>2. /\ n \in Nat
      /\ \A i \in I : Cardinality(UpTo(I, i)) \in 1..n /\ Nth(I, Cardinality(UpTo(I, i))) = i
      /\ \A k \in 1..n : Nth(I, k) \in I
      /\ \A i, j \in I : i < j => Cardinality(UpTo(I, i)) < Cardinality(UpTo(I, j))
      /\ \A k, l \in 1..n : k < l => Nth(I, k) < Nth(I, l)
  BY <1>1, NthIndex
<1>3. DOMAIN cards = 1..n /\ \A k \in 1..n : cards[k] = rack[Nth(I, k)]
  BY DEF Filter
<1>4. IsValidRackOrder(rack) <=> \A i, j \in I : i < j => Value[rack[i]] <= Value[rack[j]]
  BY DEF IsValidRackOrder
<1> HIDE DEF I, n, cards
<1>5. key \in [1..n -> Nat]
  BY <1>1, <1>2, CardsAssumption
<1>6. ASSUME \A i, j \in I : i < j => Value[rack[i]] <= Value[rack[j]],
             NEW k \in 1..n, k + 1 \in 1..n
      PROVE  Value[cards[k]] <= Value[cards[k + 1]]
  <2>1. k < k + 1
    BY <1>2
  <2>2. Nth(I, k) \in I /\ Nth(I, k + 1) \in I /\ Nth(I, k) < Nth(I, k + 1)
    BY <1>2, <1>6, <2>1
  <2> QED
    BY <1>3, <1>6, <2>2
<1>7. ASSUME \A k \in 1..n : k + 1 \in 1..n => Value[cards[k]] <= Value[cards[k + 1]],
             NEW i \in I, NEW j \in I, i < j
      PROVE  Value[rack[i]] <= Value[rack[j]]
  <2> DEFINE a == Cardinality(UpTo(I, i))
             b == Cardinality(UpTo(I, j))
  <2>1. a \in 1..n /\ b \in 1..n /\ a < b /\ Nth(I, a) = i /\ Nth(I, b) = j
    BY <1>2, <1>7
  <2>2. \A k \in 1..n : k + 1 \in 1..n => key[k] <= key[k + 1]
    BY <1>3, <1>7
  <2> HIDE DEF a, b
  <2>3. key[a] = Value[rack[i]] /\ key[b] = Value[rack[j]]
    BY <2>1
  <2> HIDE DEF key
  <2>4. key[a] <= key[b]
    BY <1>2, <1>5, <2>1, <2>2, NeighborsOrder
  <2> QED
    BY <2>3, <2>4
<1>8. IsValidRackOrder(rack) <=>
        \A k \in DOMAIN cards :
          k + 1 \in DOMAIN cards => Value[cards[k]] <= Value[cards[k + 1]]
  BY <1>3, <1>4, <1>6, <1>7
<1> QED
  BY <1>8 DEF cards

-----------------------------------------------------------------------------
(***************************************************************************)
(* The cards of a sequence that grows, shrinks or is joined to another.    *)
(***************************************************************************)
\* The first card and the rest make up a pile.
LEMMA HeadTailSets ==
  ASSUME NEW S, NEW s \in Seq(S), s # <<>>
  PROVE  /\ Head(s) \in S
         /\ Tail(s) \in Seq(S)
         /\ ToSet(s) = {Head(s)} \cup ToSet(Tail(s))
         /\ IsInjective(s) => IsInjective(Tail(s)) /\ Head(s) \notin ToSet(Tail(s))
<1> DEFINE n == Len(s)
           t == Tail(s)
<1>0. n \in Nat /\ n # 0 /\ DOMAIN s = 1..n
  BY EmptySeq, LenProperties
<1>1. Head(s) = s[1] /\ Head(s) \in S
  BY <1>0, HeadTailProperties
<1>2. t \in Seq(S) /\ Len(t) = n - 1 /\ \A i \in 1..(n - 1) : t[i] = s[i + 1]
  BY HeadTailProperties
<1>3. DOMAIN t = 1..(n - 1)
  BY <1>2, LenProperties
<1> HIDE DEF t, n
<1>4. \A i \in 1..n : i = 1 \/ (i - 1 \in 1..(n - 1) /\ s[i] = t[i - 1])
  BY <1>0, <1>2
<1>5. 1 \in 1..n /\ \A i \in 1..(n - 1) : i + 1 \in 1..n /\ i + 1 # 1
  BY <1>0
<1>6. ToSet(s) = {Head(s)} \cup ToSet(t)
  <2>1. \A i \in 1..n : s[i] \in {Head(s)} \cup ToSet(t)
    BY <1>1, <1>3, <1>4 DEF ToSet
  <2>2. Head(s) \in ToSet(s) /\ \A i \in 1..(n - 1) : t[i] \in ToSet(s)
    BY <1>0, <1>1, <1>2, <1>5 DEF ToSet
  <2> QED
    BY <1>0, <1>3, <2>1, <2>2 DEF ToSet
<1>7. ASSUME IsInjective(s)
      PROVE  IsInjective(t) /\ Head(s) \notin ToSet(t)
  <2>1. \A i, j \in 1..n : s[i] = s[j] => i = j
    BY <1>0, <1>7 DEF IsInjective
  <2>2. \A i, j \in 1..(n - 1) : t[i] = t[j] => i = j
    <3> SUFFICES ASSUME NEW i \in 1..(n - 1), NEW j \in 1..(n - 1), t[i] = t[j]
                 PROVE  i = j
      OBVIOUS
    <3>1. i + 1 = j + 1
      BY <1>2, <1>5, <2>1
    <3> QED
      BY <1>0, <3>1
  <2>3. \A i \in 1..(n - 1) : t[i] # s[1]
    BY <1>2, <1>5, <2>1
  <2> QED
    BY <1>1, <1>3, <2>2, <2>3 DEF IsInjective, ToSet
<1> QED
  BY <1>1, <1>2, <1>6, <1>7 DEF t

\* What is left of a deck when its first k cards are gone.
LEMMA RestOfDeck ==
  ASSUME NEW S, NEW s \in Seq(S), NEW k \in Nat, k <= Len(s)
  PROVE  LET t == SubSeq(s, k + 1, Len(s))
         IN  /\ t \in Seq(S)
             /\ ToSet(t) = {s[i] : i \in (k + 1)..Len(s)}
             /\ IsInjective(s) => IsInjective(t)
             /\ k < Len(s) => t # <<>>
<1> DEFINE n == Len(s)
           t == SubSeq(s, k + 1, n)
<1>0. n \in Nat /\ k <= n /\ DOMAIN s = 1..n /\ \A i \in 1..n : s[i] \in S
  BY LenProperties, ElementOfSeq
<1>1. /\ t \in Seq(S)
      /\ Len(t) = IF k + 1 <= n THEN n - (k + 1) + 1 ELSE 0
      /\ \A i \in 1..(n - (k + 1) + 1) : t[i] = s[(k + 1) + i - 1]
  <2> HIDE DEF n
  <2>1. \A i \in (k + 1)..n : s[i] \in S
    BY <1>0
  <2> QED
    BY <1>0, <2>1, SubSeqProperties
<1> HIDE DEF n, t
<1>2. Len(t) = n - k
  <2>1. Len(t) = IF k + 1 <= n THEN n - (k + 1) + 1 ELSE 0
    BY <1>1
  <2>2. (IF k + 1 <= n THEN n - (k + 1) + 1 ELSE 0) = n - k
    BY <1>0
  <2> QED
    BY <2>1, <2>2
<1>3. DOMAIN t = 1..(n - k)
  BY <1>1, <1>2, LenProperties
<1>4. \A i \in 1..(n - k) : t[i] = s[k + i] /\ k + i \in (k + 1)..n
  <2> SUFFICES ASSUME NEW i \in 1..(n - k)
               PROVE  t[i] = s[k + i] /\ k + i \in (k + 1)..n
    OBVIOUS
  <2>1. i \in 1..(n - (k + 1) + 1) /\ (k + 1) + i - 1 = k + i /\ k + i \in (k + 1)..n
    BY <1>0
  <2> QED
    BY <1>1, <2>1
<1>5. \A j \in (k + 1)..n : j - k \in 1..(n - k) /\ k + (j - k) = j
  BY <1>0
<1>6. ToSet(t) = {s[i] : i \in (k + 1)..n}
  <2>1. \A i \in 1..(n - k) : t[i] \in {s[j] : j \in (k + 1)..n}
    BY <1>4
  <2>2. \A j \in (k + 1)..n : s[j] = t[j - k]
    BY <1>4, <1>5
  <2> QED
    BY <1>3, <1>5, <2>1, <2>2 DEF ToSet
<1>7. ASSUME IsInjective(s)
      PROVE  IsInjective(t)
  <2> SUFFICES ASSUME NEW i \in 1..(n - k), NEW j \in 1..(n - k), t[i] = t[j]
               PROVE  i = j
    BY <1>3 DEF IsInjective
  <2>1. k + i \in 1..n /\ k + j \in 1..n
    BY <1>0
  <2>2. k + i = k + j
    BY <1>0, <1>4, <1>7, <2>1 DEF IsInjective
  <2> QED
    BY <1>0, <2>2
<1>8. k < n => t # <<>>
  BY <1>0, <1>1, <1>2, EmptySeq
<1> QED
  BY <1>1, <1>6, <1>7, <1>8 DEF t, n

\* Two sequences joined hold the cards of both.
LEMMA JoinSets ==
  ASSUME NEW S, NEW s \in Seq(S), NEW t \in Seq(S)
  PROVE  /\ s \o t \in Seq(S)
         /\ ToSet(s \o t) = ToSet(s) \cup ToSet(t)
         /\ IsInjective(s) /\ IsInjective(t) /\ ToSet(s) \cap ToSet(t) = {} =>
              IsInjective(s \o t)
<1> DEFINE m == Len(s)
           n == Len(t)
           u == s \o t
<1>0. m \in Nat /\ n \in Nat /\ DOMAIN s = 1..m /\ DOMAIN t = 1..n
  BY LenProperties
<1>1. /\ u \in Seq(S) /\ Len(u) = m + n
      /\ \A i \in 1..(m + n) : u[i] = IF i <= m THEN s[i] ELSE t[i - m]
  BY ConcatProperties
<1>2. DOMAIN u = 1..(m + n)
  BY <1>1, LenProperties
<1> HIDE DEF m, n, u
<1>3. \A i \in 1..(m + n) : \/ i \in 1..m /\ u[i] = s[i]
                            \/ i - m \in 1..n /\ i > m /\ u[i] = t[i - m]
  BY <1>0, <1>1
<1>4. \A i \in 1..m : i \in 1..(m + n) /\ u[i] = s[i]
  BY <1>0, <1>1
<1>5. \A i \in 1..n : m + i \in 1..(m + n) /\ u[m + i] = t[i]
  <2> SUFFICES ASSUME NEW i \in 1..n
               PROVE  m + i \in 1..(m + n) /\ u[m + i] = t[i]
    OBVIOUS
  <2>1. m + i \in 1..(m + n) /\ ~ (m + i <= m) /\ (m + i) - m = i
    BY <1>0
  <2> QED
    BY <1>1, <2>1
<1>6. ToSet(u) = ToSet(s) \cup ToSet(t)
  <2>1. \A i \in 1..(m + n) : u[i] \in ToSet(s) \cup ToSet(t)
    BY <1>0, <1>3 DEF ToSet
  <2>2. \A i \in 1..m : s[i] \in ToSet(u)
    BY <1>2, <1>4 DEF ToSet
  <2>3. \A i \in 1..n : t[i] \in ToSet(u)
    BY <1>2, <1>5 DEF ToSet
  <2> QED
    BY <1>0, <1>2, <2>1, <2>2, <2>3 DEF ToSet
<1>7. ASSUME IsInjective(s), IsInjective(t), ToSet(s) \cap ToSet(t) = {}
      PROVE  IsInjective(u)
  <2> SUFFICES ASSUME NEW i \in 1..(m + n), NEW j \in 1..(m + n), u[i] = u[j]
               PROVE  i = j
    BY <1>2 DEF IsInjective
  <2>1. \A k \in 1..m, l \in 1..n : s[k] # t[l]
    BY <1>0, <1>7 DEF ToSet
  <2>2. CASE i \in 1..m /\ j \in 1..m
    BY <1>0, <1>4, <1>7, <2>2 DEF IsInjective
  <2>3. CASE i - m \in 1..n /\ i > m /\ u[i] = t[i - m] /\ j - m \in 1..n /\ j > m /\ u[j] = t[j - m]
    <3>1. i - m = j - m
      BY <1>0, <1>7, <2>3 DEF IsInjective
    <3> QED
      BY <1>0, <3>1
  <2> QED
    BY <1>3, <2>1, <2>2, <2>3
<1> QED
  BY <1>1, <1>6, <1>7 DEF u

\* A card put at the end joins the cards of the sequence.
LEMMA AppendSets ==
  ASSUME NEW S, NEW s \in Seq(S), NEW e \in S
  PROVE  /\ Append(s, e) \in Seq(S)
         /\ ToSet(Append(s, e)) = ToSet(s) \cup {e}
         /\ IsInjective(s) /\ e \notin ToSet(s) => IsInjective(Append(s, e))
<1>1. <<e>> \in Seq(S) /\ ToSet(<<e>>) = {e} /\ IsInjective(<<e>>)
  BY DEF ToSet, IsInjective
<1>2. Append(s, e) = s \o <<e>>
  BY AppendIsConcat
<1> DEFINE t == <<e>>
<1> HIDE DEF t
<1>3. /\ s \o t \in Seq(S) /\ ToSet(s \o t) = ToSet(s) \cup ToSet(t)
      /\ IsInjective(s) /\ IsInjective(t) /\ ToSet(s) \cap ToSet(t) = {} =>
           IsInjective(s \o t)
  <2>1. t \in Seq(S)
    BY <1>1 DEF t
  <2> QED
    BY <2>1, JoinSets
<1>4. ToSet(t) = {e} /\ IsInjective(t) /\ Append(s, e) = s \o t
  BY <1>1, <1>2 DEF t
<1>5. e \notin ToSet(s) => ToSet(s) \cap ToSet(t) = {}
  BY <1>4
<1> QED
  BY <1>3, <1>4, <1>5

\* Jokers put behind an ordered rack leave it in order.
LEMMA JokersBehind ==
  ASSUME NEW s \in Seq(Card), NEW t \in Seq(Card),
         IsValidRackOrder(s), ToSet(t) \subseteq Joker
  PROVE  IsValidRackOrder(s \o t)
<1> DEFINE m == Len(s)
           n == Len(t)
           u == s \o t
<1>0. m \in Nat /\ n \in Nat /\ DOMAIN s = 1..m /\ DOMAIN t = 1..n
  BY LenProperties
<1>1. /\ u \in Seq(Card) /\ Len(u) = m + n
      /\ \A i \in 1..(m + n) : u[i] = IF i <= m THEN s[i] ELSE t[i - m]
  BY ConcatProperties
<1>2. DOMAIN u = 1..(m + n)
  BY <1>1, LenProperties
<1> HIDE DEF m, n, u
<1>3. \A i \in 1..(m + n) : u[i] \in Standard => i \in 1..m /\ u[i] = s[i]
  <2> SUFFICES ASSUME NEW i \in 1..(m + n), u[i] \in Standard, ~ (i <= m)
               PROVE  FALSE
    BY <1>0, <1>1
  <2>1. i - m \in 1..n /\ u[i] = t[i - m]
    BY <1>0, <1>1
  <2> QED
    BY <1>0, <2>1 DEF ToSet, Standard
<1>4. \A i \in Positions(u, Standard) : i \in Positions(s, Standard) /\ u[i] = s[i]
  BY <1>0, <1>2, <1>3 DEF Positions
<1> QED
  BY <1>4 DEF IsValidRackOrder, u
=============================================================================
