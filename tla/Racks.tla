-------------------------------- MODULE Racks --------------------------------
(***************************************************************************)
(* Cards and racks (shared/src/types.ts, shared/src/rack.ts).              *)
(*                                                                         *)
(* A card is its opaque id.  A standard card's sort key Value[c] is        *)
(* 2 * (index of its rank) + (0 if red, 1 if black), so comparing keys is  *)
(* compareStandardCards, and two cards are indistinguishable to a guess    *)
(* exactly when their keys agree (suits do not count).  Jokers have no     *)
(* key.  A rack is a sequence of cards; whether a card is face up is kept  *)
(* by the game, since a card is in one place at a time.                    *)
(***************************************************************************)
EXTENDS Integers, SequencesExt

CONSTANTS Card,     \* the cards of one match
          Joker,    \* those of them that are Jokers
          Value     \* the sort key of every standard card

Standard == Card \ Joker

ASSUME CardsAssumption ==
  /\ IsFiniteSet(Card)
  /\ Joker \subseteq Card
  /\ Value \in [Standard -> Nat]

(***************************************************************************)
(* Helpers on sequences.  The k-th smallest index of I, and the elements   *)
(* of s that belong to S, in their order in s (Array.prototype.filter).    *)
(***************************************************************************)
Positions(s, S) == {i \in DOMAIN s : s[i] \in S}

UpTo(I, i) == {j \in I : j <= i}

Nth(I, k) == CHOOSE i \in I : Cardinality(UpTo(I, i)) = k

Filter(s, S) ==
  LET I == Positions(s, S)
  IN  [k \in 1..Cardinality(I) |-> s[Nth(I, k)]]

(***************************************************************************)
(* isValidRackOrder: the standard cards are sorted, Jokers are skipped.    *)
(***************************************************************************)
IsValidRackOrder(rack) ==
  \A i, j \in Positions(rack, Standard) :
     i < j => Value[rack[i]] <= Value[rack[j]]

(***************************************************************************)
(* sortRackKeepingJokers: toSorted is stable, so position j precedes i     *)
(* when its key is smaller, or equal and it comes first.                   *)
(***************************************************************************)
SortsUpTo(rack, i) ==
  {j \in Positions(rack, Standard) :
     \/ Value[rack[j]] < Value[rack[i]]
     \/ Value[rack[j]] = Value[rack[i]] /\ j <= i}

NthSorted(rack, k) ==
  CHOOSE i \in Positions(rack, Standard) : Cardinality(SortsUpTo(rack, i)) = k

SortRackKeepingJokers(rack) ==
  LET I == Positions(rack, Standard)
  IN  [i \in DOMAIN rack |->
         IF i \in I THEN rack[NthSorted(rack, Cardinality(UpTo(I, i)))]
                    ELSE rack[i]]

(***************************************************************************)
(* insertCard at the code's zero-based index, which throws unless the      *)
(* index is one of validInsertionIndexes.                                  *)
(***************************************************************************)
InsertCard(rack, card, index) == InsertAt(rack, index + 1, card)

ValidInsertionIndexes(rack, card) ==
  {index \in 0..Len(rack) : IsValidRackOrder(InsertCard(rack, card, index))}
=============================================================================
