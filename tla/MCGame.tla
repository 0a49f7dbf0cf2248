------------------------------- MODULE MCGame -------------------------------
(***************************************************************************)
(* Matches of three players, small enough for TLC.  Some keys come twice,  *)
(* as they do in the real deck, where two suits share every color.         *)
(***************************************************************************)
EXTENDS GameProperties, BotGuesses

Opening(starter, starting, deck) ==
  [starter |-> starter, starting |-> starting, deck |-> deck]

Starting(a, b, c) == (0 :> a) @@ (1 :> b) @@ (2 :> c)

\* Twelve cards: base hand three, so hands of four, three and two, and one
\* draw round in the pile.  The first opening gives a Joker to two players,
\* the second both Jokers to one.
MCCard == 1..12
MCJoker == {11, 12}
MCValue == <<0, 1, 2, 2, 3, 4, 5, 6, 6, 7>>
MCOpenings ==
  { Opening(1, Starting(3, 9, 2), <<11, 6, 8, 1, 12, 10, 7, 4, 5>>),
    Opening(0, Starting(9, 4, 7), <<11, 10, 3, 12, 1, 8, 2, 5, 6>>) }

\* Nine cards: base hand two, the least the code deals, so the player before
\* the starter holds nothing but the starting card.  The openings put the
\* Jokers in the starter's hand and the pile, and in two racks.
SmallCard == 1..9
SmallJoker == {8, 9}
SmallValue == [c \in 1..7 |-> (c - 1) \div 2]
SmallOpenings ==
  { Opening(2, Starting(1, 2, 8), <<6, 4, 3, 7, 9, 5>>),
    Opening(0, Starting(5, 4, 3), <<8, 9, 6, 1, 2, 7>>) }
=============================================================================
