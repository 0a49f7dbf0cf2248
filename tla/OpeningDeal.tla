----------------------------- MODULE OpeningDeal -----------------------------
(***************************************************************************)
(* The table and the deal the starting selection hands to the rules        *)
(* engine.                                                                 *)
(*                                                                         *)
(* Players are seats 0 .. NumPlayers-1 (the order of the array             *)
(* GameState.players, which is the turn order).                            *)
(***************************************************************************)
EXTENDS Racks

CONSTANT NumPlayers   \* three to six

Player == 0..(NumPlayers - 1)

(***************************************************************************)
(* An opening is what CipherDeckRoom.finalizeStartingSelection hands to    *)
(* createInitialGameWithStartingCards: one starting card for each player,  *)
(* the player who starts, and the other cards shuffled.  Only the starter  *)
(* can hold a starting Joker: a Joker is the highest choice, and a player  *)
(* who is not among the highest keeps a lower card.                        *)
(***************************************************************************)
IsOpening(o) ==
  /\ o.starter \in Player
  /\ o.starting \in [Player -> Card]
  /\ IsInjective(o.starting)
  /\ \A p \in Player \ {o.starter} : o.starting[p] \notin Joker
  /\ o.deck \in Seq(Card)
  /\ IsInjective(o.deck)
  /\ ToSet(o.deck) = Card \ {o.starting[p] : p \in Player}
=============================================================================
