----------------------------- MODULE MCSelection -----------------------------
(***************************************************************************)
(* A selection of three players, one of them a bot, with as few cards as   *)
(* the assumption allows: the third round draws from the discards.  Ranks  *)
(* come in both colors, and there are two Jokers.                          *)
(***************************************************************************)
EXTENDS SelectionProperties

MCCard == 1..7
MCJoker == {6, 7}
MCValue == <<0, 1, 2, 3, 3>>
=============================================================================
