-------------------------------- MODULE MCRoom --------------------------------
(***************************************************************************)
(* Rooms of three seats for two people; the configurations name them.      *)
(***************************************************************************)
EXTENDS RoomProperties
=============================================================================
