---------------------------- MODULE MCStatusTiles ----------------------------
(* Instances of StatusTiles for TLC. *)
EXTENDS StatusTiles
=============================================================================
