--------------------------- MODULE MCClientInventory ---------------------------
(***************************************************************************)
(* Instances of ClientInventory for TLC; the .cfg files give the constants *)
(* their values.                                                           *)
(***************************************************************************)
EXTENDS ClientInventory

================================================================================
