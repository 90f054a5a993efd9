----------------------------- MODULE MCAssocEvents -----------------------------
(***************************************************************************)
(* Two interfaces that serve two networks.                                 *)
(***************************************************************************)
EXTENDS AssocEvents

MCSsidOf == [i \in Ifaces |-> i]

================================================================================
