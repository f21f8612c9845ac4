----------------------------- MODULE MC_Cluster -----------------------------
(***************************************************************************)
(* Two validators of power one, so that each certificate, and each timeout *)
(* certificate, needs both.                                                *)
(***************************************************************************)
EXTENDS Cluster

MCPower == [v \in Validators |-> 1]

MCList == <<"v1", "v2">>
=============================================================================
