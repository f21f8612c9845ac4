------------------------- MODULE MC_ElectionRounds -------------------------
(***************************************************************************)
(* Three validators of power zero to two, elections that begin in round 0  *)
(* or 1, and scores that start close to both ends of the range.            *)
(***************************************************************************)
EXTENDS ElectionRounds

MCProposers == <<"v1", "v2", "v3">>
=============================================================================
