--------------------------- MODULE MC_EpochChange ---------------------------
(***************************************************************************)
(* Two transitions up to the largest epoch; validator sets of three equal  *)
(* validators, of unequal ones and of none.                                *)
(***************************************************************************)
EXTENDS EpochChange

MCSets ==
    { ValidatorSet(1, [v \in {"v1", "v2", "v3"} |-> 1]),
      ValidatorSet(2, [v \in {"v1", "v2"} |-> IF v = "v1" THEN 4 ELSE 1]),
      ValidatorSet(1, <<>>) }

MCBlocks == {[epoch |-> 2, round |-> 1]}
=============================================================================
