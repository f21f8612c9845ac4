-------------------------- MODULE MC_RoundManager --------------------------
(***************************************************************************)
(* Three validators with powers 2, 1, 1 (quorum 3): v1 with either of the  *)
(* others is a quorum.  v1 signs twice; an author nobody knows votes for a *)
(* competing block; one vote is of another epoch.                          *)
(***************************************************************************)
EXTENDS RoundManager

MCPower == [v \in Validators |-> IF v = "v1" THEN 2 ELSE 1]

Vote(author, signature, rnd, block) ==
    [epoch |-> 0, round |-> rnd, block |-> block, author |-> author,
     signature |-> <<author, signature>>]

MCVotes ==
    { Vote("v1", 1, 1, "a"), Vote("v1", 2, 1, "a"), Vote("v2", 1, 1, "a"),
      Vote("x", 1, 1, "b"),
      Vote("v1", 1, 2, "c"), Vote("v2", 1, 2, "c"),
      [Vote("v2", 1, 2, "d") EXCEPT !.epoch = 1] }

MCBlocks == {[id |-> "a", round |-> 1], [id |-> "b", round |-> 1], [id |-> "c", round |-> 2]}
=============================================================================
