-------------------------- MODULE MC_DurableVoting --------------------------
(***************************************************************************)
(* A small instance of DurableVoting: two blocks compete in round 2, one   *)
(* block of round 3 skips a round, and the top round of u64 is in reach.   *)
(***************************************************************************)
EXTENDS DurableVoting

Block(id, round, qc_round) == [id |-> id, round |-> round, qc_round |-> qc_round]

MCProposals ==
    {Block("a", 1, 0), Block("b", 2, 1), Block("c", 2, 1), Block("d", 3, 1)}

MCTcs == {[round |-> 2, hqc_round |-> 1], [round |-> 4, hqc_round |-> 3]}
=============================================================================
