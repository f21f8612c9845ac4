----------------------------- MODULE MC_Engine -----------------------------
(***************************************************************************)
(* The engine with one quorum of votes for a block of round 0, the only    *)
(* round the engine's round manager is ever in, and certificates and       *)
(* timeouts up to the largest round.  A proposal stands for the messages   *)
(* that move nothing.                                                      *)
(***************************************************************************)
EXTENDS Engine

MCPower == [v \in Validators |-> 1]

MCVotes ==
    { [epoch |-> 0, round |-> 0, block |-> "a", author |-> v, signature |-> v] : v \in Validators }

MCBlocks == {[id |-> "a", round |-> 0], [id |-> "b", round |-> 1]}

MCMessages ==
    [type : {"QuorumCertificate"}, round : {1, 2}] \cup
    [type : {"Timeout"}, round : {1, 3}] \cup
    [type : {"Proposal"}, round : {1}]
=============================================================================
