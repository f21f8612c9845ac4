----------------------------- MODULE RoundState -----------------------------
(***************************************************************************)
(* RoundState (consensus-core/src/state/round_state.rs): epoch, round, the *)
(* proposal accepted in the round and the certificate stored last.  An     *)
(* Option is a set of at most one element.                                 *)
(***************************************************************************)
EXTENDS Integers

CONSTANT InitialRound    \* initial_round of RoundStateConfig

NewRoundState(initialEpoch) ==
    [epoch |-> initialEpoch, round |-> InitialRound, proposed_block |-> {}, quorum_cert |-> {}]

\* Changing the round, or advancing it, clears the proposal and keeps the
\* certificate.
SetRound(rs, round) == [rs EXCEPT !.round = round, !.proposed_block = {}]

AdvanceRound(rs) == SetRound(rs, rs.round + 1)

\* A new epoch starts over, without a certificate.
SetEpoch(rs, epoch) == NewRoundState(epoch)

SetProposedBlock(rs, block) == [rs EXCEPT !.proposed_block = {block}]

SetQuorumCert(rs, qc) == [rs EXCEPT !.quorum_cert = {qc}]

IsCurrentRound(rs, round) == rs.round = round

IsCurrentEpoch(rs, epoch) == rs.epoch = epoch
=============================================================================
