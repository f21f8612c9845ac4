---------------------------- MODULE PendingVotes ----------------------------
(***************************************************************************)
(* PendingVotes (consensus-core/src/votes/pending_votes.rs), the collector *)
(* of votes of one validator, with the SignatureAggregator it builds       *)
(* (crypto/signature_aggregator.rs) and the voting powers of the           *)
(* ValidatorVerifier it asks (testing/mock_validator.rs and                *)
(* consensus/reconfig.rs hold the repository's implementations).           *)
(*                                                                         *)
(* The map (round, block) -> signature -> vote is the set of its votes: a  *)
(* vote carries its round, block and signature, and add_vote keeps the     *)
(* signatures of one key distinct.                                         *)
(***************************************************************************)
EXTENDS Integers, FiniteSets, FiniteSetsExt

CONSTANTS
    Validators,          \* authors the verifier knows
    Power,               \* get_voting_power, a function on Validators
    MaxBufferedRounds    \* max_rounds of PendingVotes::new

ASSUME PendingVotesConstants ==
    /\ IsFiniteSet(Validators)
    /\ Power \in [Validators -> Nat]
    /\ MaxBufferedRounds \in Nat

(***************************************************************************)
(* ValidatorVerifier.                                                      *)
(***************************************************************************)
PowerOf(S) == MapThenSumSet(LAMBDA a : Power[a], S \cap Validators)

QuorumVotingPower == (PowerOf(Validators) * 2) \div 3 + 1

\* check_voting_power(signers, true): signers the verifier does not know add
\* nothing.
CheckVotingPower(signers) == PowerOf(signers) >= QuorumVotingPower

(***************************************************************************)
(* PendingVotes.                                                           *)
(***************************************************************************)
NewPendingVotes == [votes |-> {}, current_round |-> 0]

GetVotes(pv, round, block) ==
    {v \in pv.votes : v.round = round /\ v.block = block}

\* A sum over votes, not over authors.
AggregatedVotingPower(pv, round, block) ==
    MapThenSumSet(LAMBDA v : Power[v.author],
                  {v \in GetVotes(pv, round, block) : v.author \in Validators})

CanFormQuorum(pv, round, block) ==
    AggregatedVotingPower(pv, round, block) >= QuorumVotingPower

\* The aggregator keeps one signature for each known author.
Signers(votes) == {v.author : v \in votes} \cap Validators

CheckQuorum(pv, round, block) ==
    CheckVotingPower(Signers(GetVotes(pv, round, block)))

\* Mutant: votes of the current round count as old.
AddVoteOk_CurrentIsOld(pv, v) ==
    /\ v.round > pv.current_round
    /\ \A w \in GetVotes(pv, v.round, v.block) : w.signature # v.signature

\* add_vote returns neither OldRound nor Rejected.
AddVoteOk(pv, v) ==
    /\ v.round >= pv.current_round
    /\ \A w \in GetVotes(pv, v.round, v.block) : w.signature # v.signature

Insert(pv, v) == [pv EXCEPT !.votes = @ \cup {v}]

RemoveRound(pv, round) == [pv EXCEPT !.votes = {v \in @ : v.round # round}]

Cutoff(round) == IF round < MaxBufferedRounds THEN 0 ELSE round - MaxBufferedRounds

\* set_round ends with cleanup_old_votes.
SetRound(pv, round) ==
    [votes |-> {v \in pv.votes : v.round >= Cutoff(round)},
     current_round |-> round]
=============================================================================
