---------------------------- MODULE RoundManager ----------------------------
(***************************************************************************)
(* RoundManager (consensus-core/src/round_manager/mod.rs) and the three    *)
(* components it owns: RoundState (state/round_state.rs), PendingVotes and *)
(* TwoChainSafetyRules.  Each public operation that changes state is an    *)
(* action; calls that return an error or OldRound, FutureRound, Rejected   *)
(* change nothing and are stuttering steps.                                *)
(***************************************************************************)
EXTENDS SafetyRules, PendingVotes

CONSTANTS
    MaxRound,             \* bound on the rounds offered
    Blocks,               \* proposals: records with an id and a round
    VoteMsgs,             \* votes the network may deliver, again and again
    AggregationMayFail    \* whether aggregate() or from_votes() may fail

ASSUME RoundManagerConstants ==
    /\ MaxRound \in U64
    /\ \A b \in Blocks : b.round \in 0..MaxRound
    /\ \A v \in VoteMsgs : v.round \in 0..MaxRound
    /\ AggregationMayFail \in BOOLEAN

\* RoundManager::new ignores its configuration's epoch, and nothing it
\* offers changes the epoch later.
ManagerEpoch == 0

VARIABLES
    round,      \* RoundState::round
    proposed,   \* Option: RoundState::proposed_block
    qc,         \* Option: RoundState::quorum_cert
    pending,    \* PendingVotes
    safety,     \* TwoChainSafetyRules::state
    formed,     \* history: every certificate formed
    received,   \* history: every vote stored
    failed      \* history: keys whose certificate could not be formed

vars == <<round, proposed, qc, pending, safety, formed, received, failed>>

Key(v) == [round |-> v.round, block |-> v.block]

Keys == {Key(v) : v \in VoteMsgs}

Init ==
    /\ round = 0
    /\ proposed = {}
    /\ qc = {}
    /\ pending = NewPendingVotes
    /\ safety = NewSafetyState(ManagerEpoch)
    /\ formed = {}
    /\ received = {}
    /\ failed = {}

ProcessProposal(b) ==
    /\ b.round = round
    /\ proposed' = {b}
    /\ UNCHANGED <<round, qc, pending, safety, formed, received, failed>>

TryVoteForProposal(b, tc) ==
    /\ TryVoteOk(safety, b.round, tc)
    /\ safety' = RecordVote(safety, b.round)
    /\ UNCHANGED <<round, proposed, qc, pending, formed, received, failed>>

\* What every successful add_vote of process_vote has in common.
StoreVote(v) ==
    /\ v.epoch = ManagerEpoch
    /\ AddVoteOk(pending, v)
    /\ received' = received \cup {v}

\* Mutant: a vote that completes a quorum is just stored.
AcceptVote_NoQuorumCheck(v) ==
    /\ StoreVote(v)
    /\ pending' = Insert(pending, v)
    /\ UNCHANGED <<round, proposed, qc, safety, formed, failed>>

\* process_vote without a quorum.
AcceptVote(v) ==
    /\ StoreVote(v)
    /\ ~CheckQuorum(Insert(pending, v), v.round, v.block)
    /\ pending' = Insert(pending, v)
    /\ UNCHANGED <<round, proposed, qc, safety, formed, failed>>

\* Mutant: observe_qc is not called.
FormQuorumCertificate_NoObserve(v) ==
    /\ StoreVote(v)
    /\ CheckQuorum(Insert(pending, v), v.round, v.block)
    /\ qc' = {Key(v)}
    /\ pending' = RemoveRound(Insert(pending, v), v.round)
    /\ formed' = formed \cup {Key(v)}
    /\ UNCHANGED <<round, proposed, safety, failed>>

\* process_vote with a quorum: form_quorum_certificate_for_block.
FormQuorumCertificate(v) ==
    /\ StoreVote(v)
    /\ CheckQuorum(Insert(pending, v), v.round, v.block)
    /\ safety' = ObserveQc(safety, v.round)
    /\ qc' = {Key(v)}
    /\ pending' = RemoveRound(Insert(pending, v), v.round)
    /\ formed' = formed \cup {Key(v)}
    /\ UNCHANGED <<round, proposed, failed>>

\* The same with aggregate() or from_votes() failing: `?` leaves before any
\* update, with the vote already stored.
FormQuorumCertificateFails(v) ==
    /\ AggregationMayFail
    /\ StoreVote(v)
    /\ CheckQuorum(Insert(pending, v), v.round, v.block)
    /\ pending' = Insert(pending, v)
    /\ failed' = failed \cup {Key(v)}
    /\ UNCHANGED <<round, proposed, qc, safety, formed>>

TimeoutOk == SafeToTimeoutOk(safety, round + 1, safety.one_chain_round, {})

ProcessTimeout ==
    /\ round < MaxRound
    /\ TimeoutOk
    /\ safety' = RecordTimeout(safety, round)
    /\ round' = round + 1
    /\ proposed' = {}
    /\ pending' = SetRound(pending, round + 1)
    /\ UNCHANGED <<qc, formed, received, failed>>

\* Mutant: PendingVotes is not told of the round.
StartRound_KeepsPending(r) ==
    /\ round' = r
    /\ proposed' = {}
    /\ UNCHANGED <<qc, pending, safety, formed, received, failed>>

\* start_round accepts any round, earlier ones included.
StartRound(r) ==
    /\ round' = r
    /\ proposed' = {}
    /\ pending' = SetRound(pending, r)
    /\ UNCHANGED <<qc, safety, formed, received, failed>>

Next ==
    \/ \E b \in Blocks : ProcessProposal(b)
    \/ \E b \in Blocks, tc \in Option(TimeoutCerts) : TryVoteForProposal(b, tc)
    \/ \E v \in VoteMsgs : AcceptVote(v)
    \/ \E v \in VoteMsgs : FormQuorumCertificate(v)
    \/ \E v \in VoteMsgs : FormQuorumCertificateFails(v)
    \/ ProcessTimeout
    \/ \E r \in 0..MaxRound : StartRound(r)

Spec == Init /\ [][Next]_vars

\* The network goes on delivering each vote until it has been stored.
FairSpec ==
    /\ Spec
    /\ \A v \in VoteMsgs : WF_vars(AcceptVote(v) \/ FormQuorumCertificate(v))
    /\ WF_vars(ProcessTimeout)

-----------------------------------------------------------------------------
(***************************************************************************)
(* Properties.                                                             *)
(***************************************************************************)

\* The variables stay in their types.
TypeOK ==
    /\ round \in 0..MaxRound
    /\ IsOption(proposed, Blocks)
    /\ IsOption(qc, Keys)
    /\ pending \in [votes : SUBSET VoteMsgs, current_round : 0..MaxRound]
    /\ safety \in SafetyStateData
    /\ formed \subseteq Keys
    /\ received \subseteq VoteMsgs
    /\ failed \subseteq Keys

\* A certificate rests on a quorum of voting power of distinct authors that
\* voted for its block in its round, in the current epoch: replayed votes,
\* second signatures of one author and unknown authors never add up to one.
QcsHaveQuorum ==
    \A k \in formed :
        \E S \in SUBSET {v.author : v \in {w \in received :
                                            Key(w) = k /\ w.epoch = ManagerEpoch}} :
            CheckVotingPower(S)

\* observe_qc sees every certificate: whatever the order in which rounds are
\* certified, one_chain_round is the highest certified round.
OneChainIsHighestQc ==
    /\ safety.one_chain_round \in {k.round : k \in formed} \cup {0}
    /\ \A k \in formed : k.round <= safety.one_chain_round

\* The stored certificate was formed here and is covered by one_chain_round.
StoredQcIsCovered ==
    \A k \in qc : k \in formed /\ k.round <= safety.one_chain_round

\* PendingVotes follows the round of RoundState, and no vote it keeps is more
\* than MaxBufferedRounds behind, also after start_round went back and ahead
\* again.
PendingFollowsRound ==
    /\ pending.current_round = round
    /\ \A v \in pending.votes : round - v.round <= MaxBufferedRounds

\* A quorum waits among the pending votes only if forming its certificate
\* failed: process_vote leaves no completed quorum behind otherwise.
NoQuorumLeftPending ==
    \A k \in Keys : CheckQuorum(pending, k.round, k.block) => k \in failed

\* The proposal kept for the current round is a proposal of that round.
ProposalIsCurrent == \A b \in proposed : b.round = round

\* What is pending was accepted by process_vote, in the manager's epoch.
PendingWereReceived ==
    pending.votes \subseteq {v \in received : v.epoch = ManagerEpoch}

\* The inductive invariant of RoundManagerProofs.
IInv ==
    /\ TypeOK
    /\ PendingWereReceived
    /\ QcsHaveQuorum
    /\ OneChainIsHighestQc
    /\ StoredQcIsCovered
    /\ PendingFollowsRound
    /\ ProposalIsCurrent

\* A block whose votes hold a quorum is certified, unless forming the
\* certificate fails or the manager leaves the round behind.
QuorumsGetCertified ==
    \A k \in Keys :
        CheckVotingPower(Signers({v \in VoteMsgs : Key(v) = k /\ v.epoch = ManagerEpoch}))
          => (round <= k.round ~> (k \in formed \cup failed \/ round > k.round))

\* round_manager/mod.rs says that process_timeout "advances to the next round
\* when a timeout occurs": in the round after the highest certified one, where
\* a round without a certificate has to be given up, the call succeeds.
TimeoutsAdvance ==
    round = safety.one_chain_round + 1 /\ round < MaxRound => TimeoutOk
=============================================================================
