---------------------------- MODULE EpochChange ----------------------------
(***************************************************************************)
(* What a validator keeps from one epoch to the next: the reconfiguration  *)
(* handler, the safety state and the round state, driven by a host that    *)
(* calls SafetyStateData::new_epoch and RoundState::set_epoch once the     *)
(* handler has entered an epoch: two calls, in either order, each some     *)
(* time after complete_reconfig.  The repository has the operations but no *)
(* host.  Nothing in them compares the two epochs, so the host must        *)
(* neither vote nor take a certificate between the two calls.              *)
(***************************************************************************)
EXTENDS Reconfig, SafetyRules

CONSTANTS
    InitialRound,     \* initial_round of RoundStateConfig
    EpochEndRound,    \* round at which the host lets an epoch end
    MaxRound          \* bound on the rounds of an epoch

ASSUME EpochChangeConstants ==
    /\ InitialRound \in 0..MaxRound
    /\ EpochEndRound \in Nat
    /\ MaxRound \in U64

VARIABLES
    rules,     \* SafetyStateData
    round,     \* RoundState
    voted      \* history: [epoch, round] of the votes

hostVars == <<rules, round, voted>>

RS == INSTANCE RoundState

HostInit ==
    /\ Init
    /\ rules = NewSafetyState(InitialEpoch)
    /\ round = RS!NewRoundState(InitialEpoch)
    /\ voted = {}

\* The safety state and the round state are of one epoch.
SameEpoch == round.epoch = rules.epoch

\* A proposal of the current round is stored and voted for.
Vote ==
    /\ SameEpoch
    /\ CanVoteInRound(rules, round.round)
    /\ rules' = RecordVote(rules, round.round)
    /\ round' = RS!SetProposedBlock(round, [epoch |-> round.epoch, round |-> round.round])
    /\ voted' = voted \cup {[epoch |-> round.epoch, round |-> round.round]}
    /\ UNCHANGED vars

\* A certificate of the current round ends the round.
Certify ==
    LET qc == [epoch |-> round.epoch, round |-> round.round]
    IN  /\ SameEpoch
        /\ round.round < MaxRound
        /\ rules' = ObserveQc(rules, qc.round)
        /\ round' = RS!AdvanceRound(RS!SetQuorumCert(round, qc))
        /\ UNCHANGED <<vars, voted>>

\* The handler is in a new epoch and the safety state follows.
EnterSafetyEpoch ==
    /\ rules.epoch # epoch
    /\ rules' = NewEpoch(rules, epoch)
    /\ UNCHANGED <<vars, round, voted>>

\* The handler is in a new epoch and the round state follows.
EnterRoundEpoch ==
    /\ round.epoch # epoch
    /\ round' = RS!SetEpoch(round, epoch)
    /\ UNCHANGED <<vars, rules, voted>>

\* The host prepares a reconfiguration only near the end of an epoch.
HandlerNext ==
    /\ Next
    /\ status = "Idle" /\ status' = "Preparing" =>
          ShouldReconfigure(round.round, EpochEndRound)
    /\ UNCHANGED hostVars

HostNext == Vote \/ Certify \/ EnterSafetyEpoch \/ EnterRoundEpoch

\* The caller of a reconfiguration goes on reporting the validators it has
\* processed, all in the end, and goes on asking for completion.
HostSpec ==
    /\ HostInit /\ [][HandlerNext \/ HostNext]_<<vars, hostVars>>
    /\ WF_vars(UpdateProgress(total))
    /\ SF_vars(CompleteReconfig)

-----------------------------------------------------------------------------
(***************************************************************************)
(* Properties.                                                             *)
(***************************************************************************)

\* An epoch starts over: last_voted_round is the highest round voted for in
\* the epoch of the safety state, whatever was voted for before and whichever
\* of new_epoch and set_epoch came first, and no proposal and no certificate
\* of an earlier epoch is left in the round state.
EpochStartsOver ==
    /\ rules.last_voted_round =
          Max({0} \cup {v.round : v \in {w \in voted : w.epoch = rules.epoch}})
    /\ \A b \in round.proposed_block \cup round.quorum_cert : b.epoch = round.epoch

Proposals == [epoch : U64, round : 0..MaxRound]

\* The host's variables stay in their types.
HostTypeOK ==
    /\ rules \in SafetyStateData
    /\ round \in [epoch : U64, round : 0..MaxRound,
                  proposed_block : SUBSET Proposals, quorum_cert : SUBSET Proposals]
    /\ voted \subseteq Proposals

\* The safety state and the round state lag behind the handler, and no vote was
\* cast ahead of the safety state.
NoVoteAhead ==
    /\ rules.epoch <= epoch /\ round.epoch <= epoch
    /\ \A w \in voted : w.epoch <= rules.epoch

\* The inductive invariant of the proofs.
IInv == TransitionsAreSound /\ HostTypeOK /\ NoVoteAhead /\ EpochStartsOver
=============================================================================
