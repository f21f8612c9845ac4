---------------------------- MODULE SafetyRules ----------------------------
(***************************************************************************)
(* The 2-chain safety rules: the persistent record SafetyStateData and the *)
(* pure functions of TwoChainSafetyRules that read and update it           *)
(* (consensus-core/src/safety_rules/{state,two_chain,recovery}.rs, and the *)
(* timeout certificates of timeout/two_chain.rs they take).                *)
(*                                                                         *)
(* A fallible function is split in two operators: XOk(..) says when the    *)
(* code returns Ok, and the operator without the suffix gives the new      *)
(* state.  An Option is a set with at most one element, so that            *)
(* `if let Some(x)` reads \E x \in opt and None is the empty set.          *)
(***************************************************************************)
EXTENDS MachineIntegers

CONSTANTS
    EpochMargin,     \* 1000 in validate_safety_state: epochs kept out of use
    PreferredLead    \* 100 in validate_safety_state: largest believable lead

ASSUME SafetyConstants ==
    /\ MaxU64 \in Nat \ {0}
    /\ EpochMargin \in 0..MaxU64
    /\ PreferredLead \in 0..MaxU64

Option(S) == {{}} \cup {{x} : x \in S}

\* o \in Option(S), without enumerating S
IsOption(o, S) == o \subseteq S /\ \A x, y \in o : x = y

SafetyStateData ==
    [epoch : U64, last_voted_round : U64, preferred_round : U64,
     one_chain_round : U64, highest_timeout_round : U64]

\* TwoChainTimeoutCertificate, reduced to the two rounds the rules read.
\* Only certificates that pass verify() are offered to the rules.
TimeoutCerts == {tc \in [round : U64, hqc_round : U64] : tc.hqc_round < tc.round}

(***************************************************************************)
(* Arithmetic of the code on u64.                                          *)
(***************************************************************************)
Larger(a, b) == IF b > a THEN b ELSE a

SaturatingPred(r) == IF r = 0 THEN 0 ELSE r - 1

\* a + b of a release build; both operands are u64.
WrappingAdd(a, b) == IF a + b > MaxU64 THEN a + b - MaxU64 - 1 ELSE a + b

(***************************************************************************)
(* SafetyStateData and TwoChainSafetyRules.                                *)
(***************************************************************************)
NewSafetyState(epoch) ==
    [epoch |-> epoch, last_voted_round |-> 0, preferred_round |-> 0,
     one_chain_round |-> 0, highest_timeout_round |-> 0]

\* Mutant: the votes of the old epoch go on counting.
NewEpoch_KeepsVotes(s, epoch) ==
    [NewSafetyState(epoch) EXCEPT !.preferred_round = s.preferred_round,
                                  !.last_voted_round = s.last_voted_round]

\* The rounds start over, but preferred_round is carried into the new epoch.
NewEpoch(s, epoch) ==
    [NewSafetyState(epoch) EXCEPT !.preferred_round = s.preferred_round]

CanVoteInRound(s, round) == round >= s.last_voted_round

UpdateOneChainRound(s, r) ==
    [s EXCEPT !.one_chain_round = Larger(@, r)]

UpdatePreferredRound(s, r) ==
    [s EXCEPT !.preferred_round = Larger(@, r)]

UpdateHighestTimeoutRound(s, r) ==
    [s EXCEPT !.highest_timeout_round = Larger(@, r)]

\* next_round(r)? succeeds.
HasNextRound(r) == r < MaxU64

SafeToVoteImplOk(blockRound, qcRound, tc) ==
    /\ HasNextRound(qcRound)
    /\ \A t \in tc : HasNextRound(t.round)
    /\ \/ blockRound = qcRound + 1
       \/ \E t \in tc : blockRound = t.round + 1 /\ qcRound >= t.hqc_round

\* The rules take the round below the block's for the round of its QC.
SafeToVoteOk(blockRound, tc) ==
    SafeToVoteImplOk(blockRound, SaturatingPred(blockRound), tc)

\* A TC of round u64::MAX makes the unwrap() of next_round panic when the
\* QC does not already justify the round: not Ok either.
SafeToTimeoutOk(s, round, qcRound, tc) ==
    /\ HasNextRound(qcRound)
    /\ \/ round = qcRound + 1
       \/ \E t \in tc : HasNextRound(t.round) /\ round = t.round + 1
    /\ qcRound >= s.one_chain_round

\* Mutants: the 2-chain check dropped; the 1-chain update forgotten.
ObserveQc_AnyHigherQc(s, qcRound) ==
    UpdateOneChainRound(UpdatePreferredRound(s, qcRound), qcRound)

ObserveQc_NoOneChain(s, qcRound) ==
    IF qcRound = WrappingAdd(s.one_chain_round, 1)
    THEN UpdatePreferredRound(s, qcRound)
    ELSE s

ObserveQc(s, qcRound) ==
    LET s1 == IF qcRound = WrappingAdd(s.one_chain_round, 1)
              THEN UpdatePreferredRound(s, qcRound)
              ELSE s
    IN  UpdateOneChainRound(s1, qcRound)

\* Mutant: the certificate's own round taken for its hqc_round.
ObserveTc_OwnRound(s, tc) ==
    UpdateOneChainRound(UpdateHighestTimeoutRound(s, tc.round), tc.round)

ObserveTc(s, tc) ==
    UpdateOneChainRound(UpdateHighestTimeoutRound(s, tc.round), tc.hqc_round)

RecordVoteOk(s, round) == round >= s.last_voted_round

\* Mutant: the vote is not recorded.
RecordVote_Forgets(s, round) == s

RecordVote(s, round) == [s EXCEPT !.last_voted_round = Larger(@, round)]

RecordTimeout(s, round) == UpdateHighestTimeoutRound(s, round)

\* Mutant: both round checks dropped.
TryVoteOk_NoRoundCheck(s, blockRound, tc) == SafeToVoteOk(blockRound, tc)

\* RoundManager::try_vote_for_proposal: the round check, the voting rule and
\* record_vote, in that order; each of them can refuse.
TryVoteOk(s, blockRound, tc) ==
    /\ blockRound >= s.last_voted_round
    /\ SafeToVoteOk(blockRound, tc)
    /\ RecordVoteOk(s, blockRound)

\* The 2-chain commit rule: the parent named by the proposal, whichever block
\* of the round below was certified.
ShouldCommit(s, blockRound, parent) ==
    IF blockRound > 0 /\ s.one_chain_round = blockRound - 1 THEN {parent} ELSE {}

(***************************************************************************)
(* Recovery: what load_safety_rules accepts from storage.                  *)
(***************************************************************************)
ValidateSafetyStateOk(s) ==
    /\ s.epoch <= MaxU64 - EpochMargin
    /\ s.one_chain_round <= s.preferred_round
    /\ s.preferred_round <= WrappingAdd(s.last_voted_round, PreferredLead)

\* Every round of s is at least the same round of t.
RoundsAtLeast(s, t) ==
    /\ s.last_voted_round >= t.last_voted_round
    /\ s.preferred_round >= t.preferred_round
    /\ s.one_chain_round >= t.one_chain_round
    /\ s.highest_timeout_round >= t.highest_timeout_round
=============================================================================
