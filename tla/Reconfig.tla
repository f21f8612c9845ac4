------------------------------ MODULE Reconfig ------------------------------
(***************************************************************************)
(* ReconfigHandler (consensus-core/src/consensus/reconfig.rs) with the     *)
(* EpochManager it owns (epoch_manager/mod.rs): how a validator goes from  *)
(* one epoch and validator set to the next.  The caller drives each step   *)
(* by a call of its own, in any order, and may cancel at any time; a call  *)
(* that returns an error changes nothing.                                  *)
(*                                                                         *)
(* Completed is left in the call that enters it, Failed is never entered;  *)
(* the proposer election the handler is given is never read.               *)
(***************************************************************************)
EXTENDS MachineIntegers, SequencesExt

CONSTANTS
    InitialEpoch,    \* initial_epoch of EpochManagerConfig
    OfferedSets,     \* validator sets the caller may hand over
    OfferedBlocks,   \* blocks the caller may have examined
    PreparationWindow,   \* preparation_window of ReconfigConfig
    MaxEvents        \* bound on the pending events

ASSUME ReconfigConstants ==
    /\ MaxU64 \in Nat \ {0}
    /\ InitialEpoch \in U64
    /\ IsFiniteSet(OfferedSets)
    /\ \A set \in OfferedSets :
          /\ IsFiniteSet(DOMAIN set.validators)
          /\ \A v \in DOMAIN set.validators : set.validators[v] \in Nat
    /\ PreparationWindow \in Nat
    /\ MaxEvents \in Nat

VARIABLES
    status,        \* ReconfigStatus: Idle, Preparing or InProgress
    newEpoch,      \* next_epoch of Preparing, new_epoch of InProgress
    processed,     \* validators_processed of InProgress
    total,         \* total_validators of InProgress
    epoch,         \* EpochManager's epoch
    sets,          \* validator_sets: epoch -> validator set
    events         \* pending_events

vars == <<status, newEpoch, processed, total, epoch, sets, events>>

(***************************************************************************)
(* ValidatorSet: the epoch it was made for, and the power of each member.  *)
(***************************************************************************)
ValidatorSet(e, validators) == [epoch |-> e, validators |-> validators]

IsEmpty(set) == DOMAIN set.validators = {}

GetVotingPower(set, v) == IF v \in DOMAIN set.validators THEN set.validators[v] ELSE 0

TotalVotingPower(set) ==
    MapThenSumSet(LAMBDA v : set.validators[v], DOMAIN set.validators)

\* Mutant: two thirds are enough.
QuorumThreshold_TwoThirds(set) == (TotalVotingPower(set) * 2) \div 3

QuorumThreshold(set) == (TotalVotingPower(set) * 2) \div 3 + 1

\* The voters are an iterator: one that occurs twice counts twice.
HasQuorum(set, voters) ==
    MapThenSumSet(LAMBDA i : GetVotingPower(set, voters[i]), DOMAIN voters)
        >= QuorumThreshold(set)

Counts == 0..Max({0} \cup {Cardinality(DOMAIN set.validators) : set \in OfferedSets})

(***************************************************************************)
(* The handler.                                                            *)
(***************************************************************************)

\* a + 1 of a release build.
NextEpoch(a) == IF a = MaxU64 THEN 0 ELSE a + 1

\* The fields of a status that does not have them are 0.
Idle == status' = "Idle" /\ newEpoch' = 0 /\ processed' = 0 /\ total' = 0

IsInProgress == status \in {"Preparing", "InProgress"}

Init ==
    /\ status = "Idle" /\ newEpoch = 0 /\ processed = 0 /\ total = 0
    /\ epoch = InitialEpoch
    /\ sets = <<>>
    /\ events = <<>>

Store(e, set) == sets' = [f \in DOMAIN sets \cup {e} |-> IF f = e THEN set ELSE sets[f]]

\* Mutant: any later epoch is accepted.
PrepareReconfig_AnyLater(e) ==
    /\ ~IsInProgress
    /\ e > epoch
    /\ status' = "Preparing"
    /\ newEpoch' = e
    /\ UNCHANGED <<processed, total, epoch, sets, events>>

PrepareReconfig(e) ==
    /\ ~IsInProgress
    /\ e = NextEpoch(epoch)
    /\ status' = "Preparing"
    /\ newEpoch' = e
    /\ UNCHANGED <<processed, total, epoch, sets, events>>

\* set_validator_set: any epoch, at any time.
SetValidatorSet(e, set) ==
    /\ Store(e, set)
    /\ UNCHANGED <<status, newEpoch, processed, total, epoch, events>>

\* The epoch written in the set is not looked at.
BeginReconfig(set) ==
    /\ status = "Preparing"
    /\ ~IsEmpty(set)
    /\ status' = "InProgress"
    /\ processed' = 0
    /\ total' = Cardinality(DOMAIN set.validators)
    /\ Store(newEpoch, set)
    /\ UNCHANGED <<newEpoch, epoch, events>>

\* The count is whatever the caller says.
UpdateProgress(n) ==
    /\ status = "InProgress"
    /\ processed' = n
    /\ UNCHANGED <<status, newEpoch, total, epoch, sets, events>>

\* EpochManager::start_new_epoch returns neither OldEpoch nor SkippedEpoch.
StartNewEpochOk(e) == e > epoch /\ e = NextEpoch(epoch)

CompleteReconfig ==
    /\ status = "InProgress"
    /\ processed = total
    /\ StartNewEpochOk(newEpoch)
    /\ epoch' = newEpoch
    /\ Idle
    /\ UNCHANGED <<sets, events>>

NewEpochEvent(b) == [type |-> "NewEpoch", epoch |-> b.epoch, start_round |-> b.round]

\* process_block: a block of a later epoch announces it.
ProcessBlock(b) == IF b.epoch > epoch THEN {NewEpochEvent(b)} ELSE {}

\* should_reconfigure, with a saturating subtraction.
ShouldReconfigure(round, epochEndRound) == round + PreparationWindow >= epochEndRound

AddEvent(event) ==
    /\ Len(events) < MaxEvents
    /\ events' = Append(events, event)
    /\ UNCHANGED <<status, newEpoch, processed, total, epoch, sets>>

TakePendingEvents ==
    /\ events' = <<>>
    /\ UNCHANGED <<status, newEpoch, processed, total, epoch, sets>>

\* The set stored by begin_reconfig stays.
Cancel ==
    /\ Idle
    /\ events' = <<>>
    /\ UNCHANGED <<epoch, sets>>

Next ==
    \/ \E e \in U64 : PrepareReconfig(e)
    \/ \E e \in U64, set \in OfferedSets : SetValidatorSet(e, set)
    \/ \E set \in OfferedSets : BeginReconfig(set)
    \/ \E n \in Counts : UpdateProgress(n)
    \/ CompleteReconfig
    \/ \E b \in OfferedBlocks : \E event \in ProcessBlock(b) : AddEvent(event)
    \/ TakePendingEvents
    \/ Cancel

Spec == Init /\ [][Next]_vars

-----------------------------------------------------------------------------
(***************************************************************************)
(* Properties.                                                             *)
(***************************************************************************)

Announcements == {NewEpochEvent(b) : b \in OfferedBlocks}

\* The variables stay in their types.
TypeOK ==
    /\ status \in {"Idle", "Preparing", "InProgress"}
    /\ newEpoch \in U64
    /\ processed \in Counts
    /\ total \in Counts
    /\ epoch \in U64
    /\ DOMAIN sets \subseteq U64
    /\ \A e \in DOMAIN sets : sets[e] \in OfferedSets
    /\ events \in Seq(Announcements) /\ Len(events) <= MaxEvents

\* The epoch chosen by prepare_reconfig is still the next one whenever it is
\* used: start_new_epoch never refuses what complete_reconfig hands it, below
\* the last epoch, and no reconfiguration is left behind by an epoch change.
TransitionIsNext ==
    IsInProgress /\ epoch < MaxU64 => newEpoch = epoch + 1

\* Any two quorums of distinct voters of the set share more than a third of
\* its power.
QuorumsShareVoters(set) ==
    \A a, b \in SUBSET DOMAIN set.validators :
        HasQuorum(set, SetToSeq(a)) /\ HasQuorum(set, SetToSeq(b)) =>
            3 * MapThenSumSet(LAMBDA v : set.validators[v], a \cap b) > TotalVotingPower(set)

\* Every epoch entered has a validator set, whatever was cancelled or
\* replaced on the way, and the quorums of that set share voters.
EpochsHaveQuorums ==
    /\ \A e \in InitialEpoch + 1..epoch : e \in DOMAIN sets
    /\ epoch \in DOMAIN sets => QuorumsShareVoters(sets[epoch])

\* While validators are processed there is a set for the coming epoch, and
\* someone to process: complete_reconfig cannot go through at once.
InProgressHasSet ==
    status = "InProgress" => newEpoch \in DOMAIN sets /\ total > 0

\* The parts together with their types: wherever the caller breaks off, the
\* handler is in a state from which the next call means what it says.
TransitionsAreSound == TypeOK /\ TransitionIsNext /\ InProgressHasSet /\ EpochsHaveQuorums

\* A reconfiguration under way ends, below the last epoch: by completing, or
\* by a cancel.
ReconfigEnds ==
    (status = "InProgress" /\ epoch < MaxU64) ~> status # "InProgress"
=============================================================================
