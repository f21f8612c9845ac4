----------------------------- MODULE Pacemaker -----------------------------
(***************************************************************************)
(* Pacemaker (consensus-core/src/liveness/pacemaker.rs): the round the     *)
(* liveness layer is in and the highest round known to be ordered.  The    *)
(* duration of a timeout, which follows from the two and which nothing in  *)
(* the repository waits for, is left out.                                  *)
(***************************************************************************)
EXTENDS MachineIntegers

ASSUME PacemakerConstants == MaxU64 \in Nat \ {0}

SaturatingSub(a, b) == IF a < b THEN 0 ELSE a - b

\* a + 1 of a release build.
WrappingSucc(a) == IF a = MaxU64 THEN 0 ELSE a + 1

NewPacemaker(initialRound) ==
    [current_round |-> initialRound,
     highest_ordered_round |-> SaturatingSub(initialRound, 1)]

CanEnterRound(pm, round) == round > pm.current_round

\* A refused call returns an error and leaves the pacemaker as it is.
EnterNewRound(pm, round) ==
    IF CanEnterRound(pm, round) THEN [pm EXCEPT !.current_round = round] ELSE pm

\* Mutant: an older round replaces a newer one.
RecordOrderedRound_Any(pm, round) == [pm EXCEPT !.highest_ordered_round = round]

CanRecordRound(pm, round) == round > pm.highest_ordered_round

RecordOrderedRound(pm, round) ==
    IF CanRecordRound(pm, round)
    THEN [pm EXCEPT !.highest_ordered_round = round]
    ELSE pm
=============================================================================
