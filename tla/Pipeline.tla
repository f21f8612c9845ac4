------------------------------ MODULE Pipeline ------------------------------
(***************************************************************************)
(* Pipeline (consensus-core/src/pipeline/mod.rs): the stages a block goes  *)
(* through and the statistics kept of them.  No stage holds a block back   *)
(* yet, and the stage timeout and the limit on concurrent work are stored  *)
(* but never used.  process_qc counts nothing, and current_stage, which    *)
(* reset sets, never leaves Receiving: process_block has its own.          *)
(***************************************************************************)
EXTENDS Integers, Sequences, SequencesExt, FiniteSetsExt

\* Mutant: the last stage is not reached.
Stages_NoCommit == <<"Receiving", "Validation", "Processing">>

\* The stages in the order of Stage::next.
Stages == <<"Receiving", "Validation", "Processing", "Commit">>

StageNames == {"Receiving", "Validation", "Processing", "Commit"}

PipelineStats ==
    [stage_counts : [StageNames -> Nat], total_processed : Nat, failed : Nat, skipped : Nat]

NewPipelineStats ==
    [stage_counts |-> [s \in StageNames |-> 0], total_processed |-> 0, failed |-> 0, skipped |-> 0]

CountStage(stats, stage) ==
    [stats EXCEPT !.stage_counts[stage] = @ + 1, !.total_processed = @ + 1]

ShouldContinue(verdict) == verdict = "Continue"

ProcessAtStage(stage, block) == "Continue"

\* One turn of the loop of process_block; a block that was stopped or
\* skipped goes no further.
VisitStage(run, stage) ==
    LET verdict == ProcessAtStage(stage, run.block)
        counted == CountStage(run.stats, stage)
    IN  CASE ~ShouldContinue(run.verdict) -> run
          [] ShouldContinue(verdict) -> [run EXCEPT !.stats = counted]
          [] verdict = "Stop" ->
                [run EXCEPT !.verdict = verdict, !.stats = [counted EXCEPT !.failed = @ + 1]]
          [] verdict = "Skip" ->
                [run EXCEPT !.verdict = verdict, !.stats = [counted EXCEPT !.skipped = @ + 1]]

\* process_block: the statistics afterwards, and the verdict.
PipelineBlock(stats, block) ==
    FoldLeft(VisitStage, [stats |-> stats, block |-> block, verdict |-> "Continue"], Stages)

IsCompleted(run) == ShouldContinue(run.verdict)

\* A vote is counted as received and then processed without a count.
PipelineVote(stats) == CountStage(stats, "Receiving")
=============================================================================
