------------------------------- MODULE Engine -------------------------------
(***************************************************************************)
(* ConsensusRuntime and Consensus (consensus-core/src/consensus/runtime.rs *)
(* and mod.rs): the engine that owns a RoundManager and a Pacemaker, and   *)
(* the runtime that queues network messages for it.  Callers reach the     *)
(* engine through the runtime and, with consensus_mut(), directly.         *)
(*                                                                         *)
(* The engine hands proposals and votes to the round manager, whose        *)
(* variables and actions come from RoundManager.  Left out: the runtime's  *)
(* list of active tasks, which is never filled, and generate_proposal,     *)
(* which returns None on every path and changes nothing.                   *)
(***************************************************************************)
EXTENDS Pacemaker, Pipeline, SafetyRules, PendingVotes

CONSTANTS
    MaxRound, Blocks, VoteMsgs, AggregationMayFail,    \* of RoundManager
    InitialRound,    \* initial_round of the pacemaker's configuration
    Messages,        \* messages of the network: records with a type and a round
    MaxQueue,        \* bound on the queue of messages
    MaxProposals     \* bound on the proposals offered to a running engine

\* The variants of NetworkMessage; a sync message carries its target round or
\* the round of its blocks.
MessageTypes ==
    {"Proposal", "Vote", "QuorumCertificate", "Timeout", "SyncRequest", "SyncResponse"}

ASSUME EngineConstants ==
    /\ MaxRound \in U64
    /\ \A b \in Blocks : b.round \in 0..MaxRound
    /\ \A v \in VoteMsgs : v.round \in 0..MaxRound
    /\ AggregationMayFail \in BOOLEAN
    /\ InitialRound \in 0..MaxU64
    /\ \A m \in Messages :
          m.type \in MessageTypes /\ m.round \in 0..MaxU64
    /\ MaxQueue \in Nat
    /\ MaxProposals \in Nat

VARIABLES
    state,       \* ConsensusState
    isRunning,   \* ConsensusRuntime::is_running
    queue,       \* pending_messages
    pacemaker,
    pipeline,    \* PipelineStats
    results,     \* what the last call about messages returned
    handled,     \* history: certificates and timeouts a running engine took
    round, proposed, qc, pending, safety, formed, received, failed

managerVars == <<round, proposed, qc, pending, safety, formed, received, failed>>

vars == <<state, isRunning, queue, pacemaker, pipeline, results, handled, managerVars>>

Manager == INSTANCE RoundManager

\* Consensus::new.
EngineInit ==
    /\ state = "Bootstrapping"
    /\ pacemaker = NewPacemaker(InitialRound)
    /\ pipeline = NewPipelineStats
    /\ Manager!Init

\* ConsensusRuntime::new, around an engine that was not started.
RuntimeInit ==
    /\ isRunning = FALSE
    /\ queue = <<>>

Init ==
    /\ EngineInit
    /\ RuntimeInit
    /\ results = <<>>
    /\ handled = {}

(***************************************************************************)
(* Consensus.  CatchingUp is never entered, and Stopping is left at once.  *)
(***************************************************************************)
\* Mutant: a stopped engine is not started again.
CanStart_Once == state = "Bootstrapping"

CanStart == state \in {"Bootstrapping", "Stopped"}

CanStop == state \in {"Running", "CatchingUp"}

\* consensus_mut().start()
Start ==
    /\ CanStart
    /\ state' = "Running"
    /\ results' = <<>>
    /\ UNCHANGED <<isRunning, queue, pacemaker, pipeline, handled, managerVars>>

\* consensus_mut().stop()
Stop ==
    /\ CanStop
    /\ state' = "Stopped"
    /\ results' = <<>>
    /\ UNCHANGED <<isRunning, queue, pacemaker, pipeline, handled, managerVars>>

\* The pipeline comes first: a proposal of another round, or one whose
\* signature does not verify, has gone through it when the round manager
\* refuses it.  A validator reports voted = true, but neither asks nor tells
\* the safety rules.
ProcessProposal(b) ==
    /\ state = "Running"
    /\ pipeline.stage_counts["Receiving"] < MaxProposals
    /\ LET run == PipelineBlock(pipeline, b)
       IN  /\ pipeline' = run.stats
           /\ \/ IsCompleted(run) /\ Manager!ProcessProposal(b)
              \/ UNCHANGED managerVars
    /\ results' = <<>>
    /\ UNCHANGED <<state, isRunning, queue, pacemaker, handled>>

\* Votes do not pass the pipeline.
ProcessVote(v) ==
    /\ state = "Running"
    /\ \/ Manager!AcceptVote(v)
       \/ Manager!FormQuorumCertificate(v)
       \/ Manager!FormQuorumCertificateFails(v)
    /\ results' = <<>>
    /\ UNCHANGED <<state, isRunning, queue, pacemaker, pipeline, handled>>

\* process_qc and process_timeout reach the pacemaker only, and return the
\* error with which it refuses a round.
ProcessQc(pm, r) == RecordOrderedRound(pm, r)

ProcessTimeout(pm, r) == EnterNewRound(pm, WrappingSucc(r))

(***************************************************************************)
(* ConsensusRuntime.                                                       *)
(***************************************************************************)
\* What one message does to the pacemaker; proposals, votes and sync
\* messages do nothing, and an engine that is not running refuses.
MovePacemaker(pm, m) ==
    CASE state = "Running" /\ m.type = "QuorumCertificate" -> ProcessQc(pm, m.round)
      [] state = "Running" /\ m.type = "Timeout" -> ProcessTimeout(pm, m.round)
      [] OTHER -> pm

\* Mutant: a refused round counts as a success.
Report_Optimistic(pm, m) ==
    CASE m.type \in {"SyncRequest", "SyncResponse"} -> "Skipped"
      [] m.type \in {"QuorumCertificate", "Timeout"} /\ state # "Running" -> "Failed"
      [] OTHER -> "Success"

\* The ExecutionResult: proposals and votes are acknowledged and dropped; a
\* certificate or a timeout fails when the engine or its pacemaker refuses it.
Report(pm, m) ==
    CASE m.type \in {"Proposal", "Vote"} -> "Success"
      [] m.type \in {"SyncRequest", "SyncResponse"} -> "Skipped"
      [] m.type \in {"QuorumCertificate", "Timeout"} /\ state # "Running" -> "Failed"
      [] m.type = "QuorumCertificate" /\ ~CanRecordRound(pm, m.round) -> "Failed"
      [] m.type = "Timeout" /\ ~CanEnterRound(pm, WrappingSucc(m.round)) -> "Failed"
      [] OTHER -> "Success"

HandleMessage(run, m) ==
    [pacemaker |-> MovePacemaker(run.pacemaker, m),
     results |-> Append(run.results, [message |-> m, result |-> Report(run.pacemaker, m)])]

HandleMessages(msgs) ==
    FoldLeft(HandleMessage, [pacemaker |-> pacemaker, results |-> <<>>], msgs)

Remember(msgs) ==
    handled' = IF state = "Running"
               THEN handled \cup {m \in msgs : m.type \in {"QuorumCertificate", "Timeout"}}
               ELSE handled

AddNetworkMessage(m) ==
    /\ Len(queue) < MaxQueue
    /\ queue' = Append(queue, m)
    /\ results' = <<>>
    /\ UNCHANGED <<state, isRunning, pacemaker, pipeline, handled, managerVars>>

\* The whole queue in one call, running or not.
ProcessPendingMessages ==
    /\ queue # <<>>
    /\ pacemaker' = HandleMessages(queue).pacemaker
    /\ results' = HandleMessages(queue).results
    /\ queue' = <<>>
    /\ Remember(ToSet(queue))
    /\ UNCHANGED <<state, isRunning, pipeline, managerVars>>

\* Mutant: a stopped engine handles certificates.
HandleNetworkMessage_AnyState(m) ==
    /\ pacemaker' = IF m.type = "QuorumCertificate"
                    THEN ProcessQc(pacemaker, m.round)
                    ELSE MovePacemaker(pacemaker, m)
    /\ results' = HandleMessages(<<m>>).results
    /\ Remember({m})
    /\ UNCHANGED <<state, isRunning, queue, pipeline, managerVars>>

\* handle_network_message, and the engine's process_qc and process_timeout
\* called directly.
HandleNetworkMessage(m) ==
    /\ pacemaker' = HandleMessages(<<m>>).pacemaker
    /\ results' = HandleMessages(<<m>>).results
    /\ Remember({m})
    /\ UNCHANGED <<state, isRunning, queue, pipeline, managerVars>>

\* execute_block, broadcast_proposal and broadcast_vote: success, whatever the
\* state of runtime and engine, and nothing is executed or sent.
Acknowledge(m) ==
    /\ m.type \in {"Proposal", "Vote"}
    /\ results' = <<[message |-> m, result |-> "Success"]>>
    /\ UNCHANGED <<state, isRunning, queue, pacemaker, pipeline, handled, managerVars>>

\* is_running is set before Consensus::start, which may refuse.
RuntimeStart ==
    /\ ~isRunning
    /\ isRunning' = TRUE
    /\ state' = IF CanStart THEN "Running" ELSE state
    /\ results' = <<>>
    /\ UNCHANGED <<queue, pacemaker, pipeline, handled, managerVars>>

\* is_running is cleared before Consensus::stop; if that refuses, the queue
\* is kept.
RuntimeShutdown ==
    /\ isRunning
    /\ isRunning' = FALSE
    /\ \/ CanStop /\ state' = "Stopped" /\ queue' = <<>>
       \/ ~CanStop /\ UNCHANGED <<state, queue>>
    /\ results' = <<>>
    /\ UNCHANGED <<pacemaker, pipeline, handled, managerVars>>

Next ==
    \/ Start
    \/ Stop
    \/ \E b \in Blocks : ProcessProposal(b)
    \/ \E v \in VoteMsgs : ProcessVote(v)
    \/ \E m \in Messages : AddNetworkMessage(m)
    \/ ProcessPendingMessages
    \/ \E m \in Messages : HandleNetworkMessage(m)
    \/ \E m \in Messages : Acknowledge(m)
    \/ RuntimeStart
    \/ RuntimeShutdown

Spec == Init /\ [][Next]_vars

-----------------------------------------------------------------------------
(***************************************************************************)
(* Properties.                                                             *)
(***************************************************************************)
QcRounds == {m.round : m \in {x \in handled : x.type = "QuorumCertificate"}}

TimeoutRounds == {m.round : m \in {x \in handled : x.type = "Timeout"}}

Pacemakers == [current_round : 0..MaxU64, highest_ordered_round : 0..MaxU64]

Reports == [message : Messages, result : {"Success", "Failed", "Skipped"}]

\* The types of what the runtime and the engine keep themselves.
RuntimeTypeOK ==
    /\ state \in {"Bootstrapping", "Running", "Stopped"}
    /\ isRunning \in BOOLEAN
    /\ queue \in Seq(Messages) /\ Len(queue) <= MaxQueue
    /\ pacemaker \in Pacemakers
    /\ results \in Seq(Reports) /\ Len(results) <= Max({1, MaxQueue})
    /\ handled \subseteq Messages

\* The variables stay in their types.
TypeOK ==
    /\ RuntimeTypeOK
    /\ pipeline \in [stage_counts : [StageNames -> 0..MaxProposals],
                     total_processed : 0..(4 * MaxProposals),
                     failed : {0}, skipped : {0}]
    /\ Manager!TypeOK

\* Certificates and timeouts arrive late, twice and out of order, one by one
\* or from the queue, and none that reached a running engine is forgotten over
\* a stop and a restart: the pacemaker has the highest certificate, it has left
\* every round that timed out (u64::MAX has no next round to enter), and it is
\* in its first round or in the one after some message, ahead of nothing it
\* was told.
PacemakerFollowsMessages ==
    /\ pacemaker.highest_ordered_round =
          Max(QcRounds \cup {SaturatingSub(InitialRound, 1)})
    /\ pacemaker.current_round >= InitialRound
    /\ \A r \in TimeoutRounds \ {MaxU64} : pacemaker.current_round > r
    /\ pacemaker.current_round \in {r + 1 : r \in QcRounds \cup TimeoutRounds} \cup {InitialRound}

\* r, returned by a call that left the pacemaker as pm.
ReportIsTrue(pm, r) ==
    LET m == r.message
        running == state = "Running"
    IN  CASE m.type = "QuorumCertificate" ->
                \/ pm.highest_ordered_round >= m.round
                \/ r.result = "Failed" /\ ~running
          [] m.type = "Timeout" ->
                \/ pm.current_round > m.round
                \/ r.result = "Failed" /\ (~running \/ m.round = MaxU64)
          [] OTHER -> r.result # "Failed"

\* No two reports claim the same progress.
RisingReports(rs) ==
    \A i, j \in DOMAIN rs :
        /\ i < j
        /\ rs[i].result = "Success" /\ rs[j].result = "Success"
        /\ rs[i].message.type = rs[j].message.type
        /\ rs[i].message.type \in {"QuorumCertificate", "Timeout"}
        => rs[i].message.round < rs[j].message.round

\* What process_pending_messages and handle_network_message report is so when
\* they return.  A certificate or timeout that succeeded is covered by the
\* pacemaker, and went further than every one that succeeded before it in the
\* same call: a repeated or overtaken message is never reported as progress.
\* One that failed met an engine that was not running, a round the pacemaker
\* had already reached, or a timeout of the last round there is.
ReportsAreTrue ==
    /\ \A r \in ToSet(results) : ReportIsTrue(pacemaker, r)
    /\ RisingReports(results)

\* The inductive invariant of EngineProofs.
IInv ==
    /\ RuntimeTypeOK
    /\ PacemakerFollowsMessages
    /\ ReportsAreTrue

\* start and shutdown of the runtime write is_running before they ask the
\* engine, which may refuse: the flag and the engine agree all the same at
\* the end of the call that changed the flag.
FlagMatchesEngine ==
    [][isRunning' # isRunning => (isRunning' <=> state' = "Running")]_vars

\* A step of an engine that is not running, and is not being started,
\* changes neither the pacemaker nor the round manager.
StoppedIsFrozen ==
    [][state # "Running" => UNCHANGED <<pacemaker, managerVars>>]_vars
=============================================================================
