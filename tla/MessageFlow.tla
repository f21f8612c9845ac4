---------------------------- MODULE MessageFlow ----------------------------
(***************************************************************************)
(* The message layer of consensus-core/src/network/mod.rs: a               *)
(* SimpleMessageHandler, a MessageRouter, and the Pipeline a host feeds    *)
(* with what the handler lets through.  A message is its variant of        *)
(* NetworkMessage; counters are u64 and far from their limit.              *)
(***************************************************************************)
EXTENDS Pipeline

CONSTANTS
    ValidateImmediately,   \* validate_immediately of NetworkConfig
    MaxMessages,           \* bound on the messages delivered
    Registered             \* message types the host has handlers for

MessageTypes ==
    {"Proposal", "Vote", "Timeout", "SyncRequest", "SyncResponse", "EpochChange"}

ASSUME MessageFlowConstants ==
    /\ ValidateImmediately \in BOOLEAN
    /\ MaxMessages \in Nat
    /\ Registered \subseteq MessageTypes

VARIABLES
    stats,            \* MessageHandlerStats of the handler
    pipeline,         \* PipelineStats
    handlers,         \* message types with a handler of their own
    default_handler,  \* whether there is a default handler
    handed,           \* history: messages handed to the handler, by type
    routed            \* history: messages handed to the router

flowVars == <<stats, pipeline, handlers, default_handler, handed, routed>>

Total(f) == MapThenSumSet(LAMBDA t : f[t], DOMAIN f)

NewHandlerStats ==
    [total_processed |-> 0, successful |-> 0, validation_failures |-> 0,
     ignored |-> 0, needs_action |-> 0]

FlowInit ==
    /\ stats = NewHandlerStats
    /\ pipeline = NewPipelineStats
    /\ handlers = {}
    /\ default_handler = FALSE
    /\ handed = [t \in MessageTypes |-> 0]
    /\ routed = 0

(***************************************************************************)
(* SimpleMessageHandler.  validate_message keeps the default of the trait. *)
(***************************************************************************)
ValidateMessage(t) == TRUE

\* The counter process_message adds to, which names its ProcessResult.
Category(t) ==
    CASE ValidateImmediately /\ ~ValidateMessage(t) -> "validation_failures"
      [] t \in {"Proposal", "Vote", "SyncResponse"} -> "successful"
      [] t \in {"Timeout", "SyncRequest", "EpochChange"} -> "needs_action"

\* record_success and its siblings.
Count(category) == [stats EXCEPT ![category] = @ + 1, !.total_processed = @ + 1]

\* The host hands proposals and votes it was told to accept to the pipeline.
FeedPipeline(t) ==
    CASE Category(t) = "successful" /\ t = "Proposal" -> PipelineBlock(pipeline, t).stats
      [] Category(t) = "successful" /\ t = "Vote" -> PipelineVote(pipeline)
      [] OTHER -> pipeline

ProcessMessage(t) ==
    /\ Total(handed) + routed < MaxMessages
    /\ stats' = Count(Category(t))
    /\ pipeline' = FeedPipeline(t)
    /\ handed' = [handed EXCEPT ![t] = @ + 1]
    /\ UNCHANGED <<handlers, default_handler, routed>>

(***************************************************************************)
(* MessageRouter.                                                          *)
(***************************************************************************)
RegisterHandler(t) ==
    /\ handlers' = handlers \cup {t}
    /\ UNCHANGED <<stats, pipeline, default_handler, handed, routed>>

SetDefaultHandler ==
    /\ default_handler' = TRUE
    /\ UNCHANGED <<stats, pipeline, handlers, handed, routed>>

\* With a handler, with a default handler and without either the answer is
\* Ok(None): handlers are shared and not mutable, so none is ever called.
RouteMessage(t) ==
    /\ Total(handed) + routed < MaxMessages
    /\ routed' = routed + 1
    /\ UNCHANGED <<stats, pipeline, handlers, default_handler, handed>>

FlowNext ==
    \/ \E t \in MessageTypes : ProcessMessage(t)
    \/ \E t \in Registered : RegisterHandler(t)
    \/ SetDefaultHandler
    \/ \E t \in MessageTypes : RouteMessage(t)

FlowSpec == FlowInit /\ [][FlowNext]_flowVars

-----------------------------------------------------------------------------
(***************************************************************************)
(* Properties.                                                             *)
(***************************************************************************)

\* The variables stay in their types.
FlowTypeOK ==
    /\ stats \in [DOMAIN NewHandlerStats -> Nat]
    /\ pipeline \in PipelineStats
    /\ handlers \subseteq Registered
    /\ default_handler \in BOOLEAN
    /\ handed \in [MessageTypes -> 0..MaxMessages]
    /\ routed \in 0..MaxMessages

\* What the pipeline received and what it committed differ by the votes: a
\* block is counted once in each stage, a vote only on arrival, and
\* total_processed counts visits of stages rather than messages.
PipelineCountsVisits ==
    /\ pipeline.stage_counts["Receiving"] - pipeline.stage_counts["Commit"] = handed["Vote"]
    /\ pipeline.total_processed = 4 * handed["Proposal"] + handed["Vote"]
    /\ pipeline.failed + pipeline.skipped = 0

\* Every block went through every stage, and votes only arrived.
StagesAreVisited ==
    \A s \in StageNames :
        pipeline.stage_counts[s] = handed["Proposal"] + (IF s = "Receiving" THEN handed["Vote"] ELSE 0)

\* The inductive invariant of ServiceProofs.
FlowIInv ==
    /\ FlowTypeOK
    /\ Total(handed) + routed <= MaxMessages
    /\ StagesAreVisited
    /\ PipelineCountsVisits
=============================================================================
