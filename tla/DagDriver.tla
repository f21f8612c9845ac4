----------------------------- MODULE DagDriver -----------------------------
(***************************************************************************)
(* DagDriver (consensus-core/src/dag/driver.rs) next to an InMemDag that   *)
(* its host keeps.  The driver owns an InMemDag too, but shares it and     *)
(* never writes it: process_certified_node drops the node, check_ordering  *)
(* orders nothing, prune removes nothing, and get_strong_links, which asks *)
(* that store, never finds a parent.                                       *)
(***************************************************************************)
EXTENDS DagStore

CONSTANTS
    StartRound,    \* start_round of DagDriver::new
    Offered,       \* nodes that may be given to the driver
    MaxPending     \* bound on the nodes waiting

ASSUME DagDriverConstants ==
    /\ StartRound \in Rounds
    /\ Offered \subseteq Nodes
    /\ MaxPending \in Nat

VARIABLES
    current_round,   \* the driver's round
    pending_nodes    \* VecDeque of nodes waiting

driverVars == <<current_round, pending_nodes>>

storeVars == <<nodes, log, dropped>>

DriverInit ==
    /\ Init
    /\ current_round = StartRound
    /\ pending_nodes = <<>>

\* The same round may be entered again.
EnterNewRound(r) ==
    /\ r >= current_round
    /\ current_round' = r
    /\ UNCHANGED <<pending_nodes, storeVars>>

AddPending(n) ==
    /\ Len(pending_nodes) < MaxPending
    /\ pending_nodes' = Append(pending_nodes, n)
    /\ UNCHANGED <<current_round, storeVars>>

\* process_certified_node: the node is dropped, and check_ordering, for which
\* the order rule finds nothing, hands nothing on.
ProcessCertifiedNode == UNCHANGED storeVars

\* process_pending: the whole queue in one call.  is_processing is set only
\* during the call, and the caller holds the driver by &mut meanwhile.
ProcessPending ==
    /\ pending_nodes # <<>>
    /\ pending_nodes' = <<>>
    /\ ProcessCertifiedNode
    /\ UNCHANGED current_round

HostNext == Next /\ UNCHANGED driverVars

DriverNext ==
    \/ \E r \in Rounds : EnterNewRound(r)
    \/ \E n \in Offered : AddPending(n)
    \/ ProcessPending

DriverSpec == DriverInit /\ [][HostNext \/ DriverNext]_<<storeVars, driverVars>>

-----------------------------------------------------------------------------
(***************************************************************************)
(* Properties.                                                             *)
(***************************************************************************)

\* The variables stay in their types.
DriverTypeOK ==
    /\ TypeOK
    /\ current_round \in Rounds
    /\ pending_nodes \in Seq(Offered) /\ Len(pending_nodes) <= MaxPending

\* The inductive invariant of ServiceProofs.
IInv == DriverTypeOK /\ OrderedOnceWhileStored
=============================================================================
