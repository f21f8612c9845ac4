------------------------------ MODULE DagStore ------------------------------
(***************************************************************************)
(* InMemDag (consensus-core/src/dag/store.rs): the certified nodes of the  *)
(* DAG, one slot for each round and author, and which of them have been    *)
(* ordered.  Nodes of one slot may differ: an author equivocates, or sends *)
(* a node of another epoch, which the store does not look at.              *)
(*                                                                         *)
(* The vector of a round is indexed by author_to_index, which is one to    *)
(* one and which add_node makes room for: a slot stands for it.  A call    *)
(* that returns an error changes nothing.                                  *)
(***************************************************************************)
EXTENDS DagTypes, FiniteSets, FiniteSetsExt, SequencesExt

CONSTANTS
    Authors,     \* authors given to InMemDag::new
    Unknown,     \* authors of nodes that are not among them
    MaxRound,    \* bound on the rounds of nodes
    Epochs,      \* epochs of nodes
    MaxOrdered   \* bound on the number of nodes ordered

ASSUME DagStoreConstants ==
    /\ Authors \cap Unknown = {}
    /\ MaxRound \in Nat
    /\ Epochs \subseteq Nat
    /\ MaxOrdered \in Nat

VARIABLES
    nodes,      \* nodes_by_round: slot -> StoredNodeStatus
    log,        \* history: nodes in the order mark_ordered took them
    dropped     \* history: slots emptied by prune_below or clear

vars == <<nodes, log, dropped>>

Rounds == 0..MaxRound

Slots == [round : Rounds, author : Authors]

\* The nodes the network brings.
Nodes == UNION {CreateTestDag(e, Rounds, Authors \cup Unknown) : e \in Epochs}

SlotOf(n) == [round |-> NodeIdOf(n).round, author |-> NodeIdOf(n).author]

Init ==
    /\ nodes = <<>>
    /\ log = <<>>
    /\ dropped = {}

Unordered(n) == [node |-> n, ordered |-> FALSE]

\* The vector of the round is made or widened as needed.
Put(n) ==
    [s \in DOMAIN nodes \cup {SlotOf(n)} |->
        IF s = SlotOf(n) THEN Unordered(n) ELSE nodes[s]]

\* Mutant: a second node of the slot replaces the first.
AddNode_Replaces(n) ==
    /\ SlotOf(n).author \in Authors
    /\ nodes' = Put(n)
    /\ UNCHANGED <<log, dropped>>

\* Neither the round nor the epoch is compared with anything.
AddNode(n) ==
    /\ SlotOf(n).author \in Authors
    /\ SlotOf(n) \notin DOMAIN nodes
    /\ nodes' = Put(n)
    /\ UNCHANGED <<log, dropped>>

\* Mutant of mark_as_ordered: an ordered node may be ordered again.
MarkOrdered_Again(slot) ==
    /\ slot \in DOMAIN nodes
    /\ Len(log) < MaxOrdered
    /\ nodes' = [nodes EXCEPT ![slot].ordered = TRUE]
    /\ log' = Append(log, nodes[slot].node)
    /\ UNCHANGED dropped

MarkOrdered(slot) ==
    /\ slot \in DOMAIN nodes
    /\ ~nodes[slot].ordered
    /\ Len(log) < MaxOrdered
    /\ nodes' = [nodes EXCEPT ![slot].ordered = TRUE]
    /\ log' = Append(log, nodes[slot].node)
    /\ UNCHANGED dropped

Keep(kept) ==
    /\ nodes' = [s \in kept |-> nodes[s]]
    /\ dropped' = dropped \cup (DOMAIN nodes \ kept)

PruneBelow(minRound) ==
    /\ Keep({s \in DOMAIN nodes : s.round >= minRound})
    /\ UNCHANGED log

Clear ==
    /\ Keep({})
    /\ UNCHANGED log

Next ==
    \/ \E node \in Nodes : AddNode(node)
    \/ \E slot \in Slots : MarkOrdered(slot)
    \/ \E r \in Rounds : PruneBelow(r)
    \/ Clear

Spec == Init /\ [][Next]_vars

-----------------------------------------------------------------------------
(***************************************************************************)
(* Properties.                                                             *)
(***************************************************************************)

\* The variables stay in their types; a node is stored in its own slot.
TypeOK ==
    /\ DOMAIN nodes \subseteq Slots
    /\ \A s \in DOMAIN nodes :
          nodes[s] \in [node : Nodes, ordered : BOOLEAN] /\ SlotOf(nodes[s].node) = s
    /\ log \in Seq(Nodes) /\ Len(log) <= MaxOrdered
    /\ dropped \subseteq Slots

\* Of an author that equivocates, the first node of a round wins: while both
\* states hold the slot it holds the same node, and ordered stays ordered.
SlotsAreStable ==
    [][\A s \in DOMAIN nodes \cap DOMAIN nodes' :
          /\ nodes'[s].node = nodes[s].node
          /\ nodes[s].ordered => nodes'[s].ordered]_vars

\* No slot is ordered twice unless it was pruned or cleared meanwhile, and
\* what was ordered and not dropped is still there, as ordered.
OrderedOnceWhileStored ==
    /\ \A i, j \in DOMAIN log :
          i # j /\ SlotOf(log[i]) = SlotOf(log[j]) => SlotOf(log[i]) \in dropped
    /\ \A i \in DOMAIN log :
          SlotOf(log[i]) \notin dropped =>
              SlotOf(log[i]) \in DOMAIN nodes
              /\ nodes[SlotOf(log[i])] = [node |-> log[i], ordered |-> TRUE]
=============================================================================
