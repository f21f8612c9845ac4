--------------------------- MODULE ServiceProofs ---------------------------
(***************************************************************************)
(* Proofs about the services a host runs beside the vote path, each for    *)
(* all values of its constants: the DAG store and driver, the proposer     *)
(* elections with the reputations, and the message layer with the pipeline *)
(* behind it.  The three state machines share no variable.                 *)
(***************************************************************************)
EXTENDS DagDriver, ElectionRounds, MessageFlow, OperatorLemmas, SequenceTheorems

-----------------------------------------------------------------------------
(***************************************************************************)
(* The store.                                                              *)
(***************************************************************************)
\* A node the network brings names a slot: its round, and an author.
LEMMA NodeFacts ==
    ASSUME NEW n \in Nodes
    PROVE  /\ SlotOf(n).round \in Rounds
           /\ SlotOf(n).author \in Authors => SlotOf(n) \in Slots
  <1>1. PICK e \in Epochs : n \in CreateTestDag(e, Rounds, Authors \cup Unknown)
    BY DEF Nodes
  <1>2. PICK r \in Rounds, a \in Authors \cup Unknown : n = TestNode(e, r, a, r * 1000)
    BY <1>1 DEF CreateTestDag
  <1>3. SlotOf(n) = [round |-> r, author |-> a]
    BY <1>2 DEF SlotOf, NodeIdOf, TestNode, CertifiedNode, DagNode, DagNodeMetadata, DagNodeId
  <1> QED
    BY <1>3 DEF Slots

\* InMemDag::new.
LEMMA InitStore == Init => TypeOK /\ OrderedOnceWhileStored
  BY DagStoreConstants DEF Init, TypeOK, OrderedOnceWhileStored, Rounds

\* add_node fills an empty slot and leaves the others alone.
LEMMA AddNodeKeepsStore ==
    ASSUME TypeOK, OrderedOnceWhileStored, NEW n \in Nodes, AddNode(n)
    PROVE  TypeOK' /\ OrderedOnceWhileStored'
  <1>1. /\ DOMAIN nodes' = DOMAIN nodes \cup {SlotOf(n)}
        /\ \A s \in DOMAIN nodes : nodes'[s] = nodes[s]
        /\ nodes'[SlotOf(n)] = [node |-> n, ordered |-> FALSE]
        /\ log' = log /\ dropped' = dropped
    BY DEF AddNode, Put, Unordered
  <1>2. SlotOf(n) \in Slots
    BY NodeFacts DEF AddNode
  <1>3. TypeOK'
    <2>1. ASSUME NEW s \in DOMAIN nodes'
          PROVE  /\ nodes'[s] \in [node : Nodes, ordered : BOOLEAN]
                 /\ SlotOf(nodes'[s].node) = s
      <3>1. CASE s = SlotOf(n)
        <4>a. nodes'[s] = [node |-> n, ordered |-> FALSE]
          BY <1>1, <3>1, Zenon
        <4>1. nodes'[s].node = n /\ nodes'[s] \in [node : Nodes, ordered : BOOLEAN]
          BY <4>a
        <4> QED
          BY <3>1, <4>1
      <3>2. CASE s \in DOMAIN nodes
        BY <1>1, <3>2 DEF TypeOK
      <3> QED
        BY <1>1, <3>1, <3>2
    <2> QED
      BY <1>1, <1>2, <2>1 DEF TypeOK
  <1>4. OrderedOnceWhileStored'
    BY <1>1 DEF OrderedOnceWhileStored
  <1> QED
    BY <1>3, <1>4

\* mark_as_ordered refuses an ordered node, so a slot that is in the log and
\* was not dropped is not appended again.
LEMMA MarkOrderedKeepsStore ==
    ASSUME TypeOK, OrderedOnceWhileStored, NEW slot \in Slots, MarkOrdered(slot)
    PROVE  TypeOK' /\ OrderedOnceWhileStored'
  <1> DEFINE n == nodes[slot].node
             k == Len(log)
  <1>1. /\ slot \in DOMAIN nodes /\ n \in Nodes /\ SlotOf(n) = slot
        /\ log \in Seq(Nodes) /\ k \in Nat /\ k + 1 <= MaxOrdered
    BY DagStoreConstants DEF MarkOrdered, TypeOK
  <1>2. /\ DOMAIN nodes' = DOMAIN nodes
        /\ \A s \in DOMAIN nodes \ {slot} : nodes'[s] = nodes[s]
        /\ nodes'[slot] = [node |-> n, ordered |-> TRUE]
        /\ dropped' = dropped
    BY <1>1 DEF MarkOrdered, TypeOK
  <1>3. log' = Append(log, n)
    BY DEF MarkOrdered
  <1> HIDE DEF n
  <1>4. /\ log' \in Seq(Nodes) /\ Len(log') = k + 1
        /\ DOMAIN log = 1..k /\ DOMAIN log' = 1..(k + 1)
        /\ log'[k + 1] = n
        /\ \A i \in 1..k : log'[i] = log[i]
    BY <1>1, <1>3
  <1> HIDE DEF k
  <1>5. TypeOK'
    <2>1. ASSUME NEW s \in DOMAIN nodes'
          PROVE  /\ nodes'[s] \in [node : Nodes, ordered : BOOLEAN]
                 /\ SlotOf(nodes'[s].node) = s
      <3>1. CASE s = slot
        <4>a. nodes'[s] = [node |-> n, ordered |-> TRUE] /\ n \in Nodes
          BY <1>1, <1>2, <3>1, Zenon
        <4>1. nodes'[s].node = n /\ nodes'[s] \in [node : Nodes, ordered : BOOLEAN]
          BY <4>a
        <4> QED
          BY <1>1, <3>1, <4>1
      <3>2. CASE s \in DOMAIN nodes \ {slot}
        BY <1>2, <3>2 DEF TypeOK
      <3> QED
        BY <1>2, <3>1, <3>2
    <2> QED
      BY <1>1, <1>2, <1>4, <2>1 DEF TypeOK
  <1>6. ASSUME NEW i \in 1..k, SlotOf(log[i]) = slot PROVE slot \in dropped
    <2> SUFFICES ASSUME slot \notin dropped PROVE FALSE
      OBVIOUS
    <2>1. nodes[slot] = [node |-> log[i], ordered |-> TRUE]
      BY <1>4, <1>6 DEF OrderedOnceWhileStored
    <2>2. nodes[slot].ordered
      BY <2>1
    <2> QED
      BY <2>2 DEF MarkOrdered
  <1>7. \A i \in DOMAIN log' : i \in 1..k \/ i = k + 1
    BY <1>1, <1>4
  <1>8. ASSUME NEW i \in DOMAIN log', NEW j \in DOMAIN log', i # j,
               SlotOf(log'[i]) = SlotOf(log'[j])
        PROVE  SlotOf(log'[i]) \in dropped'
    <2>1. CASE i \in 1..k /\ j \in 1..k
      BY <1>2, <1>4, <1>8, <2>1 DEF OrderedOnceWhileStored
    <2>2. CASE i \in 1..k /\ j = k + 1
      BY <1>1, <1>2, <1>4, <1>6, <1>8, <2>2
    <2>3. CASE i = k + 1 /\ j \in 1..k
      BY <1>1, <1>2, <1>4, <1>6, <1>8, <2>3
    <2> QED
      BY <1>7, <1>8, <2>1, <2>2, <2>3
  <1>9. ASSUME NEW i \in DOMAIN log', SlotOf(log'[i]) \notin dropped'
        PROVE  /\ SlotOf(log'[i]) \in DOMAIN nodes'
               /\ nodes'[SlotOf(log'[i])] = [node |-> log'[i], ordered |-> TRUE]
    <2>1. CASE i = k + 1
      BY <1>1, <1>2, <1>4, <2>1
    <2>2. CASE i \in 1..k
      <3>1. SlotOf(log[i]) \notin dropped /\ SlotOf(log[i]) # slot
        BY <1>2, <1>4, <1>6, <1>9, <2>2
      <3> QED
        BY <1>2, <1>4, <2>2, <3>1 DEF OrderedOnceWhileStored
    <2> QED
      BY <1>7, <2>1, <2>2
  <1> QED
    BY <1>5, <1>8, <1>9 DEF OrderedOnceWhileStored

\* prune_below and clear empty slots, which are then remembered as dropped.
LEMMA KeepKeepsStore ==
    ASSUME TypeOK, OrderedOnceWhileStored, NEW kept \in SUBSET DOMAIN nodes,
           Keep(kept), UNCHANGED log
    PROVE  TypeOK' /\ OrderedOnceWhileStored'
  <1>1. /\ DOMAIN nodes' = kept
        /\ \A s \in kept : nodes'[s] = nodes[s]
        /\ dropped' = dropped \cup (DOMAIN nodes \ kept)
        /\ log' = log
    BY DEF Keep
  <1>2. TypeOK'
    BY <1>1 DEF TypeOK
  <1>3. OrderedOnceWhileStored'
    BY <1>1 DEF OrderedOnceWhileStored
  <1> QED
    BY <1>2, <1>3

\* Every call on the store.
LEMMA NextKeepsStore ==
    ASSUME TypeOK, OrderedOnceWhileStored, Next
    PROVE  TypeOK' /\ OrderedOnceWhileStored'
  <1>1. ASSUME NEW n \in Nodes, AddNode(n) PROVE TypeOK' /\ OrderedOnceWhileStored'
    BY <1>1, AddNodeKeepsStore
  <1>2. ASSUME NEW s \in Slots, MarkOrdered(s) PROVE TypeOK' /\ OrderedOnceWhileStored'
    BY <1>2, MarkOrderedKeepsStore
  <1>3. ASSUME NEW r \in Rounds, PruneBelow(r) PROVE TypeOK' /\ OrderedOnceWhileStored'
    <2> DEFINE kept == {s \in DOMAIN nodes : s.round >= r}
    <2>1. Keep(kept) /\ UNCHANGED log /\ kept \in SUBSET DOMAIN nodes
      BY <1>3 DEF PruneBelow
    <2> HIDE DEF kept
    <2> QED
      BY <2>1, KeepKeepsStore
  <1>4. ASSUME Clear PROVE TypeOK' /\ OrderedOnceWhileStored'
    <2>1. Keep({}) /\ UNCHANGED log /\ {} \in SUBSET DOMAIN nodes
      BY <1>4 DEF Clear
    <2> QED
      BY <2>1, KeepKeepsStore
  <1> QED
    BY <1>1, <1>2, <1>3, <1>4 DEF Next

-----------------------------------------------------------------------------
(***************************************************************************)
(* The driver and its host.                                                *)
(***************************************************************************)
\* A step of the driver leaves the store as it is.
LEMMA StoreUnchanged ==
    ASSUME TypeOK, OrderedOnceWhileStored, UNCHANGED storeVars
    PROVE  TypeOK' /\ OrderedOnceWhileStored'
  BY DEF storeVars, TypeOK, OrderedOnceWhileStored

\* The inductive step: the driver never touches the store.
LEMMA NextKeepsIInv ==
    IInv /\ [HostNext \/ DriverNext]_<<storeVars, driverVars>> => IInv'
  <1> SUFFICES ASSUME IInv, [HostNext \/ DriverNext]_<<storeVars, driverVars>>
               PROVE  IInv'
    OBVIOUS
  <1> USE DEF IInv, DriverTypeOK
  <1>1. CASE HostNext
    <2>1. TypeOK' /\ OrderedOnceWhileStored'
      BY <1>1, NextKeepsStore DEF HostNext
    <2> QED
      BY <1>1, <2>1 DEF HostNext, driverVars
  <1>2. ASSUME NEW r \in Rounds, EnterNewRound(r) PROVE IInv'
    <2>1. TypeOK' /\ OrderedOnceWhileStored'
      BY <1>2, StoreUnchanged DEF EnterNewRound
    <2> QED
      BY <1>2, <2>1 DEF EnterNewRound
  <1>3. ASSUME NEW n \in Offered, AddPending(n) PROVE IInv'
    <2>1. TypeOK' /\ OrderedOnceWhileStored'
      BY <1>3, StoreUnchanged DEF AddPending
    <2>2. pending_nodes' \in Seq(Offered) /\ Len(pending_nodes') <= MaxPending
      BY <1>3, DagDriverConstants DEF AddPending
    <2> QED
      BY <1>3, <2>1, <2>2 DEF AddPending
  <1>4. CASE ProcessPending
    <2>1. TypeOK' /\ OrderedOnceWhileStored'
      BY <1>4, StoreUnchanged DEF ProcessPending, ProcessCertifiedNode
    <2>2. pending_nodes' \in Seq(Offered) /\ Len(pending_nodes') <= MaxPending
      BY <1>4, DagDriverConstants DEF ProcessPending
    <2> QED
      BY <1>4, <2>1, <2>2 DEF ProcessPending
  <1>5. CASE UNCHANGED <<storeVars, driverVars>>
    <2>1. TypeOK' /\ OrderedOnceWhileStored'
      BY <1>5, StoreUnchanged
    <2> QED
      BY <1>5, <2>1 DEF driverVars
  <1> QED
    BY <1>1, <1>2, <1>3, <1>4, <1>5 DEF DriverNext

\* A new driver next to a new store.
LEMMA InitIInv == DriverInit => IInv
  <1> SUFFICES ASSUME DriverInit PROVE IInv
    OBVIOUS
  <1>1. TypeOK /\ OrderedOnceWhileStored
    BY InitStore DEF DriverInit
  <1> QED
    BY <1>1, DagDriverConstants DEF DriverInit, IInv, DriverTypeOK

\* The inductive invariant holds in every state of the driver and its host.
THEOREM Invariance == DriverSpec => []IInv
  BY InitIInv, NextKeepsIInv, PTL DEF DriverSpec

\* However nodes are added, ordered, pruned and cleared, a slot is in the
\* order twice only if it was dropped in between, and what was ordered and
\* not dropped is still stored, as ordered (mark_as_ordered).
THEOREM OrderedOnce == DriverSpec => []OrderedOnceWhileStored
  <1>1. IInv => OrderedOnceWhileStored
    BY DEF IInv
  <1> QED
    BY Invariance, <1>1, PTL

\* The first node of a slot stays while the slot is stored, whatever its
\* author sends later, and ordered stays ordered (add_node).
THEOREM FirstNodeWins == DriverSpec => SlotsAreStable
  <1> DEFINE Stable == \A s \in DOMAIN nodes \cap DOMAIN nodes' :
                          /\ nodes'[s].node = nodes[s].node
                          /\ nodes[s].ordered => nodes'[s].ordered
  <1>1. ASSUME IInv, [HostNext \/ DriverNext]_<<storeVars, driverVars>>
        PROVE  [Stable]_vars
    <2>1. CASE UNCHANGED storeVars
      BY <2>1 DEF storeVars, vars
    <2>2. CASE HostNext
      <3>1. ASSUME NEW n \in Nodes, AddNode(n) PROVE Stable
        BY <3>1 DEF AddNode, Put
      <3>2. ASSUME NEW s \in Slots, MarkOrdered(s) PROVE Stable
        <4>1. ASSUME NEW t \in DOMAIN nodes
              PROVE  /\ nodes'[t].node = nodes[t].node
                     /\ nodes[t].ordered => nodes'[t].ordered
          <5>1. nodes[t] \in [node : Nodes, ordered : BOOLEAN]
            BY <1>1, <4>1 DEF IInv, DriverTypeOK, TypeOK
          <5>2. nodes'[t] = IF t = s THEN [nodes[t] EXCEPT !.ordered = TRUE] ELSE nodes[t]
            BY <3>2, <4>1 DEF MarkOrdered
          <5> QED
            BY <5>1, <5>2
        <4> QED
          BY <4>1
      <3>3. ASSUME NEW r \in Rounds, PruneBelow(r) PROVE Stable
        BY <3>3 DEF PruneBelow, Keep
      <3>4. ASSUME Clear PROVE Stable
        BY <3>4 DEF Clear, Keep
      <3> QED
        BY <2>2, <3>1, <3>2, <3>3, <3>4 DEF HostNext, Next
    <2>3. CASE DriverNext
      BY <2>1, <2>3 DEF DriverNext, EnterNewRound, AddPending, ProcessPending, ProcessCertifiedNode
    <2> QED
      BY <1>1, <2>1, <2>2, <2>3
  <1> QED
    BY <1>1, Invariance, PTL DEF DriverSpec, SlotsAreStable

-----------------------------------------------------------------------------
(***************************************************************************)
(* The elections: RoundRobinProposerElection, WeightedProposerElection and *)
(* the reputation tracker.                                                 *)
(***************************************************************************)
\* The list of validators with their powers is the list of proposers, each
\* with a power.
LEMMA WeightedFacts ==
    ASSUME ElectionTypeOK
    PROVE  /\ Len(Proposers) \in Nat
           /\ DOMAIN Proposers = 1..Len(Proposers)
           /\ DOMAIN weighted = 1..Len(Proposers)
           /\ Len(weighted) = Len(Proposers)
           /\ weighted = <<>> <=> Proposers = <<>>
           /\ Proposers = <<>> <=> Len(Proposers) = 0
           /\ \A i \in 1..Len(Proposers) :
                 weighted[i].id = Proposers[i] /\ Proposers[i] \in Names /\ weighted[i].power \in Nat
  <1> DEFINE n == Len(Proposers)
             T == [id : Names, power : 0..MaxPower]
  <1>1. n \in Nat /\ DOMAIN Proposers = 1..n /\ (Proposers = <<>> <=> n = 0)
    BY ElectionConstants
  <1>2. weighted \in [1..n -> T]
    BY <1>1 DEF ElectionTypeOK
  <1>3. weighted \in Seq(T)
    <2> HIDE DEF n, T
    <2>1. Seq(T) = UNION {[1..k -> T] : k \in Nat}
      BY SeqDef, Zenon
    <2>2. [1..n -> T] \in {[1..k -> T] : k \in Nat}
      BY <1>1, Zenon
    <2> QED
      BY <1>2, <2>1, <2>2, Zenon
  <1>4. Len(weighted) = n
    BY <1>1, <1>2, <1>3
  <1>5. weighted = <<>> <=> n = 0
    BY <1>1, <1>3, <1>4
  <1>6. ASSUME NEW i \in 1..n
        PROVE  weighted[i].id = Proposers[i] /\ Proposers[i] \in Names /\ weighted[i].power \in Nat
    <2>1. weighted[i] \in T /\ 0..MaxPower \subseteq Nat
      BY <1>2, ElectionConstants
    <2>2. weighted[i].power \in Nat
      BY <2>1
    <2>3. weighted[i].id = Proposers[i] /\ Proposers[i] \in Names
      BY <1>1 DEF ElectionTypeOK, Names
    <2> QED
      BY <2>2, <2>3
  <1> QED
    BY <1>1, <1>2, <1>4, <1>5, <1>6

\* The cumulated powers as a sum over a function.
Powers == [i \in DOMAIN weighted |-> weighted[i].power]

\* The running total of select_weighted_proposer is such a sum.
LEMMA CumulativeIsSum ==
    ASSUME ElectionTypeOK, NEW i \in 0..Len(Proposers)
    PROVE  Cumulative(weighted, i) = SumOver(Powers, 1..i)
  <1> DEFINE D == 1..i
             g == [j \in D |-> weighted[j].power]
  <1>1. IsFiniteSet(D)
    BY WeightedFacts, FS_Interval
  <1>2. MapThenSumSet(LAMBDA j : weighted[j].power, D) = SumOver(g, D)
    BY DEF SumOver, MapThenSumSet, MapThenFoldSet
  <1>3. \A j \in D : g[j] = Powers[j]
    BY WeightedFacts DEF Powers
  <1> HIDE DEF g, D
  <1>4. SumOver(g, D) = SumOver(Powers, D)
    BY <1>1, <1>3, SumAgree
  <1> QED
    BY <1>2, <1>4 DEF Cumulative, D

\* Each validator adds its power to those before it.
LEMMA CumulativeStep ==
    ASSUME ElectionTypeOK
    PROVE  /\ Cumulative(weighted, 0) = 0
           /\ \A i \in 0..Len(Proposers) : Cumulative(weighted, i) \in Nat
           /\ \A i \in 1..Len(Proposers) :
                 Cumulative(weighted, i) = Cumulative(weighted, i - 1) + weighted[i].power
           /\ TotalVotingPower(weighted) = Cumulative(weighted, Len(Proposers))
  <1> DEFINE n == Len(Proposers)
  <1>0. n \in Nat /\ DOMAIN weighted = 1..n /\ \A i \in 1..n : Powers[i] = weighted[i].power /\ Powers[i] \in Nat
    BY WeightedFacts DEF Powers
  <1>1. Cumulative(weighted, 0) = 0
    <2>1. Cumulative(weighted, 0) = SumOver(Powers, 1..0) /\ 1..0 = {}
      BY <1>0, CumulativeIsSum
    <2> QED
      BY <2>1, SumEmpty
  <1>2. ASSUME NEW i \in 0..n PROVE Cumulative(weighted, i) \in Nat
    <2>a. IsFiniteSet(1..i)
      BY <1>0, FS_Interval
    <2>1. IsFiniteSet(1..i) /\ \A j \in 1..i : Powers[j] \in Nat
      BY <1>0, <2>a
    <2> QED
      BY <2>1, CumulativeIsSum, SumType
  <1>3. ASSUME NEW i \in 1..n
        PROVE  Cumulative(weighted, i) = Cumulative(weighted, i - 1) + weighted[i].power
    <2>1. i \in 0..n /\ i - 1 \in 0..n /\ i \in 1..i /\ (1..i) \ {i} = 1..(i - 1)
      BY <1>0
    <2>a. IsFiniteSet(1..i)
      BY <1>0, FS_Interval
    <2>2. IsFiniteSet(1..i) /\ \A j \in 1..i : Powers[j] \in Nat
      BY <1>0, <2>a
    <2>3. SumOver(Powers, 1..i) = Powers[i] + SumOver(Powers, 1..(i - 1))
      BY <2>1, <2>2, SumRemove
    <2>4. Cumulative(weighted, i) = Powers[i] + Cumulative(weighted, i - 1)
      BY <2>1, <2>3, CumulativeIsSum
    <2> QED
      BY <1>0, <1>2, <2>1, <2>4
  <1>4. TotalVotingPower(weighted) = Cumulative(weighted, n)
    BY WeightedFacts DEF TotalVotingPower
  <1> QED
    BY <1>1, <1>2, <1>3, <1>4

\* The running total never falls.
LEMMA CumulativeGrows ==
    ASSUME ElectionTypeOK, NEW i \in 0..Len(Proposers), NEW j \in i..Len(Proposers)
    PROVE  Cumulative(weighted, i) <= Cumulative(weighted, j)
  <1>0. Len(Proposers) \in Nat /\ DOMAIN weighted = 1..Len(Proposers)
    BY WeightedFacts
  <1>1. IsFiniteSet(1..j) /\ 1..i \in SUBSET (1..j) /\ j \in 0..Len(Proposers)
    BY <1>0, FS_Interval
  <1>2. \A k \in 1..j : Powers[k] \in Nat
    BY <1>0, WeightedFacts DEF Powers
  <1>3. SumOver(Powers, 1..i) <= SumOver(Powers, 1..j)
    BY <1>1, <1>2, SumMonotone
  <1> QED
    BY <1>1, <1>3, CumulativeIsSum

\* The total is zero exactly when no validator has power.
LEMMA NoPower ==
    ASSUME ElectionTypeOK
    PROVE  TotalVotingPower(weighted) = 0 <=> \A i \in DOMAIN weighted : weighted[i].power = 0
  <1> DEFINE n == Len(Proposers)
             Cum(i) == Cumulative(weighted, i)
             Good == {k \in 0..n : Cum(k) = 0}
  <1>0. n \in Nat /\ DOMAIN weighted = 1..n /\ TotalVotingPower(weighted) = Cum(n)
    BY WeightedFacts, CumulativeStep
  <1>1. ASSUME Cum(n) = 0, NEW i \in 1..n PROVE weighted[i].power = 0
    <2>1. Cum(i) <= Cum(n) /\ Cum(i) = Cum(i - 1) + weighted[i].power
      BY <1>0, CumulativeGrows, CumulativeStep
    <2>2. Cum(i - 1) \in Nat /\ Cum(i) \in Nat /\ weighted[i].power \in Nat
      BY <1>0, CumulativeStep, WeightedFacts
    <2> HIDE DEF Cum
    <2> QED
      BY <1>1, <2>1, <2>2
  <1>2. ASSUME \A i \in 1..n : weighted[i].power = 0 PROVE Cum(n) = 0
    <2>1. 0 \in Good
      BY <1>0, CumulativeStep
    <2>2. ASSUME NEW k \in 0..n - 1, k \in Good PROVE k + 1 \in Good
      <3>1. k + 1 \in 1..n /\ (k + 1) - 1 = k /\ k + 1 \in 0..n
        BY <1>0
      <3>2. Cum(k + 1) = Cum(k) + weighted[k + 1].power
        BY <3>1, CumulativeStep
      <3> QED
        BY <1>2, <2>2, <3>1, <3>2
    <2> HIDE DEF Good
    <2>3. n \in Good
      BY <1>0, <2>1, <2>2, PrefixInduction
    <2> QED
      BY <2>3 DEF Good
  <1> QED
    BY <1>0, <1>1, <1>2

\* A target below the total falls into the share of exactly one validator,
\* the one the election takes: what the fallback of the code is for cannot
\* happen.
LEMMA ShareOfTarget ==
    ASSUME ElectionTypeOK, NEW t \in 0..(TotalVotingPower(weighted) - 1)
    PROVE  LET first == Min({i \in DOMAIN weighted : t < Cumulative(weighted, i)})
           IN  /\ first \in 1..Len(Proposers)
               /\ \A j \in 1..Len(Proposers) :
                     first = j <=> Cumulative(weighted, j - 1) <= t /\ t < Cumulative(weighted, j)
  <1> DEFINE n == Len(Proposers)
             Cum(i) == Cumulative(weighted, i)
             S == {i \in DOMAIN weighted : t < Cum(i)}
             first == Min(S)
  <1>0. /\ n \in Nat /\ DOMAIN weighted = 1..n /\ TotalVotingPower(weighted) = Cum(n)
        /\ Cum(0) = 0 /\ \A i \in 0..n : Cum(i) \in Nat
    BY WeightedFacts, CumulativeStep
  <1>a. \A i \in 0..n : \A j \in i..n : Cum(i) <= Cum(j)
    BY CumulativeGrows
  <1> HIDE DEF Cum, n
  <1>1. t \in Nat /\ t < Cum(n) /\ n # 0
    BY <1>0
  <1>2. S \in SUBSET Int /\ S \in SUBSET (1..n) /\ n \in S
    BY <1>0, <1>1
  <1>3. IsFiniteSet(S)
    <2>1. IsFiniteSet(1..n)
      BY <1>0, FS_Interval
    <2> HIDE DEF S
    <2> QED
      BY <1>2, <2>1, FS_Subset
  <1>4. first \in S /\ \A i \in S : first <= i
    <2> HIDE DEF S
    <2> QED
      BY <1>2, <1>3, MinFacts
  <1> HIDE DEF first
  <1>5. ASSUME NEW j \in 1..n, first = j PROVE Cum(j - 1) <= t /\ t < Cum(j)
    <2>1. t < Cum(j)
      BY <1>4, <1>5
    <2>2. CASE j = 1
      BY <1>0, <1>1, <2>1, <2>2
    <2>3. CASE j # 1
      <3>1. j - 1 \in 1..n /\ j - 1 \in 0..n /\ ~(j <= j - 1)
        BY <1>0, <2>3
      <3>2. ~(t < Cum(j - 1))
        BY <1>0, <1>4, <1>5, <3>1
      <3> QED
        BY <1>0, <1>1, <2>1, <3>1, <3>2
    <2> QED
      BY <2>2, <2>3
  <1>6. ASSUME NEW j \in 1..n, Cum(j - 1) <= t, t < Cum(j) PROVE first = j
    <2>1. j \in S /\ first <= j /\ first \in 1..n /\ t < Cum(first)
      BY <1>0, <1>2, <1>4, <1>6
    <2>2. CASE first < j
      <3>1. first \in 0..n /\ j - 1 \in first..n /\ j - 1 \in 0..n
        BY <1>0, <2>1, <2>2
      <3>2. Cum(first) <= Cum(j - 1)
        BY <1>a, <3>1
      <3> QED
        BY <1>0, <1>1, <1>6, <2>1, <3>1, <3>2
    <2> QED
      BY <2>1, <2>2
  <1>7. first \in 1..n
    BY <1>2, <1>4
  <1> QED
    BY <1>5, <1>6, <1>7 DEF first, n, Cum

\* The weighted election of a round.
LEMMA WeightedElects ==
    ASSUME ElectionTypeOK, TotalVotingPower(weighted) # 0, NEW r \in Nat, r >= initialRound
    PROVE  \E j \in 1..Len(Proposers) :
              /\ WeightedProposer(weighted, initialRound, r) = {Proposers[j]}
              /\ \A k \in 1..Len(Proposers) :
                    j = k <=> /\ Cumulative(weighted, k - 1) <= r % TotalVotingPower(weighted)
                              /\ r % TotalVotingPower(weighted) < Cumulative(weighted, k)
  <1> DEFINE n == Len(Proposers)
             total == TotalVotingPower(weighted)
             t == r % total
             first == Min({i \in DOMAIN weighted : t < Cumulative(weighted, i)})
  <1>1. n \in Nat /\ total \in Nat /\ total > 0 /\ weighted # <<>>
    BY WeightedFacts, CumulativeStep
  <1>2. initialRound \in Nat
    BY ElectionConstants DEF ElectionTypeOK
  <1>3. t \in 0..(total - 1)
    <2> HIDE DEF total
    <2> QED
      BY <1>1, ModFacts
  <1>4. /\ first \in 1..n
        /\ \A k \in 1..n :
              first = k <=> Cumulative(weighted, k - 1) <= t /\ t < Cumulative(weighted, k)
    <2> HIDE DEF t
    <2> QED
      BY <1>3, ShareOfTarget
  <1>5. WeightedProposer(weighted, initialRound, r) = {weighted[first].id}
    BY <1>1, <1>2 DEF WeightedProposer
  <1>6. weighted[first].id = Proposers[first]
    <2> HIDE DEF first
    <2> QED
      BY <1>4, WeightedFacts
  <1> HIDE DEF first, t, total, n
  <1> QED
    BY <1>4, <1>5, <1>6 DEF n, t, total

\* As many consecutive rounds as there is power run through every remainder
\* once, so each validator is elected as often as its share is long.
LEMMA ElectionsAreProportional == ElectionIInv => WeightedIsProportional
  <1> SUFFICES ASSUME ElectionIInv,
                      NEW from \in 1..(Len(shares) - TotalVotingPower(weighted) + 1),
                      NEW i \in DOMAIN weighted
               PROVE  Turns(shares, from, from + TotalVotingPower(weighted) - 1, weighted[i].id)
                         = weighted[i].power
    BY DEF WeightedIsProportional
  <1> DEFINE n == Len(Proposers)
             total == TotalVotingPower(weighted)
             Cum(k) == Cumulative(weighted, k)
             window == from..(from + total - 1)
  <1>0. ElectionTypeOK /\ HistoriesFollowRounds
    BY DEF ElectionIInv
  <1>1. /\ n \in Nat /\ DOMAIN weighted = 1..n /\ total \in Nat /\ total = Cum(n)
        /\ i - 1 \in 0..n /\ i \in 0..n /\ Cum(i - 1) \in Nat /\ Cum(i) \in Nat
        /\ Cum(i) = Cum(i - 1) + weighted[i].power /\ weighted[i].power \in Nat
        /\ weighted[i].id = Proposers[i]
    BY <1>0, WeightedFacts, CumulativeStep
  <1>2. from \in Nat /\ initialRound \in Nat /\ shares \in Seq(Names) /\ Len(shares) \in Nat
    BY <1>0, ElectionConstants DEF ElectionTypeOK
  <1>3. CASE total = 0
    <2>1. weighted[i].power = 0
      BY <1>0, <1>3, NoPower
    <2>2. window = {}
      BY <1>2, <1>3
    <2>3. Turns(shares, from, from + total - 1, weighted[i].id) = Cardinality({})
      <3>1. {k \in window : shares[k] = weighted[i].id} = {}
        BY <2>2
      <3> QED
        BY <3>1 DEF Turns
    <2> QED
      BY <2>1, <2>3, FS_EmptySet
  <1>4. CASE total # 0
    <2> DEFINE c == initialRound - 1
               A == {k \in window : Cum(i - 1) <= (c + k) % total /\ (c + k) % total < Cum(i)}
    <2>1. ASSUME NEW k \in window
          PROVE  shares[k] = weighted[i].id
                    <=> Cum(i - 1) <= (c + k) % total /\ (c + k) % total < Cum(i)
      <3>1. k \in DOMAIN shares /\ c + k \in Nat /\ c + k >= initialRound /\ initialRound + k - 1 = c + k
        <4>1. from \in 1..(Len(shares) - total + 1) /\ DOMAIN shares = 1..Len(shares)
          BY <1>2
        <4> HIDE DEF total
        <4>2. k \in Int /\ k >= 1 /\ k <= Len(shares)
          BY <1>1, <1>2, <4>1
        <4> QED
          BY <1>2, <4>1, <4>2
      <3>2. PICK j \in 1..n :
               /\ WeightedProposer(weighted, initialRound, c + k) = {Proposers[j]}
               /\ j = i <=> Cum(i - 1) <= (c + k) % total /\ (c + k) % total < Cum(i)
        <4> HIDE DEF c
        <4> QED
          BY <1>0, <1>1, <1>4, <3>1, WeightedElects
      <3>3. shares[k] = Proposers[j]
        <4>1. {shares[k]} = WeightedProposer(weighted, initialRound, initialRound + k - 1)
          BY <1>0, <3>1 DEF HistoriesFollowRounds
        <4> QED
          BY <3>1, <3>2, <4>1
      <3>4. Proposers[j] = Proposers[i] <=> j = i
        BY <1>0, <1>1, WeightedFacts, ElectionConstants
      <3> QED
        BY <1>1, <3>2, <3>3, <3>4
    <2>2. Turns(shares, from, from + total - 1, weighted[i].id) = Cardinality(A)
      <3>1. {k \in window : shares[k] = weighted[i].id} = A
        BY <2>1
      <3> QED
        BY <3>1 DEF Turns
    <2>3. Cardinality(A) = Cum(i) - Cum(i - 1)
      <3>1. Cum(i) <= total
        BY <1>0, <1>1, CumulativeGrows
      <3>2. /\ Cum(i - 1) \in 0..total /\ Cum(i) \in Cum(i - 1)..total
            /\ c \in Int /\ from \in Int /\ total \in Nat /\ total > 0
        <4> HIDE DEF Cum, total
        <4> QED
          BY <1>1, <1>2, <1>4, <3>1
      <3> HIDE DEF c, Cum, total
      <3> QED
        BY <3>2, WindowCount
    <2> QED
      BY <1>1, <2>2, <2>3
  <1> QED
    BY <1>3, <1>4

\* Each validator is elected in the rounds of its remainder, and no remainder
\* comes up two times more often than another.
LEMMA TurnsAreFair == ElectionIInv => RoundRobinIsFair
  <1> SUFFICES ASSUME ElectionIInv, NEW a \in Names, NEW b \in Names
               PROVE  Turns(turns, 1, Len(turns), a) <= Turns(turns, 1, Len(turns), b) + 1
    BY DEF RoundRobinIsFair
  <1> DEFINE n == Len(Proposers)
             m == Len(turns)
  <1>0. ElectionTypeOK /\ HistoriesFollowRounds
    BY DEF ElectionIInv
  <1>1. n \in Nat /\ DOMAIN Proposers = 1..n /\ (Proposers = <<>> <=> n = 0)
    BY <1>0, WeightedFacts
  <1>2. initialRound \in Nat /\ m \in Nat /\ DOMAIN turns = 1..m
    BY <1>0, ElectionConstants DEF ElectionTypeOK
  <1>3. ASSUME NEW x \in Names
        PROVE  \E k \in 0..(n - 1) :
                  Turns(turns, 1, m, x) = Cardinality({i \in 1..m : (i - 1) % n = k})
    <2>1. PICK j \in 1..n : x = Proposers[j]
      BY <1>1 DEF Names
    <2> DEFINE k == j - 1
    <2>2. k \in 0..(n - 1) /\ n > 0
      BY <1>1
    <2>3. ASSUME NEW i \in 1..m PROVE turns[i] = x <=> (i - 1) % n = k
      <3>1. {turns[i]} = RoundRobinProposer(Proposers, initialRound, initialRound + i - 1)
        BY <1>0, <1>2 DEF HistoriesFollowRounds
      <3>2. /\ (initialRound + i - 1) - initialRound = i - 1
            /\ ~(initialRound + i - 1 < initialRound) /\ i - 1 \in Int
        BY <1>2
      <3>3. turns[i] = Proposers[((i - 1) % n) + 1]
        BY <1>1, <2>2, <3>1, <3>2 DEF RoundRobinProposer
      <3>4. (i - 1) % n \in 0..(n - 1)
        BY <1>1, <2>2, <3>2, ModFacts
      <3> DEFINE q == (i - 1) % n
      <3> HIDE DEF q
      <3>5. q \in 0..(n - 1) /\ turns[i] = Proposers[q + 1]
        BY <3>3, <3>4 DEF q
      <3>6. q + 1 \in DOMAIN Proposers /\ j \in DOMAIN Proposers
        BY <1>1, <3>5
      <3>7. turns[i] = x <=> q + 1 = j
        BY <2>1, <3>5, <3>6, ElectionConstants
      <3>8. turns[i] = x <=> q = k
        BY <3>5, <3>7
      <3> QED
        BY <3>8 DEF q
    <2>4. {i \in 1..m : turns[i] = x} = {i \in 1..m : (i - 1) % n = k}
      BY <2>3
    <2> QED
      BY <2>2, <2>4 DEF Turns
  <1>4. PICK k \in 0..(n - 1) : Turns(turns, 1, m, a) = Cardinality({i \in 1..m : (i - 1) % n = k})
    BY <1>3
  <1>5. PICK l \in 0..(n - 1) : Turns(turns, 1, m, b) = Cardinality({i \in 1..m : (i - 1) % n = l})
    BY <1>3
  <1>6. n > 0
    BY <1>1, <1>4
  <1> HIDE DEF n, m
  <1>7. Cardinality({i \in 1..m : (i - 1) % n = k})
           <= Cardinality({i \in 1..m : (i - 1) % n = l}) + 1
    BY <1>1, <1>2, <1>6, RemaindersAreEven
  <1> QED
    BY <1>4, <1>5, <1>7 DEF m

\* A score is cut off at both ends.
LEMMA ClampFacts ==
    ASSUME NEW x \in Int
    PROVE  Clamp(x) = IF x > 100 THEN 100 ELSE IF x < 0 THEN 0 ELSE x
  <1>1. Min({x, 100}) = IF x <= 100 THEN x ELSE 100
    BY MinOfTwo
  <1>2. Min({x, 100}) \in Int
    BY <1>1
  <1>3. Max({0, Min({x, 100})}) = IF 0 >= Min({x, 100}) THEN 0 ELSE Min({x, 100})
    BY <1>2, MaxOfTwo
  <1> QED
    BY <1>1, <1>3 DEF Clamp

\* What is within the record for one author: the score s, from the default d
\* after w successes and l failures.
WithinRecord(s, d, w, l) ==
    /\ s >= d - 10 * l
    /\ s <= d + w
    /\ l = 0 => s = IF d + w > 100 THEN 100 ELSE d + w
    /\ w = 0 => s = IF d - 10 * l < 0 THEN 0 ELSE d - 10 * l

\* The reputation of an author, listed or not.
Score(a) == GetReputation(reputations, default, a)

\* ReputationWithinRecord, author by author.
LEMMA RecordsAsScores ==
    ElectionTypeOK =>
        (ReputationWithinRecord
            <=> \A a \in Judged : WithinRecord(Score(a), default, wins[a], losses[a]))
  <1> SUFFICES ASSUME ElectionTypeOK
               PROVE  ReputationWithinRecord
                 <=> \A a \in Judged : WithinRecord(Score(a), default, wins[a], losses[a])
    OBVIOUS
  <1>1. default \in 0..100
    BY ElectionConstants DEF ElectionTypeOK
  <1>2. ASSUME NEW a \in Judged
        PROVE  /\ Min({100, default + wins[a]}) =
                     IF default + wins[a] > 100 THEN 100 ELSE default + wins[a]
               /\ Max({0, default - 10 * losses[a]}) =
                     IF default - 10 * losses[a] < 0 THEN 0 ELSE default - 10 * losses[a]
    <2>1. wins[a] \in Nat /\ losses[a] \in Nat
      BY DEF ElectionTypeOK
    <2>2. default + wins[a] \in Int /\ default - 10 * losses[a] \in Int
      BY <1>1, <2>1
    <2>3. Min({100, default + wins[a]}) = IF 100 <= default + wins[a] THEN 100 ELSE default + wins[a]
      BY <2>2, MinOfTwo
    <2>4. Max({0, default - 10 * losses[a]}) = IF 0 >= default - 10 * losses[a] THEN 0 ELSE default - 10 * losses[a]
      BY <2>2, MaxOfTwo
    <2> QED
      BY <2>2, <2>3, <2>4
  <1> QED
    BY <1>2 DEF ReputationWithinRecord, WithinRecord, Score

\* One more outcome keeps a score within its record.
LEMMA OutcomeStaysWithin ==
    ASSUME NEW s \in 0..100, NEW d \in 0..100, NEW w \in Nat, NEW l \in Nat,
           WithinRecord(s, d, w, l)
    PROVE  /\ WithinRecord(Clamp(s + 1), d, w + 1, l) /\ Clamp(s + 1) \in 0..100
           /\ WithinRecord(Clamp(s + (-10)), d, w, l + 1) /\ Clamp(s + (-10)) \in 0..100
  <1>1. Clamp(s + 1) = IF s + 1 > 100 THEN 100 ELSE s + 1
    BY ClampFacts
  <1>2. Clamp(s + (-10)) = IF s - 10 < 0 THEN 0 ELSE s - 10
    BY ClampFacts
  <1>3. WithinRecord(Clamp(s + 1), d, w + 1, l)
    BY <1>1 DEF WithinRecord
  <1>4. WithinRecord(Clamp(s + (-10)), d, w, l + 1)
    BY <1>2 DEF WithinRecord
  <1> QED
    BY <1>1, <1>2, <1>3, <1>4

\* The types of what record_success, record_failure and reset change.
TrackerTypeOK ==
    /\ Names \subseteq DOMAIN reputations /\ DOMAIN reputations \subseteq Judged
    /\ \A a \in DOMAIN reputations : reputations[a] \in 0..100
    /\ wins \in [Judged -> Nat] /\ losses \in [Judged -> Nat]

\* Recording an outcome keeps all scores within their records.
LEMMA RecordKeeps ==
    ASSUME ElectionTypeOK, ReputationWithinRecord, NEW a \in Judged,
           NEW outcome \in {"success", "failure"}, Record(a, outcome), UNCHANGED default
    PROVE  /\ TrackerTypeOK'
           /\ \A b \in Judged : WithinRecord(Score(b), default, wins[b], losses[b])'
  <1>0. /\ default \in 0..100 /\ wins \in [Judged -> Nat] /\ losses \in [Judged -> Nat]
        /\ \A b \in Judged : WithinRecord(Score(b), default, wins[b], losses[b])
    BY ElectionConstants, RecordsAsScores DEF ElectionTypeOK
  <1>1. \A b \in Judged : Score(b) \in 0..100
    BY <1>0 DEF Score, GetReputation, ElectionTypeOK
  <1>2. ASSUME NEW delta \in {1, -10}, reputations' = UpdateReputation(reputations, default, a, delta)
        PROVE  /\ DOMAIN reputations' = DOMAIN reputations \cup {a}
               /\ Score(a)' = Clamp(Score(a) + delta)
               /\ \A b \in Judged \ {a} : Score(b)' = Score(b)
               /\ \A b \in DOMAIN reputations' : reputations'[b] = Score(b)'
    BY <1>2 DEF UpdateReputation, Score, GetReputation
  <1>3. CASE outcome = "success"
    <2>1. /\ reputations' = UpdateReputation(reputations, default, a, 1)
          /\ wins' = [wins EXCEPT ![a] = @ + 1] /\ losses' = losses
      BY <1>3 DEF Record, RecordSuccess
    <2>2. /\ WithinRecord(Clamp(Score(a) + 1), default, wins[a] + 1, losses[a])
          /\ Clamp(Score(a) + 1) \in 0..100
      BY <1>0, <1>1, OutcomeStaysWithin
    <2>3. /\ wins'[a] = wins[a] + 1 /\ \A b \in Judged \ {a} : wins'[b] = wins[b]
          /\ wins' \in [Judged -> Nat]
      BY <1>0, <2>1
    <2>4. ASSUME NEW b \in Judged
          PROVE  WithinRecord(Score(b)', default', wins'[b], losses'[b]) /\ Score(b)' \in 0..100
      <3>1. CASE b = a
        BY <1>2, <2>1, <2>2, <2>3, <3>1
      <3>2. CASE b # a
        BY <1>0, <1>1, <1>2, <2>1, <2>3, <3>2
      <3> QED
        BY <3>1, <3>2
    <2>5. TrackerTypeOK'
      <3>1. DOMAIN reputations' = DOMAIN reputations \cup {a}
        BY <1>2, <2>1
      <3>2. Names \subseteq DOMAIN reputations' /\ DOMAIN reputations' \subseteq Judged
        BY <3>1 DEF ElectionTypeOK
      <3>3. \A b \in DOMAIN reputations' : reputations'[b] \in 0..100
        BY <1>2, <2>1, <2>4, <3>2
      <3> QED
        BY <1>0, <2>1, <2>3, <3>2, <3>3 DEF TrackerTypeOK
    <2> QED
      BY <2>4, <2>5
  <1>4. CASE outcome = "failure"
    <2>1. /\ reputations' = UpdateReputation(reputations, default, a, -10)
          /\ losses' = [losses EXCEPT ![a] = @ + 1] /\ wins' = wins
      BY <1>4 DEF Record, RecordFailure
    <2>2. /\ WithinRecord(Clamp(Score(a) + (-10)), default, wins[a], losses[a] + 1)
          /\ Clamp(Score(a) + (-10)) \in 0..100
      BY <1>0, <1>1, OutcomeStaysWithin
    <2>3. /\ losses'[a] = losses[a] + 1 /\ \A b \in Judged \ {a} : losses'[b] = losses[b]
          /\ losses' \in [Judged -> Nat]
      BY <1>0, <2>1
    <2>4. ASSUME NEW b \in Judged
          PROVE  WithinRecord(Score(b)', default', wins'[b], losses'[b]) /\ Score(b)' \in 0..100
      <3>1. CASE b = a
        BY <1>2, <2>1, <2>2, <2>3, <3>1
      <3>2. CASE b # a
        BY <1>0, <1>1, <1>2, <2>1, <2>3, <3>2
      <3> QED
        BY <3>1, <3>2
    <2>5. TrackerTypeOK'
      <3>1. DOMAIN reputations' = DOMAIN reputations \cup {a}
        BY <1>2, <2>1
      <3>2. Names \subseteq DOMAIN reputations' /\ DOMAIN reputations' \subseteq Judged
        BY <3>1 DEF ElectionTypeOK
      <3>3. \A b \in DOMAIN reputations' : reputations'[b] \in 0..100
        BY <1>2, <2>1, <2>4, <3>2
      <3> QED
        BY <1>0, <2>1, <2>3, <3>2, <3>3 DEF TrackerTypeOK
    <2> QED
      BY <2>4, <2>5
  <1> QED
    BY <1>3, <1>4

\* What both elections append to the histories.
LEMMA ExtendFacts ==
    ASSUME NEW past \in Seq(Names), NEW x \in Names
    PROVE  /\ Extend(past, {}) = past
           /\ Extend(past, {x}) \in Seq(Names)
           /\ Len(Extend(past, {x})) = Len(past) + 1
           /\ Extend(past, {x})[Len(past) + 1] = x
           /\ \A i \in 1..Len(past) : Extend(past, {x})[i] = past[i]
  <1> DEFINE longer == past \o <<x>>
  <1>1. (CHOOSE a \in {x} : TRUE) = x
    OBVIOUS
  <1>2. Extend(past, {x}) = longer /\ Extend(past, {}) = past
    BY <1>1 DEF Extend
  <1>3. /\ longer \in Seq(Names) /\ Len(longer) = Len(past) + 1 /\ longer[Len(past) + 1] = x
        /\ \A i \in 1..Len(past) : longer[i] = past[i]
    OBVIOUS
  <1> HIDE DEF longer
  <1> QED
    BY <1>2, <1>3

\* Before the first round nobody was elected and nobody judged.
LEMMA InitElection == ElectionInit => ElectionIInv
  <1> SUFFICES ASSUME ElectionInit PROVE ElectionIInv
    OBVIOUS
  <1>0. default \in 0..100 /\ initialRound \in Nat
    BY ElectionConstants DEF ElectionInit
  <1>1. ElectionTypeOK
    <2>1. wins \in [Judged -> Nat] /\ losses \in [Judged -> Nat]
      BY DEF ElectionInit, NoOutcomes
    <2>2. /\ DOMAIN reputations = Names /\ Names \subseteq Judged
          /\ \A a \in DOMAIN reputations : reputations[a] \in 0..100
      BY <1>0 DEF ElectionInit, Judged
    <2>3. turns \in Seq(Names) /\ shares \in Seq(Names) /\ round \in 0..LastRound
      BY ElectionConstants DEF ElectionInit
    <2> QED
      BY <2>1, <2>2, <2>3 DEF ElectionInit, ElectionTypeOK
  <1>2. HistoriesFollowRounds
    <2>1. Max({0, 0 - initialRound}) = 0
      BY <1>0, MaxOfTwo
    <2> QED
      BY <2>1 DEF ElectionInit, HistoriesFollowRounds
  <1>3. PanicsOnlyWithoutPower
    BY DEF ElectionInit, PanicsOnlyWithoutPower
  <1>4. \A a \in Judged : WithinRecord(Score(a), default, wins[a], losses[a])
    BY <1>0 DEF ElectionInit, NoOutcomes, WithinRecord, Score, GetReputation
  <1> QED
    BY <1>1, <1>2, <1>3, <1>4, RecordsAsScores DEF ElectionIInv

\* The parts of the invariant that an outcome alone does not touch.
LEMMA TrackerStep ==
    ASSUME ElectionIInv, TrackerTypeOK',
           \A b \in Judged : WithinRecord(Score(b), default, wins[b], losses[b])',
           UNCHANGED <<config, round, turns, shares, panicked>>
    PROVE  ElectionIInv'
  <1>1. ElectionTypeOK'
    BY DEF ElectionIInv, ElectionTypeOK, TrackerTypeOK, config
  <1>2. HistoriesFollowRounds' /\ PanicsOnlyWithoutPower'
    BY DEF ElectionIInv, HistoriesFollowRounds, PanicsOnlyWithoutPower, config
  <1>3. ReputationWithinRecord'
    <2>1. (ElectionTypeOK =>
              (ReputationWithinRecord
                 <=> \A a \in Judged : WithinRecord(Score(a), default, wins[a], losses[a])))'
      BY RecordsAsScores, PTL
    <2> QED
      BY <1>1, <2>1
  <1> QED
    BY <1>1, <1>2, <1>3 DEF ElectionIInv

\* Both elections of a round append to the histories, or neither does.
LEMMA ElectKeeps ==
    ASSUME ElectionIInv, NEW outcome \in {"success", "failure"}, Elect(outcome)
    PROVE  ElectionIInv'
  <1> DEFINE n == Len(Proposers)
             turn == RoundRobinProposer(Proposers, initialRound, round)
             share == WeightedProposer(weighted, initialRound, round)
             silent == Proposers = <<>> \/ round < initialRound
  <1>0. /\ ElectionTypeOK /\ HistoriesFollowRounds /\ PanicsOnlyWithoutPower
        /\ ReputationWithinRecord
    BY DEF ElectionIInv
  <1>1. /\ round' = round + 1 /\ round < LastRound /\ round \in Nat /\ initialRound \in Nat
        /\ turns' = Extend(turns, turn) /\ shares' = Extend(shares, share)
        /\ weighted' = weighted /\ initialRound' = initialRound /\ default' = default
        /\ panicked' = panicked /\ ~panicked
    BY <1>0, ElectionConstants DEF Elect, config, ElectionTypeOK
  <1>2. n \in Nat /\ (Proposers = <<>> <=> n = 0) /\ (weighted = <<>> <=> Proposers = <<>>)
    BY <1>0, WeightedFacts
  <1>3. CASE silent
    <2>1. turn = {} /\ share = {}
      BY <1>2, <1>3 DEF RoundRobinProposer, WeightedProposer
    <2>2. turns' = turns /\ shares' = shares
      BY <1>1, <2>1 DEF Extend
    <2>3. UNCHANGED <<reputations, wins, losses>>
      BY <2>1 DEF Elect
    <2>4. ElectionTypeOK'
      BY <1>0, <1>1, <2>2, <2>3, ElectionConstants DEF ElectionTypeOK
    <2>5. HistoriesFollowRounds'
      <3>1. Len(turns) = IF Proposers = <<>> THEN 0 ELSE Max({0, round - initialRound})
        BY <1>0 DEF HistoriesFollowRounds
      <3>2. ~(Proposers = <<>>) =>
                Max({0, round - initialRound}) = 0 /\ Max({0, (round + 1) - initialRound}) = 0
        BY <1>1, <1>3, MaxOfTwo
      <3> QED
        BY <1>0, <1>1, <2>2, <3>1, <3>2 DEF HistoriesFollowRounds
    <2>6. PanicsOnlyWithoutPower' /\ ReputationWithinRecord'
      BY <1>0, <1>1, <2>2, <2>3 DEF PanicsOnlyWithoutPower, ReputationWithinRecord
    <2> QED
      BY <2>4, <2>5, <2>6 DEF ElectionIInv
  <1>4. CASE ~silent
    <2>1. TotalVotingPower(weighted) # 0
      BY <1>1, <1>2, <1>4 DEF Elect, WeightedPanics
    <2>2. PICK x \in Names : turn = {x}
      <3>1. (round - initialRound) % n \in 0..(n - 1)
        BY <1>1, <1>2, <1>4, ModFacts
      <3>2. Proposers[((round - initialRound) % n) + 1] \in Names
        BY <1>0, <1>2, <3>1, WeightedFacts
      <3> QED
        BY <1>4, <3>2 DEF RoundRobinProposer
    <2>3. PICK y \in Names : share = {y}
      <3>1. PICK j \in 1..n : share = {Proposers[j]}
        BY <1>0, <1>1, <1>4, <2>1, WeightedElects
      <3> QED
        BY <1>0, <3>1, WeightedFacts
    <2> HIDE DEF turn, share
    <2>4. /\ turns \in Seq(Names) /\ shares \in Seq(Names)
          /\ Len(turns) \in Nat /\ Len(shares) = Len(turns)
      BY <1>0 DEF ElectionTypeOK, HistoriesFollowRounds
    <2>5. /\ turns' \in Seq(Names) /\ Len(turns') = Len(turns) + 1
          /\ turns'[Len(turns) + 1] = x /\ \A i \in 1..Len(turns) : turns'[i] = turns[i]
      BY <1>1, <2>2, <2>4, ExtendFacts
    <2>6. /\ shares' \in Seq(Names) /\ Len(shares') = Len(turns) + 1
          /\ shares'[Len(turns) + 1] = y /\ \A i \in 1..Len(turns) : shares'[i] = shares[i]
      BY <1>1, <2>3, <2>4, ExtendFacts
    <2>7. /\ TrackerTypeOK'
          /\ \A b \in Judged : WithinRecord(Score(b), default, wins[b], losses[b])'
      <3>1. Record(x, outcome)
        BY <2>2 DEF Elect, turn
      <3> QED
        BY <1>0, <1>1, <3>1, RecordKeeps DEF Judged
    <2>8. ElectionTypeOK'
      <3>1. round' \in 0..LastRound
        BY <1>1, ElectionConstants
      <3> QED
        BY <1>0, <1>1, <2>5, <2>6, <2>7, <3>1 DEF ElectionTypeOK, TrackerTypeOK
    <2>9. HistoriesFollowRounds'
      <3>1. Len(turns) = round - initialRound
        <4>1. Max({0, round - initialRound}) = round - initialRound
          BY <1>1, <1>4, MaxOfTwo
        <4> QED
          BY <1>0, <1>4, <4>1 DEF HistoriesFollowRounds
      <3>2. Len(turns') = Max({0, round' - initialRound'})
        <4>1. Max({0, (round + 1) - initialRound}) = (round + 1) - initialRound
          BY <1>1, <1>4, MaxOfTwo
        <4> QED
          BY <1>1, <2>5, <3>1, <4>1
      <3>3. initialRound + (Len(turns) + 1) - 1 = round
        BY <1>1, <3>1
      <3>4. ASSUME NEW i \in 1..(Len(turns) + 1)
            PROVE  /\ {turns'[i]} = RoundRobinProposer(Proposers, initialRound, initialRound + i - 1)
                   /\ {shares'[i]} = WeightedProposer(weighted, initialRound, initialRound + i - 1)
        <4>1. CASE i = Len(turns) + 1
          BY <2>2, <2>3, <2>5, <2>6, <3>3, <4>1 DEF turn, share
        <4>2. CASE i # Len(turns) + 1
          <5>1. i \in 1..Len(turns) /\ i \in DOMAIN turns /\ i \in DOMAIN shares
            BY <2>4, <4>2
          <5> QED
            BY <1>0, <2>5, <2>6, <5>1 DEF HistoriesFollowRounds
        <4> QED
          BY <4>1, <4>2
      <3>5. DOMAIN turns' = 1..(Len(turns) + 1) /\ DOMAIN shares' = 1..(Len(turns) + 1)
        BY <2>5, <2>6
      <3> QED
        BY <1>1, <1>4, <2>5, <2>6, <3>2, <3>4, <3>5 DEF HistoriesFollowRounds
    <2>10. PanicsOnlyWithoutPower'
      <3>1. PICK i \in DOMAIN weighted : weighted[i].power # 0
        BY <1>0, <2>1, NoPower
      <3>2. weighted[i].power > 0
        BY <1>0, <3>1, WeightedFacts
      <3> QED
        BY <1>1, <3>2 DEF PanicsOnlyWithoutPower
    <2>11. ReputationWithinRecord'
      <3>1. (ElectionTypeOK =>
                (ReputationWithinRecord
                   <=> \A a \in Judged : WithinRecord(Score(a), default, wins[a], losses[a])))'
        BY RecordsAsScores, PTL
      <3> QED
        BY <2>7, <2>8, <3>1
    <2> QED
      BY <2>8, <2>9, <2>10, <2>11 DEF ElectionIInv
  <1> QED
    BY <1>3, <1>4

\* Every step of the elections and of the tracker keeps the invariant.
LEMMA ElectionStep == ElectionIInv /\ [ElectionNext]_electionVars => ElectionIInv'
  <1> SUFFICES ASSUME ElectionIInv, [ElectionNext]_electionVars PROVE ElectionIInv'
    OBVIOUS
  <1>0. ElectionTypeOK /\ ReputationWithinRecord /\ PanicsOnlyWithoutPower
    BY DEF ElectionIInv
  <1>1. ASSUME NEW outcome \in {"success", "failure"}, Elect(outcome) PROVE ElectionIInv'
    BY <1>1, ElectKeeps
  <1>2. ASSUME NEW outcome \in {"success", "failure"}, JudgeStranger(outcome) PROVE ElectionIInv'
    <2>1. /\ Record(Stranger, outcome) /\ UNCHANGED default
          /\ UNCHANGED <<config, round, turns, shares, panicked>>
      BY <1>2 DEF JudgeStranger, config
    <2>2. /\ TrackerTypeOK'
          /\ \A b \in Judged : WithinRecord(Score(b), default, wins[b], losses[b])'
      BY <1>0, <2>1, RecordKeeps DEF Judged
    <2> QED
      BY <2>1, <2>2, TrackerStep
  <1>3. CASE ElectPanics
    <2>1. \A i \in DOMAIN weighted : weighted[i].power = 0
      BY <1>0, <1>3, NoPower DEF ElectPanics, WeightedPanics
    <2>2. PanicsOnlyWithoutPower'
      BY <1>0, <1>3, <2>1 DEF PanicsOnlyWithoutPower, ElectPanics, config
    <2> QED
      BY <1>3, <2>2 DEF ElectPanics, config, ElectionIInv, ElectionTypeOK, HistoriesFollowRounds,
                        ReputationWithinRecord
  <1>4. CASE Reset
    <2>1. /\ DOMAIN reputations' = DOMAIN reputations
          /\ \A a \in DOMAIN reputations : reputations'[a] = default
          /\ default' = default /\ wins' = NoOutcomes /\ losses' = NoOutcomes
      BY <1>4 DEF Reset, ResetReputations, config
    <2>2. default \in 0..100
      BY <1>0, ElectionConstants DEF ElectionTypeOK
    <2>3. TrackerTypeOK'
      BY <1>0, <2>1, <2>2 DEF TrackerTypeOK, ElectionTypeOK, NoOutcomes
    <2>4. \A b \in Judged : WithinRecord(Score(b), default, wins[b], losses[b])'
      BY <2>1, <2>2 DEF WithinRecord, Score, GetReputation, NoOutcomes
    <2> QED
      BY <1>4, <2>3, <2>4, TrackerStep DEF Reset
  <1>5. CASE UNCHANGED electionVars
    BY <1>5 DEF electionVars, ElectionIInv, ElectionTypeOK, HistoriesFollowRounds,
                PanicsOnlyWithoutPower, ReputationWithinRecord
  <1> QED
    BY <1>1, <1>2, <1>3, <1>4, <1>5 DEF ElectionNext

\* The inductive invariant of the elections and the reputations.
THEOREM ElectionInvariance == ElectionSpec => []ElectionIInv
  BY InitElection, ElectionStep, PTL DEF ElectionSpec

\* In whatever round the round robin starts, and however many rounds have gone
\* by, no validator was elected two times more often than another.
THEOREM RoundRobinTakesTurns == ElectionSpec => []RoundRobinIsFair
  BY ElectionInvariance, TurnsAreFair, PTL

\* In any run of consecutive rounds as long as the total voting power,
\* select_weighted_proposer takes every validator exactly
\* as often as it has power.
THEOREM SharesFollowPower == ElectionSpec => []WeightedIsProportional
  BY ElectionInvariance, ElectionsAreProportional, PTL

\* The weighted election divides by zero only if no validator has power.
THEOREM OnlyZeroPowerPanics == ElectionSpec => []PanicsOnlyWithoutPower
  <1>1. ElectionIInv => PanicsOnlyWithoutPower
    BY DEF ElectionIInv
  <1> QED
    BY <1>1, ElectionInvariance, PTL

\* Reputations stay within what the recorded successes and failures account
\* for, clamped at both ends, in any order of outcomes and resets.
THEOREM ScoresFollowOutcomes == ElectionSpec => []ReputationWithinRecord
  <1>1. ElectionIInv => ReputationWithinRecord
    BY DEF ElectionIInv
  <1> QED
    BY <1>1, ElectionInvariance, PTL

-----------------------------------------------------------------------------
(***************************************************************************)
(* The message layer and the pipeline behind it.                           *)
(***************************************************************************)
\* NetworkMessage has finitely many variants.
LEMMA MessageTypesAreFinite == IsFiniteSet(MessageTypes)
  <1>1. IsFiniteSet({"Proposal"})
    BY FS_Singleton
  <1>2. IsFiniteSet({"Proposal"} \cup {"Vote"})
    BY <1>1, FS_AddElement
  <1>3. IsFiniteSet(({"Proposal"} \cup {"Vote"}) \cup {"Timeout"})
    BY <1>2, FS_AddElement
  <1>4. IsFiniteSet((({"Proposal"} \cup {"Vote"}) \cup {"Timeout"}) \cup {"SyncRequest"})
    BY <1>3, FS_AddElement
  <1>5. IsFiniteSet(((({"Proposal"} \cup {"Vote"}) \cup {"Timeout"}) \cup {"SyncRequest"})
                       \cup {"SyncResponse"})
    BY <1>4, FS_AddElement
  <1>6. IsFiniteSet((((({"Proposal"} \cup {"Vote"}) \cup {"Timeout"}) \cup {"SyncRequest"})
                       \cup {"SyncResponse"}) \cup {"EpochChange"})
    BY <1>5, FS_AddElement
  <1>7. MessageTypes = (((({"Proposal"} \cup {"Vote"}) \cup {"Timeout"}) \cup {"SyncRequest"})
                          \cup {"SyncResponse"}) \cup {"EpochChange"}
    BY DEF MessageTypes
  <1> QED
    BY <1>6, <1>7

\* One more message of a type is one more in total.
LEMMA TotalGrows ==
    ASSUME NEW f \in [MessageTypes -> Nat], NEW t \in MessageTypes
    PROVE  /\ Total(f) \in Nat
           /\ Total([f EXCEPT ![t] = @ + 1]) = Total(f) + 1
           /\ \A u \in MessageTypes : f[u] <= Total(f)
  <1> DEFINE S == MessageTypes
             g == [f EXCEPT ![t] = @ + 1]
             R == S \ {t}
  <1>1. IsFiniteSet(S)
    BY MessageTypesAreFinite
  <1>2. g \in [S -> Nat] /\ g[t] = f[t] + 1 /\ \A u \in R : g[u] = f[u]
    OBVIOUS
  <1>3. Total(f) = SumOver(f, S) /\ Total(g) = SumOver(g, S)
    BY <1>2 DEF Total, SumOver
  <1> HIDE DEF S, g, R
  <1>4. (\A x \in S : f[x] \in Nat) /\ (\A x \in S : g[x] \in Nat) /\ t \in S /\ R = S \ {t}
    BY <1>2 DEF S, R
  <1>5. SumOver(f, S) = f[t] + SumOver(f, R) /\ SumOver(g, S) = g[t] + SumOver(g, R)
    BY <1>1, <1>4, SumRemove
  <1>6. IsFiniteSet(R) /\ SumOver(f, R) = SumOver(g, R)
    <2>1. IsFiniteSet(R)
      BY <1>1, <1>4, FS_Subset
    <2> QED
      BY <1>2, <2>1, SumAgree
  <1>7. SumOver(f, R) \in Nat /\ SumOver(f, S) \in Nat
    BY <1>1, <1>4, <1>6, SumType
  <1>8. ASSUME NEW u \in S PROVE f[u] <= SumOver(f, S)
    <2>1. SumOver(f, S) = f[u] + SumOver(f, S \ {u})
      BY <1>1, <1>4, SumRemove
    <2>2. SumOver(f, S \ {u}) \in Nat
      BY <1>1, <1>4, FS_Subset, SumType
    <2> QED
      BY <1>4, <2>1, <2>2
  <1>9. Total(g) = Total(f) + 1 /\ Total(f) \in Nat
    BY <1>2, <1>3, <1>4, <1>5, <1>6, <1>7
  <1> QED
    BY <1>3, <1>8, <1>9 DEF S, g

\* The counters of the handler.
HandlerCounters == DOMAIN NewHandlerStats

\* With nothing handed over, nothing is counted.
LEMMA InitFlow == FlowInit => FlowIInv
  <1> SUFFICES ASSUME FlowInit PROVE FlowIInv
    OBVIOUS
  <1>0. 0 \in 0..MaxMessages
    BY MessageFlowConstants
  <1>1. FlowTypeOK
    <2>1. stats \in [HandlerCounters -> Nat]
      BY DEF FlowInit, NewHandlerStats, HandlerCounters
    <2>2. pipeline \in PipelineStats
      BY DEF FlowInit, NewPipelineStats, PipelineStats
    <2>3. handed \in [MessageTypes -> 0..MaxMessages] /\ routed \in 0..MaxMessages
      BY <1>0 DEF FlowInit
    <2>4. handlers \subseteq Registered /\ default_handler \in BOOLEAN
      BY DEF FlowInit
    <2> QED
      BY <2>1, <2>2, <2>3, <2>4 DEF FlowTypeOK, HandlerCounters
  <1>2. Total(handed) = 0
    <2>1. DOMAIN handed = MessageTypes /\ \A t \in MessageTypes : handed[t] = 0
      BY DEF FlowInit
    <2>2. Total(handed) = SumOver(handed, MessageTypes)
      BY <2>1 DEF Total, SumOver
    <2> QED
      BY <2>1, <2>2, MessageTypesAreFinite, SumOfZeros
  <1>3. StagesAreVisited /\ PipelineCountsVisits
    BY DEF FlowInit, StagesAreVisited, PipelineCountsVisits, NewPipelineStats, StageNames,
           MessageTypes
  <1>4. Total(handed) + routed <= MaxMessages
    BY <1>2, MessageFlowConstants DEF FlowInit
  <1> QED
    BY <1>1, <1>3, <1>4 DEF FlowIInv

\* What the host feeds to the pipeline: a proposal goes through every stage, a
\* vote arrives, and nothing else is counted.
LEMMA FeedFacts ==
    ASSUME pipeline \in PipelineStats, NEW t \in MessageTypes
    PROVE  /\ FeedPipeline(t) \in PipelineStats
           /\ FeedPipeline(t).failed = pipeline.failed
           /\ FeedPipeline(t).skipped = pipeline.skipped
           /\ t = "Proposal" =>
                 /\ \A s \in StageNames :
                       FeedPipeline(t).stage_counts[s] = pipeline.stage_counts[s] + 1
                 /\ FeedPipeline(t).total_processed = pipeline.total_processed + 4
           /\ t = "Vote" =>
                 /\ \A s \in StageNames : FeedPipeline(t).stage_counts[s] =
                       pipeline.stage_counts[s] + (IF s = "Receiving" THEN 1 ELSE 0)
                 /\ FeedPipeline(t).total_processed = pipeline.total_processed + 1
           /\ t \notin {"Proposal", "Vote"} => FeedPipeline(t) = pipeline
  <1>1. t \in {"Proposal", "Vote"} => Category(t) = "successful"
    BY DEF Category, ValidateMessage
  <1>2. CASE t = "Proposal"
    <2>1. FeedPipeline(t) = PipelineBlock(pipeline, t).stats
      BY <1>1, <1>2 DEF FeedPipeline
    <2> QED
      BY <1>2, <2>1, BlockVisitsAllStages
  <1>3. CASE t = "Vote"
    <2>1. FeedPipeline(t) = CountStage(pipeline, "Receiving")
      BY <1>1, <1>3 DEF FeedPipeline, PipelineVote
    <2> DEFINE c == CountStage(pipeline, "Receiving")
    <2>2. c \in PipelineStats /\ c.failed = pipeline.failed /\ c.skipped = pipeline.skipped
          /\ c.stage_counts = [pipeline.stage_counts EXCEPT !["Receiving"] = @ + 1]
          /\ c.total_processed = pipeline.total_processed + 1
      <3> DEFINE run == [stats |-> pipeline, block |-> t, verdict |-> "Continue"]
      <3>1. run \in PipelineRuns(t) /\ run.stats = pipeline
        BY DEF PipelineRuns
      <3>2. "Receiving" \in StageNames
        BY DEF StageNames
      <3> HIDE DEF run
      <3>3. /\ VisitStage(run, "Receiving") \in PipelineRuns(t)
            /\ VisitStage(run, "Receiving").stats = c
            /\ c.stage_counts = [pipeline.stage_counts EXCEPT !["Receiving"] = @ + 1]
            /\ c.total_processed = pipeline.total_processed + 1
            /\ c.failed = pipeline.failed /\ c.skipped = pipeline.skipped
        BY <3>1, <3>2, VisitFacts
      <3> HIDE DEF c
      <3>4. c \in PipelineStats
        BY <3>3 DEF PipelineRuns
      <3> QED
        BY <3>3, <3>4
    <2> HIDE DEF c
    <2>3. pipeline.stage_counts \in [StageNames -> Nat]
      BY DEF PipelineStats
    <2>4. \A s \in StageNames :
             c.stage_counts[s] = pipeline.stage_counts[s] + (IF s = "Receiving" THEN 1 ELSE 0)
      BY <2>2, <2>3
    <2>5. FeedPipeline(t) = c
      BY <2>1 DEF c
    <2> QED
      BY <1>3, <2>2, <2>4, <2>5
  <1>4. CASE t \notin {"Proposal", "Vote"}
    BY <1>4 DEF FeedPipeline
  <1> QED
    BY <1>2, <1>3, <1>4

\* One message more: the pipeline counts the stages it visits.
LEMMA ProcessMessageKeeps ==
    ASSUME FlowIInv, NEW t \in MessageTypes, ProcessMessage(t)
    PROVE  FlowIInv'
  <1>0. /\ stats \in [HandlerCounters -> Nat]
        /\ pipeline \in PipelineStats
        /\ handed \in [MessageTypes -> 0..MaxMessages]
        /\ handed \in [MessageTypes -> Nat]
        /\ routed \in Nat /\ MaxMessages \in Nat
    BY MessageFlowConstants DEF FlowIInv, FlowTypeOK, HandlerCounters
  <1>1. /\ handed' = [handed EXCEPT ![t] = @ + 1]
        /\ routed' = routed /\ handlers' = handlers /\ default_handler' = default_handler
        /\ stats' = Count(Category(t)) /\ pipeline' = FeedPipeline(t)
        /\ Total(handed) + routed < MaxMessages
    BY DEF ProcessMessage
  <1>2. /\ Total(handed) \in Nat /\ Total(handed') = Total(handed) + 1
        /\ \A u \in MessageTypes : handed[u] <= Total(handed)
    BY <1>0, <1>1, TotalGrows
  <1>3. handed' \in [MessageTypes -> 0..MaxMessages] /\ Total(handed') + routed' <= MaxMessages
    BY <1>0, <1>1, <1>2
  <1>4. /\ handed'[t] = handed[t] + 1
        /\ \A u \in MessageTypes : u # t => handed'[u] = handed[u]
        /\ \A u \in MessageTypes : handed[u] \in Nat
    BY <1>0, <1>1
  <1>5. Category(t) = IF t \in {"Proposal", "Vote", "SyncResponse"} THEN "successful" ELSE "needs_action"
    BY DEF Category, ValidateMessage, MessageTypes
  <1>a. "Proposal" \in MessageTypes /\ "Vote" \in MessageTypes
    BY DEF MessageTypes
  <1>6. HandlerCounters = {"total_processed", "successful", "validation_failures", "ignored", "needs_action"}
    BY DEF HandlerCounters, NewHandlerStats
  <1>7. stats' \in [HandlerCounters -> Nat]
    <2>1. Category(t) \in HandlerCounters /\ "total_processed" \in HandlerCounters
      BY <1>5, <1>6
    <2>2. stats' = [stats EXCEPT ![Category(t)] = @ + 1, !["total_processed"] = @ + 1]
      BY <1>1 DEF Count
    <2> QED
      BY <1>0, <2>1, <2>2
  <1>8. /\ pipeline' \in PipelineStats
        /\ pipeline'.failed = pipeline.failed /\ pipeline'.skipped = pipeline.skipped
        /\ t = "Proposal" =>
              /\ \A s \in StageNames : pipeline'.stage_counts[s] = pipeline.stage_counts[s] + 1
              /\ pipeline'.total_processed = pipeline.total_processed + 4
        /\ t = "Vote" =>
              /\ \A s \in StageNames : pipeline'.stage_counts[s] =
                    pipeline.stage_counts[s] + (IF s = "Receiving" THEN 1 ELSE 0)
              /\ pipeline'.total_processed = pipeline.total_processed + 1
        /\ t \notin {"Proposal", "Vote"} => pipeline' = pipeline
    BY <1>0, <1>1, FeedFacts
  <1> DEFINE P == handed["Proposal"]
             V == handed["Vote"]
             P1 == handed'["Proposal"]
             V1 == handed'["Vote"]
  <1>9. /\ P \in Nat /\ V \in Nat
        /\ P1 = P + (IF t = "Proposal" THEN 1 ELSE 0)
        /\ V1 = V + (IF t = "Vote" THEN 1 ELSE 0)
    BY <1>4, <1>a
  <1>10. /\ \A s \in StageNames :
               pipeline.stage_counts[s] = P + (IF s = "Receiving" THEN V ELSE 0)
         /\ pipeline.total_processed = 4 * P + V
         /\ pipeline.failed + pipeline.skipped = 0
    BY DEF FlowIInv, StagesAreVisited, PipelineCountsVisits
  <1> HIDE DEF P, V, P1, V1
  <1>11. /\ \A s \in StageNames :
               pipeline'.stage_counts[s] = P1 + (IF s = "Receiving" THEN V1 ELSE 0)
         /\ pipeline'.total_processed = 4 * P1 + V1
    <2>1. CASE t = "Proposal"
      BY <1>8, <1>9, <1>10, <2>1
    <2>2. CASE t = "Vote"
      BY <1>8, <1>9, <1>10, <2>2
    <2>3. CASE t \notin {"Proposal", "Vote"}
      BY <1>8, <1>9, <1>10, <2>3
    <2> QED
      BY <2>1, <2>2, <2>3
  <1>12. StagesAreVisited'
    BY <1>11 DEF StagesAreVisited, P1, V1
  <1>13. PipelineCountsVisits'
    <2>1. "Receiving" \in StageNames /\ "Commit" \in StageNames /\ P1 \in Nat /\ V1 \in Nat
      BY <1>9 DEF StageNames
    <2>2. pipeline'.stage_counts["Receiving"] = P1 + V1 /\ pipeline'.stage_counts["Commit"] = P1
      BY <1>11, <2>1
    <2>3. pipeline'.stage_counts["Receiving"] - pipeline'.stage_counts["Commit"] = V1
      BY <2>1, <2>2
    <2>4. pipeline'.failed + pipeline'.skipped = 0
      BY <1>8, <1>10
    <2> QED
      BY <1>11, <2>3, <2>4 DEF PipelineCountsVisits, P1, V1
  <1>14. FlowTypeOK'
    BY <1>0, <1>1, <1>3, <1>7, <1>8 DEF FlowIInv, FlowTypeOK, HandlerCounters
  <1> QED
    BY <1>3, <1>7, <1>12, <1>13, <1>14 DEF FlowIInv

\* Every step of the message layer keeps the invariant; registering handlers
\* and routing leave the statistics alone.
LEMMA FlowStep == FlowIInv /\ [FlowNext]_flowVars => FlowIInv'
  <1> SUFFICES ASSUME FlowIInv, [FlowNext]_flowVars PROVE FlowIInv'
    OBVIOUS
  <1>1. ASSUME NEW t \in MessageTypes, ProcessMessage(t) PROVE FlowIInv'
    BY <1>1, ProcessMessageKeeps
  <1>2. ASSUME UNCHANGED <<stats, pipeline, handed>>,
               handlers' \subseteq Registered, default_handler' \in BOOLEAN,
               routed' \in 0..MaxMessages, Total(handed) + routed' <= MaxMessages
        PROVE  FlowIInv'
    BY <1>2 DEF FlowIInv, FlowTypeOK, StagesAreVisited, PipelineCountsVisits
  <1>a. /\ handlers \subseteq Registered /\ default_handler \in BOOLEAN
        /\ routed \in 0..MaxMessages /\ Total(handed) + routed <= MaxMessages
    BY DEF FlowIInv, FlowTypeOK
  <1>3. ASSUME NEW t \in Registered, RegisterHandler(t) PROVE FlowIInv'
    <2>1. handlers' \subseteq Registered /\ UNCHANGED <<stats, pipeline, handed, default_handler, routed>>
      BY <1>3, <1>a DEF RegisterHandler
    <2> QED
      BY <1>2, <1>a, <2>1
  <1>4. CASE SetDefaultHandler
    <2>1. default_handler' \in BOOLEAN /\ UNCHANGED <<stats, pipeline, handed, handlers, routed>>
      BY <1>4 DEF SetDefaultHandler
    <2> QED
      BY <1>2, <1>a, <2>1
  <1>5. ASSUME NEW t \in MessageTypes, RouteMessage(t) PROVE FlowIInv'
    <2>1. Total(handed) \in Nat
      <3>1. handed \in [MessageTypes -> Nat]
        BY MessageFlowConstants DEF FlowIInv, FlowTypeOK
      <3> QED
        BY <3>1, TotalGrows
    <2>2. routed' = routed + 1 /\ Total(handed) + routed < MaxMessages
          /\ UNCHANGED <<stats, pipeline, handed, handlers, default_handler>>
      BY <1>5 DEF RouteMessage
    <2>3. routed' \in 0..MaxMessages /\ Total(handed) + routed' <= MaxMessages
      BY <1>a, <2>1, <2>2, MessageFlowConstants
    <2> QED
      BY <1>2, <1>a, <2>2, <2>3
  <1>6. CASE UNCHANGED flowVars
    BY <1>2, <1>6, <1>a DEF flowVars
  <1> QED
    BY <1>1, <1>3, <1>4, <1>5, <1>6 DEF FlowNext

\* The inductive invariant of the message layer.
THEOREM FlowInvariance == FlowSpec => []FlowIInv
  BY InitFlow, FlowStep, PTL DEF FlowSpec

\* The pipeline counts a block in all four stages and a vote on arrival.
THEOREM VisitsAreCounted == FlowSpec => []PipelineCountsVisits
  <1>1. FlowIInv => PipelineCountsVisits
    BY DEF FlowIInv
  <1> QED
    BY <1>1, FlowInvariance, PTL
=============================================================================
