------------------------- MODULE EpochChangeProofs -------------------------
(***************************************************************************)
(* Reconfiguration and what a validator keeps across it, for any validator *)
(* sets and epochs: every epoch entered has a set whose quorums intersect, *)
(* and each of them starts over.                                           *)
(***************************************************************************)
EXTENDS EpochChange, OperatorLemmas

-----------------------------------------------------------------------------
(***************************************************************************)
(* Validator sets.                                                         *)
(***************************************************************************)

\* What the members among voters hold together.
PowerAmong(set, voters) == SumOver(set.validators, voters)

\* quorum_threshold is more than two thirds of the total.
LEMMA ThresholdFacts ==
    ASSUME NEW set \in OfferedSets
    PROVE  /\ TotalVotingPower(set) = PowerAmong(set, DOMAIN set.validators)
           /\ TotalVotingPower(set) \in Nat
           /\ QuorumThreshold(set) \in Nat
           /\ 3 * QuorumThreshold(set) > 2 * TotalVotingPower(set)
  <1>1. TotalVotingPower(set) = PowerAmong(set, DOMAIN set.validators)
    BY DEF TotalVotingPower, PowerAmong, SumOver
  <1>2. TotalVotingPower(set) \in Nat
    BY <1>1, ReconfigConstants, SumType DEF PowerAmong
  <1>3. /\ QuorumThreshold(set) \in Nat
        /\ 3 * QuorumThreshold(set) > 2 * TotalVotingPower(set)
    BY <1>2 DEF QuorumThreshold
  <1> QED
    BY <1>1, <1>2, <1>3

\* has_quorum of distinct voters of a set says that they hold the threshold.
LEMMA HasQuorumFacts ==
    ASSUME NEW set \in OfferedSets, NEW a \in SUBSET DOMAIN set.validators,
           HasQuorum(set, SetToSeq(a))
    PROVE  /\ PowerAmong(set, a) >= QuorumThreshold(set)
           /\ PowerAmong(set, a) \in Nat
  <1> DEFINE s == SetToSeq(a)
             D == 1..Cardinality(a)
             g == [i \in D |-> GetVotingPower(set, s[i])]
             f == set.validators
  <1>1. IsFiniteSet(a) /\ IsFiniteSet(DOMAIN f) /\ \A v \in DOMAIN f : f[v] \in Nat
    BY ReconfigConstants, FS_Subset
  <1>2. s \in [D -> a] /\ \A i, j \in D : s[i] = s[j] => i = j
    <2>1. ExistsBijection(D, a)
      BY <1>1, FS_CardinalityType
    <2>2. \E h \in [D -> a] : IsInjective(h)
      BY <2>1 DEF ExistsBijection, Bijection, Injection
    <2>3. s \in [D -> a] /\ IsInjective(s)
      BY <2>2 DEF SetToSeq
    <2> QED
      BY <2>3 DEF IsInjective
  <1>3. IsFiniteSet(D)
    <2>1. Cardinality(a) \in Int /\ 1 \in Int
      BY <1>1, FS_CardinalityType
    <2> QED
      BY <2>1, FS_Interval
  <1>4. \A i \in D : g[i] = f[s[i]] /\ g[i] \in Nat
    BY <1>1, <1>2 DEF GetVotingPower
  <1>5. SumOver(g, D) = SumOver(f, {s[i] : i \in D})
    <2> HIDE DEF s, D, g, f
    <2> QED
      BY <1>2, <1>3, <1>4, SumEnumerated
  <1>6. SumOver(f, {s[i] : i \in D}) <= SumOver(f, a) /\ SumOver(f, a) \in Nat
    <2>1. {s[i] : i \in D} \in SUBSET a
      BY <1>2
    <2> HIDE DEF s, D
    <2> QED
      BY <1>1, <2>1, SumMonotone, SumType
  <1>7. DOMAIN s = D
    BY <1>2
  <1>8. SumOver(g, D) >= QuorumThreshold(set)
    <2>1. MapThenSumSet(LAMBDA i : GetVotingPower(set, s[i]), DOMAIN s) >= QuorumThreshold(set)
      BY DEF HasQuorum
    <2>2. MapThenSumSet(LAMBDA i : GetVotingPower(set, s[i]), D) = SumOver(g, D)
      BY DEF SumOver, MapThenSumSet, MapThenFoldSet
    <2> QED
      BY <1>7, <2>1, <2>2
  <1> HIDE DEF s, D, g, f
  <1>9. SumOver(f, a) >= QuorumThreshold(set)
    <2>1. QuorumThreshold(set) \in Nat
      BY ThresholdFacts
    <2>2. SumOver(g, D) \in Nat
      BY <1>3, <1>4, SumType
    <2> QED
      BY <1>5, <1>6, <1>8, <2>1, <2>2
  <1> QED
    BY <1>6, <1>9 DEF PowerAmong, f

\* Two quorums share more than a third of the power of their set.
LEMMA QuorumsIntersect ==
    ASSUME NEW set \in OfferedSets,
           NEW a \in SUBSET DOMAIN set.validators, NEW b \in SUBSET DOMAIN set.validators,
           HasQuorum(set, SetToSeq(a)), HasQuorum(set, SetToSeq(b))
    PROVE  3 * MapThenSumSet(LAMBDA v : set.validators[v], a \cap b) > TotalVotingPower(set)
  <1> DEFINE f == set.validators
             V == DOMAIN f
  <1>1. IsFiniteSet(V) /\ \A v \in V : f[v] \in Nat
    BY ReconfigConstants
  <1>2. /\ PowerAmong(set, a) >= QuorumThreshold(set) /\ PowerAmong(set, a) \in Nat
        /\ PowerAmong(set, b) >= QuorumThreshold(set) /\ PowerAmong(set, b) \in Nat
    BY HasQuorumFacts
  <1>3. SumOver(f, a \cup b) + SumOver(f, a \cap b) = SumOver(f, a) + SumOver(f, b)
    BY <1>1, SumUnion
  <1>4. SumOver(f, a \cup b) <= SumOver(f, V)
    BY <1>1, SumMonotone
  <1>5. SumOver(f, a \cup b) \in Nat /\ SumOver(f, a \cap b) \in Nat
    <2>1. IsFiniteSet(a \cup b) /\ IsFiniteSet(a \cap b)
      BY <1>1, FS_Subset
    <2> QED
      BY <1>1, <2>1, SumType
  <1>6. /\ TotalVotingPower(set) = SumOver(f, V) /\ TotalVotingPower(set) \in Nat
        /\ QuorumThreshold(set) \in Nat /\ 3 * QuorumThreshold(set) > 2 * TotalVotingPower(set)
    BY ThresholdFacts DEF PowerAmong
  <1>7. MapThenSumSet(LAMBDA v : set.validators[v], a \cap b) = SumOver(f, a \cap b)
    BY DEF SumOver
  <1> HIDE DEF f, V
  <1>8. /\ SumOver(f, a) >= QuorumThreshold(set) /\ SumOver(f, a) \in Nat
        /\ SumOver(f, b) >= QuorumThreshold(set) /\ SumOver(f, b) \in Nat
    BY <1>2 DEF PowerAmong, f
  <1>9. 3 * SumOver(f, a \cap b) > TotalVotingPower(set)
    BY <1>3, <1>4, <1>5, <1>6, <1>8
  <1> QED
    BY <1>7, <1>9

\* A set with members has between one and as many as Counts allows.
LEMMA CountFacts ==
    /\ 0 \in Counts /\ Counts \subseteq Nat
    /\ \A set \in OfferedSets :
          /\ Cardinality(DOMAIN set.validators) \in Counts
          /\ ~IsEmpty(set) => Cardinality(DOMAIN set.validators) > 0
  <1> DEFINE size == [set \in OfferedSets |-> Cardinality(DOMAIN set.validators)]
             C == {0} \cup {Cardinality(DOMAIN set.validators) : set \in OfferedSets}
  <1>1. ASSUME NEW set \in OfferedSets
        PROVE  /\ Cardinality(DOMAIN set.validators) \in Nat
               /\ ~IsEmpty(set) => Cardinality(DOMAIN set.validators) > 0
    <2>1. IsFiniteSet(DOMAIN set.validators)
      BY ReconfigConstants
    <2>2. Cardinality(DOMAIN set.validators) \in Nat
      BY <2>1, FS_CardinalityType
    <2>3. DOMAIN set.validators # {} => Cardinality(DOMAIN set.validators) # 0
      BY <2>1, FS_EmptySet
    <2> QED
      BY <2>2, <2>3 DEF IsEmpty
  <1>2. C = {0} \cup {size[set] : set \in OfferedSets}
    OBVIOUS
  <1>3. IsFiniteSet(C)
    <2> DEFINE T == {size[set] : set \in OfferedSets}
    <2>1. IsFiniteSet(OfferedSets)
      BY ReconfigConstants
    <2> HIDE DEF size
    <2>2. IsFiniteSet(T)
      BY <2>1, ImageIsFinite
    <2> HIDE DEF T
    <2>3. IsFiniteSet(T \cup {0})
      BY <2>2, FS_AddElement
    <2>4. C = T \cup {0}
      BY <1>2 DEF T
    <2> QED
      BY <2>3, <2>4
  <1>4. C \in SUBSET Int /\ C \subseteq Nat /\ C # {}
    BY <1>1
  <1>5. Counts = 0..Max(C)
    BY DEF Counts
  <1>6. 0 \in C /\ \A set \in OfferedSets : Cardinality(DOMAIN set.validators) \in C
    OBVIOUS
  <1> HIDE DEF C
  <1>7. Max(C) \in C /\ \A x \in C : x <= Max(C)
    BY <1>3, <1>4, MaxFacts
  <1> QED
    BY <1>1, <1>4, <1>5, <1>6, <1>7

-----------------------------------------------------------------------------
(***************************************************************************)
(* The reconfiguration handler.                                            *)
(***************************************************************************)

\* A well-typed state holds only offered sets, whose quorums intersect: what
\* is left to show of a step is that no epoch is entered without a set.
LEMMA SoundFromParts ==
    ASSUME TypeOK', TransitionIsNext', InProgressHasSet',
           \A e \in InitialEpoch + 1..epoch' : e \in DOMAIN sets'
    PROVE  TransitionsAreSound'
  <1>1. \A set \in OfferedSets : QuorumsShareVoters(set)
    BY QuorumsIntersect DEF QuorumsShareVoters
  <1>2. EpochsHaveQuorums'
    BY <1>1 DEF EpochsHaveQuorums, TypeOK
  <1> QED
    BY <1>2 DEF TransitionsAreSound

\* ReconfigHandler::new.
LEMMA InitIsSound == Init => TransitionsAreSound
  <1> SUFFICES ASSUME Init PROVE TransitionsAreSound
    OBVIOUS
  <1>1. DOMAIN sets = {} /\ InitialEpoch \in Int /\ InitialEpoch + 1..epoch = {}
    BY ReconfigConstants DEF Init, U64
  <1>2. events \in Seq(Announcements) /\ Len(events) <= MaxEvents
    BY ReconfigConstants DEF Init
  <1>3. TypeOK
    BY <1>1, <1>2, CountFacts, ReconfigConstants DEF Init, TypeOK, U64
  <1> QED
    BY <1>1, <1>3
    DEF Init, TransitionsAreSound, TransitionIsNext, InProgressHasSet, EpochsHaveQuorums, IsInProgress

\* A set is stored beside the others, or in the place of one.
LEMMA StoreFacts ==
    ASSUME TypeOK, NEW e \in U64, NEW set \in OfferedSets, Store(e, set)
    PROVE  /\ DOMAIN sets' = DOMAIN sets \cup {e}
           /\ DOMAIN sets' \subseteq U64
           /\ \A f \in DOMAIN sets' : sets'[f] \in OfferedSets
  BY DEF TypeOK, Store

\* The handler's calls keep its state sound, and move the epoch only from the
\* end of a reconfiguration to the next epoch.
LEMMA NextIsSound ==
    ASSUME TransitionsAreSound, Next
    PROVE  /\ TransitionsAreSound'
           /\ epoch' # epoch => epoch' = epoch + 1
  <1>1. /\ TypeOK /\ TransitionIsNext /\ InProgressHasSet
        /\ \A e \in InitialEpoch + 1..epoch : e \in DOMAIN sets
    BY DEF TransitionsAreSound, EpochsHaveQuorums
  <1>2. ASSUME NEW e \in U64, PrepareReconfig(e)
        PROVE  TransitionsAreSound' /\ epoch' = epoch
    <2>1. TypeOK'
      BY <1>1, <1>2 DEF PrepareReconfig, TypeOK
    <2>2. TransitionIsNext'
      BY <1>1, <1>2, ReconfigConstants DEF PrepareReconfig, TransitionIsNext, NextEpoch, TypeOK, U64
    <2>3. InProgressHasSet'
      BY <1>2 DEF PrepareReconfig, InProgressHasSet
    <2>4. UNCHANGED <<epoch, sets>>
      BY <1>2 DEF PrepareReconfig
    <2> QED
      BY <1>1, <2>1, <2>2, <2>3, <2>4, SoundFromParts
  <1>3. ASSUME NEW e \in U64, NEW set \in OfferedSets, SetValidatorSet(e, set)
        PROVE  TransitionsAreSound' /\ epoch' = epoch
    <2>1. Store(e, set) /\ UNCHANGED <<status, newEpoch, processed, total, epoch, events>>
      BY <1>3 DEF SetValidatorSet
    <2>2. /\ DOMAIN sets' = DOMAIN sets \cup {e} /\ DOMAIN sets' \subseteq U64
          /\ \A f \in DOMAIN sets' : sets'[f] \in OfferedSets
      BY <1>1, <2>1, StoreFacts
    <2>3. TypeOK'
      BY <1>1, <2>1, <2>2 DEF TypeOK
    <2>4. TransitionIsNext' /\ InProgressHasSet'
      BY <1>1, <2>1, <2>2 DEF TransitionIsNext, InProgressHasSet, IsInProgress
    <2> QED
      BY <1>1, <2>1, <2>2, <2>3, <2>4, SoundFromParts
  <1>4. ASSUME NEW set \in OfferedSets, BeginReconfig(set)
        PROVE  TransitionsAreSound' /\ epoch' = epoch
    <2>1. /\ Store(newEpoch, set) /\ UNCHANGED <<newEpoch, epoch, events>>
          /\ status = "Preparing" /\ status' = "InProgress" /\ processed' = 0
          /\ total' = Cardinality(DOMAIN set.validators) /\ ~IsEmpty(set)
      BY <1>4 DEF BeginReconfig
    <2>2. /\ DOMAIN sets' = DOMAIN sets \cup {newEpoch} /\ DOMAIN sets' \subseteq U64
          /\ \A f \in DOMAIN sets' : sets'[f] \in OfferedSets
      BY <1>1, <2>1, StoreFacts DEF TypeOK
    <2>3. processed' \in Counts /\ total' \in Counts /\ total' > 0
      BY <2>1, CountFacts
    <2>4. TypeOK'
      BY <1>1, <2>1, <2>2, <2>3 DEF TypeOK
    <2>5. TransitionIsNext' /\ InProgressHasSet'
      BY <1>1, <2>1, <2>2, <2>3 DEF TransitionIsNext, InProgressHasSet, IsInProgress
    <2> QED
      BY <1>1, <2>1, <2>2, <2>4, <2>5, SoundFromParts
  <1>5. ASSUME NEW n \in Counts, UpdateProgress(n)
        PROVE  TransitionsAreSound' /\ epoch' = epoch
    <2>1. TypeOK' /\ TransitionIsNext' /\ InProgressHasSet' /\ UNCHANGED <<epoch, sets>>
      BY <1>1, <1>5 DEF UpdateProgress, TypeOK, TransitionIsNext, InProgressHasSet, IsInProgress
    <2> QED
      BY <1>1, <2>1, SoundFromParts
  <1>6. ASSUME CompleteReconfig
        PROVE  TransitionsAreSound' /\ epoch' = epoch + 1
    <2>1. /\ status = "InProgress" /\ processed = total /\ epoch' = newEpoch
          /\ newEpoch > epoch /\ newEpoch = NextEpoch(epoch)
          /\ status' = "Idle" /\ newEpoch' = 0 /\ processed' = 0 /\ total' = 0
          /\ UNCHANGED <<sets, events>>
      BY <1>6 DEF CompleteReconfig, StartNewEpochOk, Idle
    <2>2. epoch \in Int /\ MaxU64 \in Nat /\ 0 \in U64 /\ epoch >= 0 /\ InitialEpoch \in Int
      BY <1>1, ReconfigConstants DEF TypeOK, U64
    <2>3. newEpoch = epoch + 1
      BY <2>1, <2>2 DEF NextEpoch
    <2>4. TypeOK'
      BY <1>1, <2>1, <2>2, CountFacts DEF TypeOK
    <2>5. TransitionIsNext' /\ InProgressHasSet'
      BY <2>1 DEF TransitionIsNext, InProgressHasSet, IsInProgress
    <2>6. \A e \in InitialEpoch + 1..epoch' : e \in InitialEpoch + 1..epoch \/ e = newEpoch
      BY <2>1, <2>2, <2>3
    <2>7. \A e \in InitialEpoch + 1..epoch' : e \in DOMAIN sets'
      BY <1>1, <2>1, <2>6 DEF InProgressHasSet
    <2> QED
      BY <2>1, <2>3, <2>4, <2>5, <2>7, SoundFromParts
  <1>7. ASSUME NEW b \in OfferedBlocks, NEW event \in ProcessBlock(b), AddEvent(event)
        PROVE  TransitionsAreSound' /\ epoch' = epoch
    <2>1. event \in Announcements
      BY DEF ProcessBlock, Announcements
    <2>2. /\ events' = Append(events, event) /\ Len(events) < MaxEvents
          /\ UNCHANGED <<status, newEpoch, processed, total, epoch, sets>>
      BY <1>7 DEF AddEvent
    <2>3. events \in Seq(Announcements) /\ MaxEvents \in Nat
      BY <1>1, ReconfigConstants DEF TypeOK
    <2>4. events' \in Seq(Announcements) /\ Len(events') <= MaxEvents
      BY <2>1, <2>2, <2>3
    <2>5. TypeOK' /\ TransitionIsNext' /\ InProgressHasSet'
      BY <1>1, <2>2, <2>4 DEF TypeOK, TransitionIsNext, InProgressHasSet, IsInProgress
    <2> QED
      BY <1>1, <2>2, <2>5, SoundFromParts
  <1>8. ASSUME TakePendingEvents \/ Cancel
        PROVE  TransitionsAreSound' /\ epoch' = epoch
    <2>1. /\ events' = <<>> /\ UNCHANGED <<epoch, sets>>
          /\ \/ status' = "Idle" /\ newEpoch' = 0 /\ processed' = 0 /\ total' = 0
             \/ UNCHANGED <<status, newEpoch, processed, total>>
      BY <1>8 DEF TakePendingEvents, Cancel, Idle
    <2>2. events' \in Seq(Announcements) /\ Len(events') <= MaxEvents /\ 0 \in U64
      BY <2>1, ReconfigConstants DEF U64
    <2>3. TypeOK'
      BY <1>1, <2>1, <2>2, CountFacts DEF TypeOK
    <2>4. TransitionIsNext' /\ InProgressHasSet'
      BY <1>1, <2>1 DEF TransitionIsNext, InProgressHasSet, IsInProgress
    <2> QED
      BY <1>1, <2>1, <2>3, <2>4, SoundFromParts
  <1> QED
    BY <1>2, <1>3, <1>4, <1>5, <1>6, <1>7, <1>8 DEF Next

-----------------------------------------------------------------------------
(***************************************************************************)
(* Safety rules and round state across epochs.                             *)
(***************************************************************************)

\* The rounds voted for in epoch e.
RoundsIn(votes, e) == {0} \cup {v.round : v \in {w \in votes : w.epoch = e}}

\* last_voted_round is a maximum of a finite set of rounds.
LEMMA RoundsInFacts ==
    ASSUME NEW votes \in SUBSET Proposals, NEW e
    PROVE  /\ RoundsIn(votes, e) \in SUBSET Int /\ IsFiniteSet(RoundsIn(votes, e))
           /\ Max(RoundsIn(votes, e)) \in RoundsIn(votes, e)
           /\ \A r \in RoundsIn(votes, e) : r \in Nat /\ r <= Max(RoundsIn(votes, e))
  <1>1. MaxRound \in Nat
    BY EpochChangeConstants, ReconfigConstants DEF U64
  <1>2. RoundsIn(votes, e) \subseteq 0..MaxRound /\ 0 \in RoundsIn(votes, e)
    BY <1>1 DEF RoundsIn, Proposals
  <1>3. IsFiniteSet(0..MaxRound) /\ 0..MaxRound \subseteq Int
    BY <1>1, FS_Interval
  <1>4. RoundsIn(votes, e) \in SUBSET Int /\ IsFiniteSet(RoundsIn(votes, e))
    BY <1>2, <1>3, FS_Subset
  <1>5. Max(RoundsIn(votes, e)) \in RoundsIn(votes, e) /\ \A r \in RoundsIn(votes, e) : r <= Max(RoundsIn(votes, e))
    BY <1>2, <1>4, MaxFacts
  <1> QED
    BY <1>1, <1>2, <1>4, <1>5

\* A further vote of the epoch raises the maximum as record_vote does, and a
\* set without votes of the epoch has maximum 0.
LEMMA MaxAfterVote ==
    ASSUME NEW votes \in SUBSET Proposals, NEW p \in Proposals
    PROVE  Max(RoundsIn(votes \cup {p}, p.epoch)) = Larger(Max(RoundsIn(votes, p.epoch)), p.round)
  <1> DEFINE S == RoundsIn(votes, p.epoch)
             T == RoundsIn(votes \cup {p}, p.epoch)
  <1>1. T = S \cup {p.round}
    BY DEF RoundsIn
  <1>2. Max(S) \in S /\ \A r \in S : r \in Nat /\ r <= Max(S)
    BY RoundsInFacts
  <1>3. Max(T) \in T /\ \A r \in T : r \in Nat /\ r <= Max(T)
    BY RoundsInFacts
  <1> HIDE DEF S, T
  <1>4. Max(T) = Larger(Max(S), p.round)
    BY <1>1, <1>2, <1>3 DEF Larger
  <1> QED
    BY <1>4 DEF S, T

\* Before the first vote of an epoch its highest voted round is 0.
LEMMA MaxWithoutVotes ==
    ASSUME NEW votes \in SUBSET Proposals, NEW e, \A w \in votes : w.epoch # e
    PROVE  Max(RoundsIn(votes, e)) = 0
  <1>1. RoundsIn(votes, e) = {0}
    BY DEF RoundsIn
  <1> QED
    BY <1>1, RoundsInFacts

\* The constants, once more.
LEMMA EpochFacts ==
    /\ MaxU64 \in Nat /\ MaxRound \in U64 /\ 0 \in U64 /\ 0..MaxRound \subseteq U64 /\ U64 \subseteq Nat
    /\ InitialRound \in 0..MaxRound /\ InitialEpoch \in U64
  BY EpochChangeConstants, ReconfigConstants DEF U64

\* The host starts with a fresh safety state and round state.
LEMMA InitIInv == HostInit => IInv
  <1> SUFFICES ASSUME HostInit PROVE IInv
    OBVIOUS
  <1>1. /\ rules \in SafetyStateData /\ rules.last_voted_round = 0 /\ rules.epoch = InitialEpoch
    BY NewSafetyStateFacts, EpochFacts DEF HostInit, NewSafetyState
  <1>2. /\ round = [epoch |-> InitialEpoch, round |-> InitialRound,
                    proposed_block |-> {}, quorum_cert |-> {}]
        /\ voted = {} /\ epoch = InitialEpoch
    BY DEF HostInit, Init, RS!NewRoundState
  <1>3. TransitionsAreSound
    BY InitIsSound DEF HostInit
  <1>4. HostTypeOK
    BY <1>1, <1>2, EpochFacts DEF HostTypeOK
  <1>5. NoVoteAhead
    BY <1>1, <1>2, EpochFacts DEF NoVoteAhead
  <1>6. Max(RoundsIn(voted, rules.epoch)) = 0
    BY <1>2, MaxWithoutVotes
  <1>7. EpochStartsOver
    BY <1>1, <1>2, <1>6 DEF EpochStartsOver, RoundsIn
  <1> QED
    BY <1>3, <1>4, <1>5, <1>7 DEF IInv

\* The handler's calls leave the rest alone and never take the epoch back.
LEMMA HandlerKeepsIInv ==
    ASSUME IInv, HandlerNext
    PROVE  IInv'
  <1>1. UNCHANGED <<rules, round, voted>> /\ Next
    BY DEF HandlerNext, hostVars
  <1>2. TransitionsAreSound' /\ (epoch' # epoch => epoch' = epoch + 1)
    BY <1>1, NextIsSound DEF IInv
  <1>3. epoch \in U64 /\ rules.epoch \in U64 /\ round.epoch \in U64
    BY DEF IInv, TransitionsAreSound, TypeOK, HostTypeOK, SafetyStateData
  <1>4. NoVoteAhead'
    <2>1. epoch \in Nat /\ rules.epoch \in Nat /\ round.epoch \in Nat
      BY <1>3, EpochFacts
    <2>2. rules.epoch <= epoch' /\ round.epoch <= epoch'
      BY <1>2, <2>1 DEF IInv, NoVoteAhead
    <2> QED
      BY <1>1, <2>2 DEF IInv, NoVoteAhead
  <1> QED
    BY <1>1, <1>2, <1>4 DEF IInv, HostTypeOK, EpochStartsOver

\* A vote is recorded with the epoch the two states share.
LEMMA VoteKeepsIInv ==
    ASSUME IInv, Vote
    PROVE  IInv'
  <1> DEFINE p == [epoch |-> round.epoch, round |-> round.round]
  <1>1. /\ UNCHANGED vars /\ rules' = RecordVote(rules, round.round) /\ voted' = voted \cup {p}
        /\ round' = RS!SetProposedBlock(round, p)
        /\ round.epoch = rules.epoch
    BY DEF Vote, SameEpoch
  <1>2. /\ rules \in SafetyStateData /\ voted \in SUBSET Proposals
        /\ round \in [epoch : U64, round : 0..MaxRound,
                      proposed_block : SUBSET Proposals, quorum_cert : SUBSET Proposals]
        /\ round.round \in 0..MaxRound /\ round.round \in U64 /\ round.epoch = rules.epoch
        /\ rules.epoch \in U64
    BY <1>1, EpochFacts DEF IInv, HostTypeOK, SafetyStateData
  <1>3. p \in Proposals /\ p.epoch = rules.epoch /\ p.round = round.round
    BY <1>2 DEF Proposals
  <1>4. /\ rules' \in SafetyStateData /\ rules'.epoch = rules.epoch
        /\ rules'.last_voted_round = Larger(rules.last_voted_round, round.round)
    BY <1>1, <1>2, RecordVoteFacts DEF RecordVote, SafetyStateData
  <1>5. /\ round' \in [epoch : U64, round : 0..MaxRound,
                       proposed_block : SUBSET Proposals, quorum_cert : SUBSET Proposals]
        /\ round'.epoch = round.epoch /\ round'.proposed_block = {p}
        /\ round'.quorum_cert = round.quorum_cert
    BY <1>1, <1>2, <1>3 DEF RS!SetProposedBlock
  <1> HIDE DEF p
  <1>6. TransitionsAreSound'
    BY <1>1 DEF IInv, vars, TransitionsAreSound, TypeOK, TransitionIsNext, InProgressHasSet,
                EpochsHaveQuorums, IsInProgress
  <1>7. HostTypeOK'
    BY <1>1, <1>2, <1>3, <1>4, <1>5 DEF HostTypeOK
  <1>8. NoVoteAhead'
    <2>1. rules.epoch \in Nat
      BY <1>2, EpochFacts
    <2>2. p.epoch <= rules.epoch
      BY <1>3, <2>1
    <2> QED
      BY <1>1, <1>4, <1>5, <2>2 DEF IInv, NoVoteAhead, vars
  <1>9. rules.last_voted_round = Max(RoundsIn(voted, rules.epoch))
    BY DEF IInv, EpochStartsOver, RoundsIn
  <1>10. rules'.last_voted_round = Max(RoundsIn(voted', rules'.epoch))
    BY <1>1, <1>2, <1>3, <1>4, <1>9, MaxAfterVote
  <1>11. EpochStartsOver'
    BY <1>2, <1>3, <1>4, <1>5, <1>10 DEF IInv, EpochStartsOver, RoundsIn
  <1> QED
    BY <1>6, <1>7, <1>8, <1>11 DEF IInv

\* A certificate of the round is of the epoch, and does not touch the votes.
LEMMA CertifyKeepsIInv ==
    ASSUME IInv, Certify
    PROVE  IInv'
  <1> DEFINE qc == [epoch |-> round.epoch, round |-> round.round]
  <1>1. /\ UNCHANGED <<vars, voted>> /\ round.round < MaxRound
        /\ rules' = ObserveQc(rules, round.round)
        /\ round' = RS!AdvanceRound(RS!SetQuorumCert(round, qc))
        /\ round.epoch = rules.epoch
    BY DEF Certify, SameEpoch
  <1>2. /\ rules \in SafetyStateData
        /\ round \in [epoch : U64, round : 0..MaxRound,
                      proposed_block : SUBSET Proposals, quorum_cert : SUBSET Proposals]
        /\ round.round \in 0..MaxRound /\ round.round \in U64 /\ round.epoch = rules.epoch
        /\ round.epoch \in U64
    BY <1>1, EpochFacts DEF IInv, HostTypeOK
  <1>3. qc \in Proposals /\ qc.epoch = rules.epoch
    BY <1>2 DEF Proposals
  <1>4. /\ rules' \in SafetyStateData /\ rules'.epoch = rules.epoch
        /\ rules'.last_voted_round = rules.last_voted_round
    <2>1. rules'.epoch = rules.epoch
      BY <1>1, <1>2 DEF ObserveQc, UpdateOneChainRound, UpdatePreferredRound, SafetyStateData
    <2> QED
      BY <1>1, <1>2, <2>1, ObserveQcFacts
  <1>5. round.round + 1 \in 0..MaxRound
    BY <1>1, <1>2, EpochFacts
  <1> HIDE DEF qc
  <1>6. /\ round' \in [epoch : U64, round : 0..MaxRound,
                       proposed_block : SUBSET Proposals, quorum_cert : SUBSET Proposals]
        /\ round'.epoch = round.epoch /\ round'.proposed_block = {} /\ round'.quorum_cert = {qc}
    BY <1>1, <1>2, <1>3, <1>5 DEF RS!AdvanceRound, RS!SetRound, RS!SetQuorumCert
  <1>7. TransitionsAreSound'
    BY <1>1 DEF IInv, vars, TransitionsAreSound, TypeOK, TransitionIsNext, InProgressHasSet,
                EpochsHaveQuorums, IsInProgress
  <1>8. HostTypeOK'
    BY <1>1, <1>4, <1>6 DEF IInv, HostTypeOK
  <1>9. NoVoteAhead'
    BY <1>1, <1>4, <1>6 DEF IInv, NoVoteAhead, vars
  <1>10. EpochStartsOver'
    BY <1>1, <1>2, <1>3, <1>4, <1>6 DEF IInv, EpochStartsOver
  <1> QED
    BY <1>7, <1>8, <1>9, <1>10 DEF IInv

\* new_epoch: no vote was cast in the epoch that starts, not even if set_epoch
\* came first.
LEMMA EnterSafetyEpochKeepsIInv ==
    ASSUME IInv, EnterSafetyEpoch
    PROVE  IInv'
  <1>1. /\ UNCHANGED <<vars, round, voted>> /\ rules.epoch # epoch
        /\ rules' = NewEpoch(rules, epoch)
    BY DEF EnterSafetyEpoch
  <1>2. rules \in SafetyStateData /\ epoch \in U64 /\ rules.epoch \in U64 /\ voted \in SUBSET Proposals
    BY DEF IInv, HostTypeOK, TransitionsAreSound, TypeOK, SafetyStateData
  <1>3. rules' \in SafetyStateData /\ rules'.epoch = epoch /\ rules'.last_voted_round = 0
    BY <1>1, <1>2, EpochFacts DEF NewEpoch, NewSafetyState, SafetyStateData
  <1>4. epoch \in Nat /\ rules.epoch \in Nat /\ \A w \in voted : w.epoch \in Nat
    BY <1>2, EpochFacts DEF Proposals
  <1>5. \A w \in voted : w.epoch # epoch /\ w.epoch <= epoch
    <2>1. rules.epoch <= epoch /\ \A w \in voted : w.epoch <= rules.epoch
      BY DEF IInv, NoVoteAhead
    <2> QED
      BY <1>1, <1>4, <2>1
  <1>6. TransitionsAreSound'
    BY <1>1 DEF IInv, vars, TransitionsAreSound, TypeOK, TransitionIsNext, InProgressHasSet,
                EpochsHaveQuorums, IsInProgress
  <1>7. HostTypeOK'
    BY <1>1, <1>3 DEF IInv, HostTypeOK
  <1>8. NoVoteAhead'
    BY <1>1, <1>3, <1>4, <1>5 DEF IInv, NoVoteAhead, vars
  <1>9. Max(RoundsIn(voted, epoch)) = 0
    BY <1>2, <1>5, MaxWithoutVotes
  <1>10. EpochStartsOver'
    BY <1>1, <1>3, <1>9 DEF IInv, EpochStartsOver, RoundsIn, vars
  <1> QED
    BY <1>6, <1>7, <1>8, <1>10 DEF IInv

\* set_epoch: the round state keeps nothing, and the votes are not touched.
LEMMA EnterRoundEpochKeepsIInv ==
    ASSUME IInv, EnterRoundEpoch
    PROVE  IInv'
  <1>1. /\ UNCHANGED <<vars, rules, voted>>
        /\ round' = [epoch |-> epoch, round |-> InitialRound, proposed_block |-> {}, quorum_cert |-> {}]
    BY DEF EnterRoundEpoch, RS!SetEpoch, RS!NewRoundState
  <1>2. epoch \in U64 /\ epoch \in Nat
    BY EpochFacts DEF IInv, TransitionsAreSound, TypeOK
  <1>3. TransitionsAreSound'
    BY <1>1 DEF IInv, vars, TransitionsAreSound, TypeOK, TransitionIsNext, InProgressHasSet,
                EpochsHaveQuorums, IsInProgress
  <1>4. HostTypeOK'
    BY <1>1, <1>2, EpochFacts DEF IInv, HostTypeOK
  <1>5. NoVoteAhead'
    BY <1>1, <1>2 DEF IInv, NoVoteAhead, vars
  <1>6. EpochStartsOver'
    BY <1>1 DEF IInv, EpochStartsOver, vars
  <1> QED
    BY <1>3, <1>4, <1>5, <1>6 DEF IInv

\* No step of the handler or of the host breaks the invariant.
LEMMA HostNextKeepsIInv == IInv /\ [HandlerNext \/ HostNext]_<<vars, hostVars>> => IInv'
  <1> SUFFICES ASSUME IInv, [HandlerNext \/ HostNext]_<<vars, hostVars>> PROVE IInv'
    OBVIOUS
  <1>1. CASE UNCHANGED <<vars, hostVars>>
    BY <1>1
    DEF vars, hostVars, IInv, TransitionsAreSound, TypeOK, TransitionIsNext, InProgressHasSet,
        EpochsHaveQuorums, IsInProgress, HostTypeOK, NoVoteAhead, EpochStartsOver
  <1>2. CASE HandlerNext \/ HostNext
    BY <1>2, HandlerKeepsIInv, VoteKeepsIInv, CertifyKeepsIInv, EnterSafetyEpochKeepsIInv,
       EnterRoundEpochKeepsIInv DEF HostNext
  <1> QED
    BY <1>1, <1>2

\* The invariant holds in every state, whatever is cancelled or repeated.
THEOREM Invariance == HostSpec => []IInv
  BY InitIInv, HostNextKeepsIInv, PTL DEF HostSpec

\* Every epoch entered has a validator set, and any two quorums of the set of
\* the current epoch share more than a third of its power; the epoch under
\* preparation is always the next one.
THEOREM ReconfigurationIsSound == HostSpec => []TransitionsAreSound
  <1>1. IInv => TransitionsAreSound
    BY DEF IInv
  <1> QED
    BY <1>1, Invariance, PTL

\* Votes, proposals and certificates of one epoch never count in another.
THEOREM EpochsStartOver == HostSpec => []EpochStartsOver
  <1>1. IInv => EpochStartsOver
    BY DEF IInv
  <1> QED
    BY <1>1, Invariance, PTL
=============================================================================
