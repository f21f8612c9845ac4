------------------------ MODULE DurableVotingProofs ------------------------
(***************************************************************************)
(* The invariants and step properties of DurableVoting, for every epoch,   *)
(* every set of proposals and certificates and every width of u64.         *)
(***************************************************************************)
EXTENDS DurableVoting, OperatorLemmas

\* The initial state, a validator that has never run, satisfies IInv.
LEMMA InitIInv == Init => IInv
  BY DEF Init, IInv, TypeOK, Phases, IsOption, SentVotesAreDurable,
         MemoryCoversDisk, VoteInFlightIsCovered, OneChainIsObserved,
         PreferredIsTwoChain, PreferredWithinOneChain

\* load_safety_rules restores exactly the disk's state, or the zero state
\* when nothing was ever written and hence nothing was ever sent.
LEMMA LoadKeepsIInv == IInv /\ LoadSafetyRules => IInv'
  <1> SUFFICES ASSUME IInv, LoadSafetyRules PROVE IInv'
    OBVIOUS
  <1>1. /\ NewSafetyState(Epoch) \in SafetyStateData
        /\ NewSafetyState(Epoch).preferred_round = 0
        /\ NewSafetyState(Epoch).one_chain_round = 0
    BY NewSafetyStateFacts, DurableVotingConstants
  <1>2. UNCHANGED <<disk, vote, sent, observed>> /\ phase \in {"down", "refused"}
    BY DEF LoadSafetyRules
  <1>3. \/ disk = {} /\ phase' = "idle" /\ rules' = {NewSafetyState(Epoch)}
        \/ disk # {} /\ phase' = "idle" /\ rules' = disk
        \/ phase' = "refused" /\ rules' = rules
    BY DEF LoadSafetyRules
  <1>4. TypeOK'
    BY <1>1, <1>2, <1>3 DEF IInv, TypeOK, Phases, IsOption
  <1>5. MemoryCoversDisk'
    <2> SUFFICES ASSUME NEW s \in rules', NEW d \in disk'
                 PROVE  RoundsAtLeast(s, d)
      BY DEF MemoryCoversDisk
    <2>1. d \in disk /\ disk # {} /\ s \in rules \cup disk
      BY <1>2, <1>3
    <2>2. d \in SafetyStateData /\ (s \in disk => s = d)
      BY <2>1 DEF IInv, TypeOK, IsOption
    <2> QED
      BY <2>1, <2>2, RoundsAtLeastReflexive DEF IInv, MemoryCoversDisk
  <1>6. VoteInFlightIsCovered'
    BY <1>2, <1>3 DEF IInv, TypeOK, VoteInFlightIsCovered
  <1>7. /\ SentVotesAreDurable'
        /\ OneChainIsObserved'
        /\ PreferredIsTwoChain'
        /\ PreferredWithinOneChain'
    BY <1>1, <1>2, <1>3
    DEF IInv, SentVotesAreDurable, OneChainIsObserved, PreferredIsTwoChain,
        PreferredWithinOneChain
  <1> QED BY <1>4, <1>5, <1>6, <1>7 DEF IInv

\* try_vote_for_proposal only raises last_voted_round, to the round of a vote
\* that is not below what memory, and hence the disk and the network, know.
LEMMA TryVoteKeepsIInv ==
    ASSUME NEW p \in Proposals, NEW tc \in Option(OfferedTcs)
    PROVE  IInv /\ TryVote(p, tc) => IInv'
  <1> SUFFICES ASSUME IInv, TryVote(p, tc) PROVE IInv'
    OBVIOUS
  <1>1. PICK s \in rules : TryVoteOk(s, p.round, tc) /\ rules' = {RecordVote(s, p.round)}
    BY DEF TryVote
  <1>2. /\ UNCHANGED <<disk, sent, observed>>
        /\ phase = "idle" /\ phase' = "recorded"
        /\ vote' = {[proposal |-> p, tc |-> tc]}
    BY DEF TryVote
  <1>3. /\ s \in SafetyStateData /\ p.round \in U64
        /\ \A d \in disk : d \in SafetyStateData
        /\ s.last_voted_round <= p.round
    BY <1>1, DurableVotingConstants DEF IInv, TypeOK, IsOption, TryVoteOk
  <1> DEFINE t == RecordVote(s, p.round)
  <1>4. /\ t \in SafetyStateData /\ RoundsAtLeast(t, s)
        /\ t.last_voted_round >= p.round
        /\ t.preferred_round = s.preferred_round
        /\ t.one_chain_round = s.one_chain_round
    BY <1>3, RecordVoteFacts
  <1>5. rules' = {t}
    BY <1>1
  <1> HIDE DEF t
  <1>6. TypeOK'
    BY <1>2, <1>4, <1>5 DEF IInv, TypeOK, Phases, IsOption, Votes
  <1>7. MemoryCoversDisk'
    BY <1>2, <1>3, <1>4, <1>5, <1>1, RoundsAtLeastTransitive
    DEF IInv, MemoryCoversDisk
  <1>8. VoteInFlightIsCovered'
    <2>1. ASSUME NEW w \in sent PROVE w.proposal.round <= p.round
      <3>1. PICK d \in disk : w.proposal.round <= d.last_voted_round
        BY <2>1 DEF IInv, SentVotesAreDurable
      <3>2. d.last_voted_round <= s.last_voted_round
        BY <1>1, <3>1 DEF IInv, MemoryCoversDisk, RoundsAtLeast
      <3>3. w.proposal.round \in U64
        BY <2>1, DurableVotingConstants DEF IInv, TypeOK, Votes
      <3> QED
        BY <1>3, <3>1, <3>2, <3>3, SafetyConstants DEF SafetyStateData, U64
    <2> QED
      BY <1>2, <1>4, <1>5, <2>1 DEF VoteInFlightIsCovered
  <1>9. SentVotesAreDurable'
    BY <1>2 DEF IInv, SentVotesAreDurable
  <1>10. OneChainIsObserved' /\ PreferredIsTwoChain' /\ PreferredWithinOneChain'
    BY <1>1, <1>2, <1>4, <1>5
    DEF IInv, OneChainIsObserved, PreferredIsTwoChain, PreferredWithinOneChain
  <1> QED BY <1>6, <1>7, <1>8, <1>9, <1>10 DEF IInv

\* Whatever persist_safety_state leaves on the disk, the old state or the
\* memory copy, what was sent stays covered.
LEMMA WriteKeepsIInv ==
    ASSUME IInv, rules # {}, disk' \in {disk, rules}, UNCHANGED <<rules, sent, observed>>
    PROVE  /\ IsOption(disk', SafetyStateData)
           /\ MemoryCoversDisk'
           /\ SentVotesAreDurable'
           /\ OneChainIsObserved'
           /\ PreferredIsTwoChain'
           /\ PreferredWithinOneChain'
  <1>1. IsOption(disk', SafetyStateData)
    BY DEF IInv, TypeOK, IsOption
  <1>2. MemoryCoversDisk'
    BY RoundsAtLeastReflexive DEF IInv, TypeOK, IsOption, MemoryCoversDisk
  <1>3. SentVotesAreDurable'
    <2> SUFFICES ASSUME NEW v \in sent, disk' = rules
                 PROVE  \E e \in rules : v.proposal.round <= e.last_voted_round
      BY DEF IInv, SentVotesAreDurable
    <2>1. PICK d \in disk : v.proposal.round <= d.last_voted_round
      BY DEF IInv, SentVotesAreDurable
    <2>2. PICK s \in rules : TRUE
      OBVIOUS
    <2>3. d.last_voted_round <= s.last_voted_round
      BY DEF IInv, MemoryCoversDisk, RoundsAtLeast
    <2>4. v.proposal.round \in U64 /\ d \in SafetyStateData /\ s \in SafetyStateData
      BY DurableVotingConstants DEF IInv, TypeOK, IsOption, Votes
    <2> QED
      BY <2>1, <2>3, <2>4, SafetyConstants DEF SafetyStateData, U64
  <1>4. OneChainIsObserved' /\ PreferredIsTwoChain' /\ PreferredWithinOneChain'
    BY DEF IInv, OneChainIsObserved, PreferredIsTwoChain, PreferredWithinOneChain
  <1> QED BY <1>1, <1>2, <1>3, <1>4

\* The two outcomes of persist_safety_state inside the voting sequence, and
\* the call after an observation.
LEMMA PersistKeepsIInv ==
    IInv /\ (PersistVote \/ PersistVoteFails \/ PersistObserved) => IInv'
  <1> SUFFICES ASSUME IInv, PersistVote \/ PersistVoteFails \/ PersistObserved
               PROVE  IInv'
    OBVIOUS
  <1>1. /\ disk' \in {disk, rules}
        /\ UNCHANGED <<rules, sent, observed>>
        /\ phase \in {"idle", "recorded"}
    BY DEF PersistVote, PersistVoteFails, PersistObserved
  <1>2. rules # {}
    BY <1>1 DEF IInv, TypeOK
  <1>3. TypeOK'
    BY <1>1, <1>2, WriteKeepsIInv
    DEF IInv, TypeOK, Phases, IsOption, PersistVote, PersistVoteFails, PersistObserved
  <1>4. VoteInFlightIsCovered'
    BY <1>1
    DEF IInv, VoteInFlightIsCovered, PersistVote, PersistVoteFails, PersistObserved
  <1> QED BY <1>1, <1>2, <1>3, <1>4, WriteKeepsIInv DEF IInv

\* Sending is safe because the disk equals the memory copy in "persisted".
LEMMA SendKeepsIInv == IInv /\ (SendVote \/ SendVoteFails) => IInv'
  <1> SUFFICES ASSUME IInv, SendVote \/ SendVoteFails PROVE IInv'
    OBVIOUS
  <1>1. /\ UNCHANGED <<rules, disk, observed>>
        /\ phase = "persisted" /\ phase' = "idle" /\ vote' = {}
        /\ sent' \in {sent, sent \cup vote}
    BY DEF SendVote, SendVoteFails
  <1>2. disk = rules /\ rules # {}
    BY <1>1 DEF IInv, TypeOK, VoteInFlightIsCovered
  <1>3. TypeOK'
    BY <1>1 DEF IInv, TypeOK, Phases, IsOption
  <1>4. SentVotesAreDurable'
    BY <1>1, <1>2 DEF IInv, SentVotesAreDurable, VoteInFlightIsCovered
  <1>5. VoteInFlightIsCovered'
    BY <1>1 DEF VoteInFlightIsCovered
  <1>6. /\ MemoryCoversDisk' /\ OneChainIsObserved' /\ PreferredIsTwoChain'
        /\ PreferredWithinOneChain'
    BY <1>1
    DEF IInv, MemoryCoversDisk, OneChainIsObserved, PreferredIsTwoChain,
        PreferredWithinOneChain
  <1> QED BY <1>3, <1>4, <1>5, <1>6 DEF IInv

\* An observation replaces the memory copy s by a t with larger rounds, the
\* same last_voted_round, and a preferred_round that is the old one or the
\* new one_chain_round on top of the old one.
LEMMA ObservationKeepsIInv ==
    ASSUME IInv, phase = "idle", UNCHANGED <<phase, disk, vote, sent>>,
           NEW s \in rules, NEW t \in SafetyStateData, rules' = {t},
           RoundsAtLeast(t, s),
           observed \subseteq observed', observed' \subseteq U64,
           t.one_chain_round = s.one_chain_round \/ t.one_chain_round \in observed',
           \/ t.preferred_round = s.preferred_round
           \/ /\ t.preferred_round = t.one_chain_round
              /\ t.preferred_round \in observed'
              /\ t.preferred_round = s.one_chain_round + 1
    PROVE  IInv'
  <1>1. /\ s \in SafetyStateData /\ \A d \in disk : d \in SafetyStateData
        /\ vote = {}
    BY DEF IInv, TypeOK, IsOption
  <1>2. TypeOK'
    BY DEF IInv, TypeOK, IsOption
  <1>3. MemoryCoversDisk'
    BY <1>1, RoundsAtLeastTransitive DEF IInv, MemoryCoversDisk
  <1>4. VoteInFlightIsCovered' /\ SentVotesAreDurable'
    BY <1>1 DEF IInv, VoteInFlightIsCovered, SentVotesAreDurable
  <1>5. OneChainIsObserved'
    BY DEF IInv, OneChainIsObserved
  <1>6. PreferredIsTwoChain'
    <2>1. ASSUME NEW u \in disk, u.preferred_round > 0
          PROVE  {u.preferred_round - 1, u.preferred_round} \subseteq observed' \cup {0}
      BY <2>1 DEF IInv, PreferredIsTwoChain
    <2>2. ASSUME t.preferred_round > 0
          PROVE  {t.preferred_round - 1, t.preferred_round} \subseteq observed' \cup {0}
      <3>1. CASE t.preferred_round = s.preferred_round
        BY <2>2, <3>1 DEF IInv, PreferredIsTwoChain
      <3>2. CASE t.preferred_round = s.one_chain_round + 1 /\ t.preferred_round \in observed'
        <4>1. t.preferred_round - 1 = s.one_chain_round
          BY <1>1, <3>2, SafetyConstants DEF SafetyStateData, U64
        <4>2. s.one_chain_round \in observed' \cup {0}
          BY DEF IInv, OneChainIsObserved
        <4> QED BY <3>2, <4>1, <4>2
      <3> QED BY <3>1, <3>2
    <2> QED BY <2>1, <2>2 DEF PreferredIsTwoChain
  <1>7. PreferredWithinOneChain'
    <2>1. t.preferred_round <= t.one_chain_round
      BY <1>1, SafetyConstants
      DEF IInv, PreferredWithinOneChain, RoundsAtLeast, SafetyStateData, U64
    <2> QED BY <2>1 DEF IInv, PreferredWithinOneChain
  <1> QED BY <1>2, <1>3, <1>4, <1>5, <1>6, <1>7 DEF IInv

\* observe_qc: the only step that can create a 2-chain.
LEMMA SeeQcKeepsIInv ==
    ASSUME NEW r \in QcRounds
    PROVE  IInv /\ SeeQc(r) => IInv'
  <1> SUFFICES ASSUME IInv, SeeQc(r) PROVE IInv'
    OBVIOUS
  <1>1. PICK s \in rules : s \in SafetyStateData /\ rules = {s}
    BY DEF SeeQc, IInv, TypeOK, IsOption
  <1>2. r \in U64
    BY DurableVotingConstants
  <1>3. PICK t \in SafetyStateData :
            /\ rules' = {t} /\ RoundsAtLeast(t, s)
            /\ t.one_chain_round = Larger(s.one_chain_round, r)
            /\ \/ t.preferred_round = s.preferred_round
               \/ t.preferred_round = r /\ r = s.one_chain_round + 1
    BY <1>1, <1>2, ObserveQcFacts DEF SeeQc
  <1>4. /\ t.one_chain_round = s.one_chain_round \/ t.one_chain_round = r
        /\ r = s.one_chain_round + 1 => t.one_chain_round = r
    BY <1>1, <1>2, <1>3, SafetyConstants DEF Larger, SafetyStateData, U64
  <1>5. /\ phase = "idle" /\ UNCHANGED <<phase, disk, vote, sent>>
        /\ observed' = observed \cup {r} /\ observed' \subseteq U64
    BY <1>2 DEF SeeQc, IInv, TypeOK
  <1> QED BY <1>3, <1>4, <1>5, ObservationKeepsIInv

\* observe_tc raises one_chain_round to a certified round, not the 2-chain.
LEMMA SeeTcKeepsIInv ==
    ASSUME NEW tc \in OfferedTcs
    PROVE  IInv /\ SeeTc(tc) => IInv'
  <1> SUFFICES ASSUME IInv, SeeTc(tc) PROVE IInv'
    OBVIOUS
  <1>1. PICK s \in rules : s \in SafetyStateData /\ rules = {s}
    BY DEF SeeTc, IInv, TypeOK, IsOption
  <1>2. tc.round \in U64 /\ tc.hqc_round \in U64
    BY DurableVotingConstants DEF TimeoutCerts
  <1>3. PICK t \in SafetyStateData :
            /\ rules' = {t} /\ RoundsAtLeast(t, s)
            /\ t.one_chain_round = Larger(s.one_chain_round, tc.hqc_round)
            /\ t.preferred_round = s.preferred_round
    BY <1>1, <1>2, ObserveTcFacts DEF SeeTc
  <1>4. t.one_chain_round = s.one_chain_round \/ t.one_chain_round = tc.hqc_round
    BY <1>3 DEF Larger
  <1>5. /\ phase = "idle" /\ UNCHANGED <<phase, disk, vote, sent>>
        /\ observed' = observed \cup {tc.hqc_round} /\ observed' \subseteq U64
    BY <1>2 DEF SeeTc, IInv, TypeOK
  <1> QED BY <1>3, <1>4, <1>5, ObservationKeepsIInv

\* record_timeout touches highest_timeout_round only.
LEMMA SeeTimeoutKeepsIInv ==
    ASSUME NEW r \in QcRounds
    PROVE  IInv /\ SeeTimeout(r) => IInv'
  <1> SUFFICES ASSUME IInv, SeeTimeout(r) PROVE IInv'
    OBVIOUS
  <1>1. PICK s \in rules : s \in SafetyStateData /\ rules = {s}
    BY DEF SeeTimeout, IInv, TypeOK, IsOption
  <1>2. PICK t \in SafetyStateData :
            /\ rules' = {t} /\ RoundsAtLeast(t, s)
            /\ t.one_chain_round = s.one_chain_round
            /\ t.preferred_round = s.preferred_round
    BY <1>1, RecordTimeoutFacts, DurableVotingConstants DEF SeeTimeout
  <1>3. /\ phase = "idle" /\ UNCHANGED <<phase, disk, vote, sent, observed>>
        /\ observed \subseteq U64
    BY DEF SeeTimeout, IInv, TypeOK
  <1> QED BY <1>2, <1>3, ObservationKeepsIInv

\* A crash loses memory and the vote in flight, never what the disk holds.
LEMMA CrashKeepsIInv == IInv /\ Crash => IInv'
  BY DEF Crash, IInv, TypeOK, Phases, IsOption, SentVotesAreDurable,
         MemoryCoversDisk, VoteInFlightIsCovered, OneChainIsObserved,
         PreferredIsTwoChain, PreferredWithinOneChain

\* IInv is an invariant of the validator: every action keeps it.
THEOREM IInvHolds == Spec => []IInv
  <1>1. IInv /\ [Next]_vars => IInv'
    <2> SUFFICES ASSUME IInv, [Next]_vars PROVE IInv'
      OBVIOUS
    <2>1. CASE LoadSafetyRules
      BY <2>1, LoadKeepsIInv
    <2>2. CASE \E p \in Proposals, tc \in Option(OfferedTcs) : TryVote(p, tc)
      BY <2>2, TryVoteKeepsIInv
    <2>3. CASE PersistVote \/ PersistVoteFails \/ PersistObserved
      BY <2>3, PersistKeepsIInv
    <2>4. CASE SendVote \/ SendVoteFails
      BY <2>4, SendKeepsIInv
    <2>5. CASE \E r \in QcRounds : SeeQc(r)
      BY <2>5, SeeQcKeepsIInv
    <2>6. CASE \E tc \in OfferedTcs : SeeTc(tc)
      BY <2>6, SeeTcKeepsIInv
    <2>7. CASE \E r \in QcRounds : SeeTimeout(r)
      BY <2>7, SeeTimeoutKeepsIInv
    <2>8. CASE Crash
      BY <2>8, CrashKeepsIInv
    <2>9. CASE UNCHANGED vars
      BY <2>9
      DEF vars, IInv, TypeOK, IsOption, SentVotesAreDurable, MemoryCoversDisk,
          VoteInFlightIsCovered, OneChainIsObserved, PreferredIsTwoChain,
          PreferredWithinOneChain
    <2> QED
      BY <2>1, <2>2, <2>3, <2>4, <2>5, <2>6, <2>7, <2>8, <2>9 DEF Next
  <1> QED BY InitIInv, <1>1, PTL DEF Spec

\* The disk forbids every round below that of any vote the network has seen,
\* across any mix of crashes, failed writes and restarts.
THEOREM Durability == Spec => []SentVotesAreDurable
  BY IInvHolds, PTL DEF IInv

\* The 2-chain round is always backed by two consecutive certified rounds.
THEOREM TwoChainIsReal == Spec => []PreferredIsTwoChain
  BY IInvHolds, PTL DEF IInv

\* Across crashes no vote is sent for a round below one already sent: only
\* SendVote extends sent, with the vote VoteInFlightIsCovered is about.
THEOREM NoVoteGoesBack == Spec => VotesNeverGoBack
  <1> DEFINE Step == \A v \in sent' \ sent, w \in sent :
                         w.proposal.round <= v.proposal.round
  <1>1. IInv /\ [Next]_vars => [Step]_vars
    <2> SUFFICES ASSUME IInv, Next,
                        NEW v \in sent' \ sent, NEW w \in sent
                 PROVE  w.proposal.round <= v.proposal.round
      OBVIOUS
    <2>1. v \in vote
      BY DEF Next, LoadSafetyRules, TryVote, PersistVote, PersistVoteFails,
             SendVote, SendVoteFails, SeeQc, SeeTc, SeeTimeout,
             PersistObserved, Crash
    <2> QED BY <2>1 DEF IInv, VoteInFlightIsCovered
  <1> QED BY <1>1, IInvHolds, PTL DEF Spec, VotesNeverGoBack

\* No write, successful or failed, lowers a round that the disk holds.
THEOREM DiskIsMonotone == Spec => DiskNeverRegresses
  <1> DEFINE Step == \A d \in disk : \E e \in disk' : RoundsAtLeast(e, d)
  <1>1. IInv /\ [Next]_vars => [Step]_vars
    <2> SUFFICES ASSUME IInv, Next, NEW d \in disk
                 PROVE  \E e \in disk' : RoundsAtLeast(e, d)
      OBVIOUS
    <2>1. disk' = disk \/ (disk' = rules /\ rules # {})
      BY DEF Next, LoadSafetyRules, TryVote, PersistVote, PersistVoteFails,
             SendVote, SendVoteFails, SeeQc, SeeTc, SeeTimeout,
             PersistObserved, Crash, IInv, TypeOK
    <2>2. d \in SafetyStateData
      BY DEF IInv, TypeOK, IsOption
    <2> QED
      BY <2>1, <2>2, RoundsAtLeastReflexive DEF IInv, MemoryCoversDisk
  <1> QED BY <1>1, IInvHolds, PTL DEF Spec, DiskNeverRegresses
=============================================================================
