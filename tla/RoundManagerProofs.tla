------------------------ MODULE RoundManagerProofs -------------------------
(***************************************************************************)
(* The invariants of RoundManager for every validator set, every voting    *)
(* power, every set of proposals and every set of votes the network may    *)
(* deliver, in any order and any number of times.                          *)
(***************************************************************************)
EXTENDS RoundManager, OperatorLemmas

\* Rounds offered to the manager are u64 values.
LEMMA RoundsAreU64 == 0..MaxRound \subseteq U64
  BY RoundManagerConstants, SafetyConstants DEF U64

\* What PendingVotes does to its record.
LEMMA PendingFacts ==
    ASSUME NEW pv \in [votes : SUBSET VoteMsgs, current_round : 0..MaxRound],
           NEW v \in VoteMsgs, NEW r \in 0..MaxRound
    PROVE  /\ Insert(pv, v) \in [votes : SUBSET VoteMsgs, current_round : 0..MaxRound]
           /\ Insert(pv, v).votes = pv.votes \cup {v}
           /\ Insert(pv, v).current_round = pv.current_round
           /\ RemoveRound(pv, r) \in [votes : SUBSET VoteMsgs, current_round : 0..MaxRound]
           /\ RemoveRound(pv, r).votes \subseteq pv.votes
           /\ RemoveRound(pv, r).current_round = pv.current_round
           /\ SetRound(pv, r) \in [votes : SUBSET VoteMsgs, current_round : 0..MaxRound]
           /\ SetRound(pv, r).votes = {w \in pv.votes : w.round >= Cutoff(r)}
           /\ SetRound(pv, r).current_round = r
  BY DEF Insert, RemoveRound, SetRound

\* A new manager satisfies the invariant.
LEMMA InitIInv == Init => IInv
  <1> SUFFICES ASSUME Init PROVE IInv
    OBVIOUS
  <1>1. safety \in SafetyStateData /\ safety.one_chain_round = 0
    BY SafetyConstants DEF Init, NewSafetyState, ManagerEpoch, SafetyStateData, U64
  <1>2. TypeOK
    BY <1>1, RoundManagerConstants, SafetyConstants
    DEF Init, TypeOK, IsOption, NewPendingVotes, U64
  <1> QED
    BY <1>1, <1>2
    DEF Init, IInv, PendingWereReceived, QcsHaveQuorum, OneChainIsHighestQc,
        StoredQcIsCovered, PendingFollowsRound, ProposalIsCurrent, NewPendingVotes

\* process_proposal stores a proposal of the current round only.
LEMMA ProposalKeepsIInv ==
    ASSUME NEW b \in Blocks
    PROVE  IInv /\ ProcessProposal(b) => IInv'
  BY DEF ProcessProposal, IInv, TypeOK, IsOption, PendingWereReceived,
         QcsHaveQuorum, OneChainIsHighestQc, StoredQcIsCovered,
         PendingFollowsRound, ProposalIsCurrent

\* try_vote_for_proposal raises last_voted_round only.
LEMMA TryVoteKeepsIInv ==
    ASSUME NEW b \in Blocks, NEW tc
    PROVE  IInv /\ TryVoteForProposal(b, tc) => IInv'
  <1> SUFFICES ASSUME IInv, TryVoteForProposal(b, tc) PROVE IInv'
    OBVIOUS
  <1>1. safety \in SafetyStateData /\ b.round \in U64
    BY RoundManagerConstants, RoundsAreU64 DEF IInv, TypeOK
  <1>2. /\ safety' \in SafetyStateData
        /\ safety'.one_chain_round = safety.one_chain_round
    BY <1>1, RecordVoteFacts DEF TryVoteForProposal, RecordVote, SafetyStateData
  <1>3. UNCHANGED <<round, proposed, qc, pending, formed, received, failed>>
    BY DEF TryVoteForProposal
  <1> QED
    BY <1>2, <1>3
    DEF IInv, TypeOK, IsOption, PendingWereReceived, QcsHaveQuorum,
        OneChainIsHighestQc, StoredQcIsCovered, PendingFollowsRound,
        ProposalIsCurrent

\* process_vote that stores the vote and stops there, because there is no
\* quorum or because the certificate could not be built.
LEMMA AcceptKeepsIInv ==
    ASSUME NEW v \in VoteMsgs
    PROVE  IInv /\ (AcceptVote(v) \/ FormQuorumCertificateFails(v)) => IInv'
  <1> SUFFICES ASSUME IInv, AcceptVote(v) \/ FormQuorumCertificateFails(v)
               PROVE  IInv'
    OBVIOUS
  <1>1. /\ v.epoch = ManagerEpoch /\ v.round >= pending.current_round
        /\ received' = received \cup {v}
        /\ pending' = Insert(pending, v)
        /\ failed' \in {failed, failed \cup {Key(v)}}
        /\ UNCHANGED <<round, proposed, qc, safety, formed>>
    BY DEF AcceptVote, FormQuorumCertificateFails, StoreVote, AddVoteOk
  <1>2. /\ pending' \in [votes : SUBSET VoteMsgs, current_round : 0..MaxRound]
        /\ pending'.votes = pending.votes \cup {v}
        /\ pending'.current_round = pending.current_round
    BY <1>1, PendingFacts DEF IInv, TypeOK
  <1>3. TypeOK'
    BY <1>1, <1>2 DEF IInv, TypeOK, IsOption, Keys
  <1>4. PendingWereReceived'
    BY <1>1, <1>2 DEF IInv, PendingWereReceived
  <1>5. QcsHaveQuorum'
    BY <1>1 DEF IInv, QcsHaveQuorum
  <1>6. PendingFollowsRound'
    <2>1. round - v.round <= MaxBufferedRounds
      BY <1>1, RoundManagerConstants, PendingVotesConstants, SafetyConstants
      DEF IInv, TypeOK, PendingFollowsRound, U64
    <2> QED BY <1>1, <1>2, <2>1 DEF IInv, PendingFollowsRound
  <1>7. OneChainIsHighestQc' /\ StoredQcIsCovered' /\ ProposalIsCurrent'
    BY <1>1
    DEF IInv, OneChainIsHighestQc, StoredQcIsCovered, ProposalIsCurrent
  <1> QED BY <1>3, <1>4, <1>5, <1>6, <1>7 DEF IInv

\* form_quorum_certificate_for_block: the certificate rests on the authors
\* of the votes pending for its block, and observe_qc counts its round.
LEMMA FormKeepsIInv ==
    ASSUME NEW v \in VoteMsgs
    PROVE  IInv /\ FormQuorumCertificate(v) => IInv'
  <1> SUFFICES ASSUME IInv, FormQuorumCertificate(v) PROVE IInv'
    OBVIOUS
  <1>1. /\ v.epoch = ManagerEpoch /\ v.round >= pending.current_round
        /\ received' = received \cup {v}
        /\ CheckQuorum(Insert(pending, v), v.round, v.block)
        /\ safety' = ObserveQc(safety, v.round)
        /\ qc' = {Key(v)} /\ formed' = formed \cup {Key(v)}
        /\ pending' = RemoveRound(Insert(pending, v), v.round)
        /\ UNCHANGED <<round, proposed, failed>>
    BY DEF FormQuorumCertificate, StoreVote, AddVoteOk
  <1>2. v.round \in 0..MaxRound /\ v.round \in U64
    BY RoundManagerConstants, RoundsAreU64
  <1>3. /\ Insert(pending, v) \in [votes : SUBSET VoteMsgs, current_round : 0..MaxRound]
        /\ Insert(pending, v).votes = pending.votes \cup {v}
        /\ Insert(pending, v).current_round = pending.current_round
    BY <1>2, PendingFacts DEF IInv, TypeOK
  <1>4. /\ pending' \in [votes : SUBSET VoteMsgs, current_round : 0..MaxRound]
        /\ pending'.votes \subseteq pending.votes \cup {v}
        /\ pending'.current_round = pending.current_round
    BY <1>1, <1>2, <1>3, PendingFacts
  <1>5. /\ safety' \in SafetyStateData
        /\ safety'.one_chain_round = Larger(safety.one_chain_round, v.round)
    <2>1. safety \in SafetyStateData
      BY DEF IInv, TypeOK
    <2> QED
      BY <1>1, <1>2, <2>1, ObserveQcFacts
      DEF ObserveQc, UpdateOneChainRound, UpdatePreferredRound, SafetyStateData
  <1>6. Key(v) \in Keys /\ Key(v).round = v.round /\ Key(v).block = v.block
    BY DEF Key, Keys
  <1>7. TypeOK'
    BY <1>1, <1>4, <1>5, <1>6 DEF IInv, TypeOK, IsOption
  <1>8. PendingWereReceived'
    BY <1>1, <1>4 DEF IInv, PendingWereReceived
  <1>9. QcsHaveQuorum'
    <2> SUFFICES ASSUME NEW k \in formed'
                 PROVE  \E S \in SUBSET {w.author : w \in {u \in received' :
                                              Key(u) = k /\ u.epoch = ManagerEpoch}} :
                            CheckVotingPower(S)
      BY DEF QcsHaveQuorum
    <2>1. CASE k \in formed
      BY <1>1, <2>1 DEF IInv, QcsHaveQuorum
    <2>2. CASE k = Key(v)
      <3> DEFINE G == GetVotes(Insert(pending, v), v.round, v.block)
      <3>1. CheckVotingPower(Signers(G))
        BY <1>1 DEF CheckQuorum
      <3>2. \A u \in G : u \in received' /\ Key(u) = k /\ u.epoch = ManagerEpoch
        BY <1>1, <1>3, <2>2 DEF GetVotes, Key, IInv, PendingWereReceived
      <3> HIDE DEF G
      <3>3. Signers(G) \subseteq {w.author : w \in {u \in received' :
                                      Key(u) = k /\ u.epoch = ManagerEpoch}}
        BY <3>2 DEF Signers
      <3> QED BY <3>1, <3>3
    <2> QED BY <1>1, <2>1, <2>2
  <1>10. OneChainIsHighestQc' /\ StoredQcIsCovered'
    <2>1. safety.one_chain_round \in Nat /\ v.round \in Nat
      BY <1>2, SafetyConstants DEF IInv, TypeOK, SafetyStateData, U64
    <2>2. \A k \in formed : k.round \in Nat
      BY RoundManagerConstants, SafetyConstants DEF IInv, TypeOK, Keys, Key, U64
    <2> QED
      BY <1>1, <1>5, <1>6, <2>1, <2>2
      DEF IInv, OneChainIsHighestQc, StoredQcIsCovered, Larger
  <1>11. PendingFollowsRound'
    <2>1. round - v.round <= MaxBufferedRounds
      BY <1>1, RoundManagerConstants, PendingVotesConstants, SafetyConstants
      DEF IInv, TypeOK, PendingFollowsRound, U64
    <2> QED BY <1>1, <1>4, <2>1 DEF IInv, PendingFollowsRound
  <1>12. ProposalIsCurrent'
    BY <1>1 DEF IInv, ProposalIsCurrent
  <1> QED BY <1>7, <1>8, <1>9, <1>10, <1>11, <1>12 DEF IInv

\* A change of round, by process_timeout or start_round, moves RoundState and
\* PendingVotes together.
LEMMA RoundChangeKeepsIInv ==
    ASSUME NEW r \in 0..MaxRound, IInv,
           round' = r, proposed' = {}, pending' = SetRound(pending, r),
           UNCHANGED <<qc, formed, received, failed>>,
           safety' \in SafetyStateData,
           safety'.one_chain_round = safety.one_chain_round
    PROVE  IInv'
  <1>1. /\ pending' \in [votes : SUBSET VoteMsgs, current_round : 0..MaxRound]
        /\ pending'.votes = {w \in pending.votes : w.round >= Cutoff(r)}
        /\ pending'.current_round = r
    BY DEF SetRound, IInv, TypeOK
  <1>2. \A w \in pending.votes : w.round >= Cutoff(r) => r - w.round <= MaxBufferedRounds
    BY RoundManagerConstants, PendingVotesConstants, SafetyConstants
    DEF IInv, TypeOK, Cutoff, U64
  <1> QED
    BY <1>1, <1>2
    DEF IInv, TypeOK, IsOption, PendingWereReceived, QcsHaveQuorum,
        OneChainIsHighestQc, StoredQcIsCovered, PendingFollowsRound,
        ProposalIsCurrent

\* process_timeout records the timeout and goes on to the next round.
LEMMA TimeoutKeepsIInv == IInv /\ ProcessTimeout => IInv'
  <1> SUFFICES ASSUME IInv, ProcessTimeout PROVE IInv'
    OBVIOUS
  <1>1. /\ round \in Nat /\ round < MaxRound
        /\ safety \in SafetyStateData /\ safety.one_chain_round \in Nat
    BY RoundManagerConstants, SafetyConstants
    DEF ProcessTimeout, IInv, TypeOK, SafetyStateData, U64
  <1>2. round \in U64
    BY <1>1, RoundManagerConstants, SafetyConstants DEF U64
  <1>3. /\ safety' \in SafetyStateData
        /\ safety'.one_chain_round = safety.one_chain_round
    BY <1>1, <1>2, RecordTimeoutFacts, UpdateFacts DEF ProcessTimeout, RecordTimeout
  <1>4. round + 1 \in 0..MaxRound
    BY <1>1, RoundManagerConstants, SafetyConstants DEF U64
  <1> QED BY <1>3, <1>4, RoundChangeKeepsIInv DEF ProcessTimeout

\* start_round, forwards or backwards.
LEMMA StartRoundKeepsIInv ==
    ASSUME NEW r \in 0..MaxRound
    PROVE  IInv /\ StartRound(r) => IInv'
  <1> SUFFICES ASSUME IInv, StartRound(r) PROVE IInv'
    OBVIOUS
  <1>1. safety' \in SafetyStateData
    BY DEF IInv, TypeOK, StartRound
  <1> QED BY <1>1, RoundChangeKeepsIInv DEF StartRound

\* IInv is an invariant of the round manager.
THEOREM IInvHolds == Spec => []IInv
  <1>1. IInv /\ [Next]_vars => IInv'
    <2> SUFFICES ASSUME IInv, [Next]_vars PROVE IInv'
      OBVIOUS
    <2>1. CASE \E b \in Blocks : ProcessProposal(b)
      BY <2>1, ProposalKeepsIInv
    <2>2. CASE \E b \in Blocks, tc \in Option(TimeoutCerts) : TryVoteForProposal(b, tc)
      BY <2>2, TryVoteKeepsIInv
    <2>3. CASE \E v \in VoteMsgs : AcceptVote(v) \/ FormQuorumCertificateFails(v)
      BY <2>3, AcceptKeepsIInv
    <2>4. CASE \E v \in VoteMsgs : FormQuorumCertificate(v)
      BY <2>4, FormKeepsIInv
    <2>5. CASE ProcessTimeout
      BY <2>5, TimeoutKeepsIInv
    <2>6. CASE \E r \in 0..MaxRound : StartRound(r)
      BY <2>6, StartRoundKeepsIInv
    <2>7. CASE UNCHANGED vars
      BY <2>7
      DEF vars, IInv, TypeOK, IsOption, PendingWereReceived, QcsHaveQuorum,
          OneChainIsHighestQc, StoredQcIsCovered, PendingFollowsRound,
          ProposalIsCurrent
    <2> QED BY <2>1, <2>2, <2>3, <2>4, <2>5, <2>6, <2>7 DEF Next
  <1> QED BY InitIInv, <1>1, PTL DEF Spec

\* Every certificate rests on a quorum of voting power of distinct authors.
THEOREM CertificatesHaveQuorum == Spec => []QcsHaveQuorum
  BY IInvHolds, PTL DEF IInv

\* one_chain_round is the highest round certified by this manager.
THEOREM OneChainTracksQcs == Spec => []OneChainIsHighestQc
  BY IInvHolds, PTL DEF IInv

-----------------------------------------------------------------------------
(***************************************************************************)
(* No completed quorum is left behind.                                     *)
(***************************************************************************)
\* check_quorum: more votes for a block are still a quorum.
LEMMA MoreVotesKeepQuorum ==
    ASSUME NEW pv, NEW pw, NEW r, NEW b,
           GetVotes(pv, r, b) \subseteq GetVotes(pw, r, b), CheckQuorum(pv, r, b)
    PROVE  CheckQuorum(pw, r, b)
  <1>1. Signers(GetVotes(pv, r, b)) \subseteq Signers(GetVotes(pw, r, b))
    BY DEF Signers
  <1>2. CheckVotingPower(Signers(GetVotes(pv, r, b)))
    BY DEF CheckQuorum
  <1>3. CheckVotingPower(Signers(GetVotes(pw, r, b)))
    BY <1>1, <1>2, QuorumGrows
  <1> QED
    BY <1>3 DEF CheckQuorum

\* add_vote changes nothing for another block or round, a certificate empties
\* its round, and set_round only drops votes.
LEMMA NextLeavesNoQuorum ==
    IInv /\ NoQuorumLeftPending /\ [Next]_vars => NoQuorumLeftPending'
  <1> SUFFICES ASSUME IInv, NoQuorumLeftPending, [Next]_vars,
                      NEW k \in Keys, CheckQuorum(pending', k.round, k.block)
               PROVE  k \in failed'
    BY DEF NoQuorumLeftPending
  <1>0. pending \in [votes : SUBSET VoteMsgs, current_round : 0..MaxRound]
    BY DEF IInv, TypeOK
  <1>1. CASE GetVotes(pending', k.round, k.block) \subseteq GetVotes(pending, k.round, k.block)
    <2>1. CheckQuorum(pending, k.round, k.block)
      BY <1>1, MoreVotesKeepQuorum
    <2>2. k \in failed
      BY <2>1 DEF NoQuorumLeftPending
    <2>3. failed \subseteq failed'
      BY DEF Next, vars, ProcessProposal, TryVoteForProposal, AcceptVote,
             FormQuorumCertificate, FormQuorumCertificateFails, ProcessTimeout, StartRound
    <2> QED
      BY <2>2, <2>3
  <1>2. ASSUME NEW v \in VoteMsgs, pending' = Insert(pending, v), Key(v) # k
        PROVE  GetVotes(pending', k.round, k.block) \subseteq GetVotes(pending, k.round, k.block)
    <2>1. PICK w \in VoteMsgs : k = [round |-> w.round, block |-> w.block]
      BY DEF Keys, Key
    <2>2. v.round # k.round \/ v.block # k.block
      BY <1>2, <2>1 DEF Key
    <2>3. pending'.votes = pending.votes \cup {v}
      BY <1>0, <1>2 DEF Insert
    <2> QED
      BY <2>2, <2>3 DEF GetVotes
  <1>3. ASSUME NEW v \in VoteMsgs, AcceptVote(v) PROVE k \in failed'
    <2>1. pending' = Insert(pending, v) /\ ~CheckQuorum(pending', v.round, v.block)
      BY <1>3 DEF AcceptVote
    <2>2. Key(v) # k
      BY <2>1 DEF Key
    <2> QED
      BY <1>1, <1>2, <2>1, <2>2
  <1>4. ASSUME NEW v \in VoteMsgs, FormQuorumCertificateFails(v) PROVE k \in failed'
    <2>1. pending' = Insert(pending, v) /\ Key(v) \in failed'
      BY <1>4 DEF FormQuorumCertificateFails
    <2> QED
      BY <1>1, <1>2, <2>1
  <1>5. ASSUME NEW v \in VoteMsgs, FormQuorumCertificate(v) PROVE k \in failed'
    <2>1. pending' = RemoveRound(Insert(pending, v), v.round)
      BY <1>5 DEF FormQuorumCertificate
    <2>2. pending'.votes = {w \in pending.votes \cup {v} : w.round # v.round}
      BY <1>0, <2>1 DEF RemoveRound, Insert
    <2>3. GetVotes(pending', k.round, k.block) \subseteq GetVotes(pending, k.round, k.block)
      BY <2>2 DEF GetVotes
    <2> QED
      BY <1>1, <2>3
  <1>6. ASSUME NEW r, pending' = SetRound(pending, r) PROVE k \in failed'
    BY <1>1, <1>6 DEF SetRound, GetVotes
  <1>7. ASSUME UNCHANGED pending PROVE k \in failed'
    BY <1>1, <1>7
  <1> QED
    BY <1>3, <1>4, <1>5, <1>6, <1>7
    DEF Next, vars, ProcessProposal, TryVoteForProposal, ProcessTimeout, StartRound

\* process_vote leaves no completed quorum among the pending votes unless
\* aggregate() or from_votes() failed for it.
THEOREM QuorumsAreUsed == Spec => []NoQuorumLeftPending
  <1>1. Init => NoQuorumLeftPending
    <2> SUFFICES ASSUME Init, NEW k \in Keys, CheckQuorum(pending, k.round, k.block)
                 PROVE  FALSE
      BY DEF NoQuorumLeftPending
    <2>1. Signers(GetVotes(pending, k.round, k.block)) = {}
      BY DEF Init, NewPendingVotes, GetVotes, Signers
    <2> QED
      BY <2>1, NoQuorumOfNone DEF CheckQuorum
  <1> QED
    BY <1>1, NextLeavesNoQuorum, IInvHolds, PTL DEF Spec
=============================================================================
