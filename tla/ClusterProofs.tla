--------------------------- MODULE ClusterProofs ---------------------------
(***************************************************************************)
(* A cluster of honest validators, for any validators and voting powers:   *)
(* the inductive invariant of Cluster, and the refinement of               *)
(* CertifiedChain.                                                         *)
(***************************************************************************)
EXTENDS Cluster, OperatorLemmas

-----------------------------------------------------------------------------
(***************************************************************************)
(* The inductive invariant.                                                *)
(***************************************************************************)

\* The facts about the constants that the steps below use.
LEMMA RoundFacts ==
    /\ MaxRound \in Nat /\ MaxU64 \in Nat /\ 1 <= MaxRound /\ MaxRound < MaxU64
    /\ Blocks \subseteq U64 /\ U64 \subseteq Nat /\ Genesis \in Blocks /\ 1 \in Blocks \ {Genesis}
  BY ClusterConstants, SafetyConstants DEF Blocks, U64, Genesis

\* There are finitely many blocks: one for each round up to the bound.
LEMMA BlocksAreFinite ==
    ASSUME NEW S \in SUBSET Blocks
    PROVE  IsFiniteSet(S)
  <1>1. 0 \in Int /\ MaxRound \in Int
    BY RoundFacts
  <1>2. IsFiniteSet(0..MaxRound)
    BY <1>1, FS_Interval
  <1> QED
    BY <1>2, FS_Subset DEF Blocks

\* What TcsAllowAdvance says of one certificate.
Justified(tc) ==
    /\ AllowsAdvance(tc)
    /\ EffectiveHqcRound(tc) = tc.round - 1
    /\ ~TcVerifyOk(OverTheWire(tc))

\* A step of one validator v, whose node becomes n, keeps the invariant when
\* v forgets no vote and everything new (in n, or sent) is justified by what
\* is certified.
LEMMA NodeStepKeepsIInv ==
    ASSUME IInv, TypeOK', NEW v \in Validators, NEW n,
           node' = [node EXCEPT ![v] = n],
           n.rules.last_voted_round >= node[v].rules.last_voted_round,
           n.rules.one_chain_round \in certified',
           n.state.quorum_cert \subseteq certified',
           \A t, u \in n.tc : t = u,
           \A tc \in n.tc : Justified(tc),
           certified \subseteq certified',
           \A b \in certified' \ certified :
              CheckVotingPower({u \in Validators : node'[u].rules.last_voted_round >= b}),
           \A w \in votes' \ votes : node'[w.author].rules.last_voted_round >= w.round,
           \A m \in timeouts' \ timeouts :
              /\ m.timeout.hqc_round \in certified'
              /\ m.timeout.round \in {m.timeout.hqc_round + 1, m.tc_round + 1}
    PROVE  IInv'
  <1>1. \A u \in Validators : node'[u] = IF u = v THEN n ELSE node[u]
    BY DEF IInv, TypeOK
  <1>2. \A u \in Validators : /\ node[u].rules.last_voted_round \in Nat
                              /\ node'[u].rules.last_voted_round \in Nat
    <2>1. \A u \in Validators : node[u].rules \in SafetyStateData
      BY DEF IInv, TypeOK, Nodes
    <2>2. \A u \in Validators : node'[u].rules \in SafetyStateData
      BY DEF TypeOK, Nodes
    <2> QED
      BY <2>1, <2>2, RoundFacts DEF SafetyStateData
  <1>3. \A u \in Validators :
           node'[u].rules.last_voted_round >= node[u].rules.last_voted_round
    BY <1>1, <1>2
  <1>4. VotesAreRemembered'
    <2>1. ASSUME NEW w \in votes PROVE node'[w.author].rules.last_voted_round >= w.round
      <3>1. w.author \in Validators /\ w.round \in Nat
        <4>1. PICK u \in Validators, b \in Blocks : w = VoteFor(u, b)
          BY DEF IInv, TypeOK
        <4> QED
          BY <4>1, RoundFacts DEF VoteFor
      <3>2. node[w.author].rules.last_voted_round >= w.round
        BY DEF IInv, VotesAreRemembered
      <3> QED
        BY <1>2, <1>3, <3>1, <3>2
    <2> QED
      BY <2>1 DEF VotesAreRemembered
  <1>5. CertificatesAreKnown'
    BY <1>1 DEF IInv, CertificatesAreKnown
  <1>6. QuorumsRemember'
    <2> SUFFICES ASSUME NEW b \in certified' \ {Genesis}
                 PROVE  CheckVotingPower({u \in Validators : node'[u].rules.last_voted_round >= b})
      BY DEF QuorumsRemember
    <2>1. CASE b \in certified
      <3>1. CheckVotingPower({u \in Validators : node[u].rules.last_voted_round >= b})
        BY <2>1 DEF IInv, QuorumsRemember
      <3>2. b \in Nat
        BY RoundFacts DEF TypeOK
      <3>3. {u \in Validators : node[u].rules.last_voted_round >= b}
              \subseteq {u \in Validators : node'[u].rules.last_voted_round >= b}
        BY <1>2, <1>3, <3>2
      <3> QED
        BY <3>1, <3>3, QuorumGrows
    <2>2. CASE b \notin certified
      BY <2>2
    <2> QED
      BY <2>1, <2>2
  <1>7. OneChainIsCertified'
    BY <1>1 DEF IInv, OneChainIsCertified
  <1>8. TcsAllowAdvance'
    BY <1>1 DEF IInv, TcsAllowAdvance, Justified
  <1> QED
    BY <1>4, <1>5, <1>6, <1>7, <1>8 DEF IInv

\* The types of RoundState here.
RoundStates ==
    [epoch : {0}, round : Blocks, proposed_block : SUBSET Blocks, quorum_cert : SUBSET Blocks]

\* start_round changes the round, drops votes, and leaves the certificate and
\* the safety rules alone.
LEMMA EnterFacts ==
    ASSUME NEW r \in Blocks \ {Genesis},
           NEW n \in [state : RoundStates, rules : SafetyStateData, tc : SUBSET Certificates,
                      pending : [votes : SUBSET votes, current_round : Blocks]]
    PROVE  /\ Enter(n, r) \in Nodes
           /\ Enter(n, r).rules = n.rules
           /\ Enter(n, r).tc = n.tc
           /\ Enter(n, r).state.quorum_cert = n.state.quorum_cert
  <1>1. /\ RS!SetRound(n.state, r).quorum_cert = n.state.quorum_cert
        /\ RS!SetRound(n.state, r) \in [epoch : {0}, round : Blocks \ {Genesis},
                                        proposed_block : SUBSET Blocks, quorum_cert : SUBSET Blocks]
    BY DEF RS!SetRound, RoundStates
  <1>2. SetRound(n.pending, r) \in [votes : SUBSET votes, current_round : Blocks]
    BY DEF SetRound
  <1> QED
    BY <1>1, <1>2 DEF Nodes, Enter

\* RoundManager::new and start_round(1).
LEMMA InitIInv == Init => IInv
  <1> SUFFICES ASSUME Init PROVE IInv
    OBVIOUS
  <1> DEFINE first == Enter([state |-> RS!NewRoundState(0), pending |-> NewPendingVotes,
                             rules |-> NewSafetyState(0), tc |-> {}], 1)
  <1>1. /\ NewSafetyState(0) \in SafetyStateData
        /\ NewSafetyState(0).last_voted_round = 0
        /\ NewSafetyState(0).one_chain_round = 0
    <2>1. 0 \in U64
      BY RoundFacts DEF Genesis
    <2> QED
      BY <2>1, NewSafetyStateFacts
  <1>2. /\ first \in Nodes
        /\ first.rules = NewSafetyState(0) /\ first.tc = {} /\ first.state.quorum_cert = {}
    <2> DEFINE new == [state |-> RS!NewRoundState(0), pending |-> NewPendingVotes,
                       rules |-> NewSafetyState(0), tc |-> {}]
    <2>1. /\ RS!NewRoundState(0) \in RoundStates /\ RS!NewRoundState(0).quorum_cert = {}
          /\ NewPendingVotes \in [votes : SUBSET votes, current_round : Blocks]
      BY RoundFacts DEF RoundStates, RS!NewRoundState, NewPendingVotes, Genesis
    <2>2. /\ new \in [state : RoundStates, rules : SafetyStateData, tc : SUBSET Certificates,
                      pending : [votes : SUBSET votes, current_round : Blocks]]
          /\ new.state.quorum_cert = {} /\ new.rules = NewSafetyState(0) /\ new.tc = {}
      BY <1>1, <2>1
    <2> HIDE DEF new
    <2>3. 1 \in Blocks \ {Genesis}
      BY RoundFacts
    <2> QED
      BY <2>2, <2>3, EnterFacts DEF new
  <1>4. /\ node = [v \in Validators |-> first] /\ parent = <<>> /\ votes = {} /\ timeouts = {}
        /\ certified = {Genesis} /\ committed = [v \in Validators |-> {}]
    BY DEF Init
  <1>5. first.rules.one_chain_round = Genesis /\ first.tc = {} /\ first.state.quorum_cert = {}
    BY <1>1, <1>2 DEF Genesis
  <1> HIDE DEF first
  <1>6. TypeOK
    BY <1>2, <1>4, RoundFacts DEF TypeOK
  <1> QED
    BY <1>4, <1>5, <1>6
    DEF IInv, VotesAreRemembered, CertificatesAreKnown, QuorumsRemember,
        OneChainIsCertified, TcsAllowAdvance

\* The facts of the invariant about one validator.
LEMMA NodeFacts ==
    ASSUME IInv, NEW v \in Validators
    PROVE  /\ node[v] \in Nodes
           /\ node[v].rules \in SafetyStateData
           /\ node[v].rules.last_voted_round >= node[v].rules.last_voted_round
           /\ node[v].rules.one_chain_round \in certified
           /\ node[v].state.quorum_cert \subseteq certified
           /\ \A t, u \in node[v].tc : t = u
           /\ \A tc \in node[v].tc : Justified(tc)
  <1>1. node[v] \in Nodes
    BY DEF IInv, TypeOK
  <1>2. node[v].rules \in SafetyStateData
    BY <1>1 DEF Nodes
  <1>3. node[v].rules.last_voted_round >= node[v].rules.last_voted_round
    <2>1. node[v].rules.last_voted_round \in Nat
      BY <1>2, RoundFacts DEF SafetyStateData
    <2> QED
      BY <2>1
  <1> QED
    BY <1>1, <1>2, <1>3
    DEF IInv, CertificatesAreKnown, OneChainIsCertified, TcsAllowAdvance, Justified

\* What generate_proposal builds on is certified.
LEMMA ParentQcIsCertified ==
    ASSUME IInv, NEW v \in Validators, NEW p \in ParentQc(node[v])
    PROVE  p \in certified /\ p \in Blocks
  BY NodeFacts DEF ParentQc, IInv, TypeOK

\* generate_proposal changes no validator.
LEMMA ProposeKeepsIInv ==
    ASSUME IInv, NEW v \in Validators, Propose(v)
    PROVE  IInv'
  <1> DEFINE round == node[v].state.round
  <1>1. PICK p \in ParentQc(node[v]) :
            parent' = [b \in DOMAIN parent \cup {round} |-> IF b = round THEN p ELSE parent[b]]
    BY DEF Propose
  <1>2. UNCHANGED <<node, votes, timeouts, certified, committed>>
    BY DEF Propose
  <1>3. p \in Blocks
    BY ParentQcIsCertified
  <1>4. round \in Blocks \ {Genesis}
    BY NodeFacts DEF Nodes
  <1>5. DOMAIN parent' = DOMAIN parent \cup {round} /\ \A b \in DOMAIN parent' : parent'[b] \in Blocks
    BY <1>1, <1>3 DEF IInv, TypeOK
  <1> HIDE DEF round
  <1>6. TypeOK'
    BY <1>2, <1>4, <1>5 DEF IInv, TypeOK, Nodes
  <1>7. node' = [node EXCEPT ![v] = node[v]]
    BY <1>2 DEF IInv, TypeOK
  <1> QED
    BY <1>2, <1>6, <1>7, NodeFacts, NodeStepKeepsIInv

\* try_vote_for_proposal: the vote is remembered before it is sent.
LEMMA HandleProposalKeepsIInv ==
    ASSUME IInv, NEW v \in Validators, NEW b \in DOMAIN parent, HandleProposal(v, b)
    PROVE  IInv'
  <1> DEFINE n == [node[v] EXCEPT !.state = RS!SetProposedBlock(@, b), !.rules = RecordVote(@, b)]
  <1>1. UNCHANGED <<parent, timeouts, certified>> /\ votes' = votes \cup {VoteFor(v, b)}
    BY DEF HandleProposal
  <1>2. b \in U64 /\ b \in Nat /\ b \in Blocks /\ parent[b] \in Blocks
    <2>1. b \in Blocks /\ parent[b] \in Blocks
      BY DEF IInv, TypeOK
    <2> QED
      BY <2>1, RoundFacts
  <1>3. node[v] \in Nodes /\ node[v].rules \in SafetyStateData
    BY NodeFacts
  <1>4. node' = [node EXCEPT ![v] = n]
    BY DEF HandleProposal, IInv, TypeOK
  <1>5. /\ RecordVote(node[v].rules, b) \in SafetyStateData
        /\ RecordVote(node[v].rules, b).last_voted_round >= node[v].rules.last_voted_round
        /\ RecordVote(node[v].rules, b).last_voted_round >= b
        /\ RecordVote(node[v].rules, b).one_chain_round = node[v].rules.one_chain_round
    BY <1>2, <1>3, RecordVoteFacts DEF RoundsAtLeast
  <1>6. /\ n.rules = RecordVote(node[v].rules, b)
        /\ n.tc = node[v].tc
        /\ n.state.quorum_cert = node[v].state.quorum_cert
    BY <1>3 DEF Nodes, RS!SetProposedBlock
  <1>7. n \in Nodes
    <2>1. RS!SetProposedBlock(node[v].state, b) \in
             [epoch : {0}, round : Blocks \ {Genesis},
              proposed_block : SUBSET Blocks, quorum_cert : SUBSET Blocks]
      BY <1>2, <1>3 DEF Nodes, RS!SetProposedBlock
    <2> QED
      BY <1>3, <1>5, <2>1 DEF Nodes
  <1>8. committed' \in [Validators -> SUBSET Blocks]
    <2>1. ShouldCommit(node[v].rules, b, parent[b]) \subseteq Blocks
      BY <1>2 DEF ShouldCommit
    <2> QED
      BY <2>1 DEF HandleProposal, IInv, TypeOK
  <1> HIDE DEF n
  <1>9. TypeOK'
    <2>1. Nodes \subseteq Nodes'
      BY <1>1 DEF Nodes
    <2>2. node' \in [Validators -> Nodes']
      BY <1>4, <1>7, <2>1 DEF IInv, TypeOK
    <2> QED
      BY <1>1, <1>8, <2>2 DEF IInv, TypeOK
  <1>10. node'[v] = n
    BY <1>4 DEF IInv, TypeOK
  <1>11. \A w \in votes' \ votes : node'[w.author].rules.last_voted_round >= w.round
    BY <1>1, <1>5, <1>6, <1>10 DEF VoteFor
  <1>12. n.rules.last_voted_round >= node[v].rules.last_voted_round
    BY <1>5, <1>6
  <1>13. n.rules.one_chain_round \in certified' /\ n.state.quorum_cert \subseteq certified'
    BY <1>1, <1>5, <1>6, NodeFacts
  <1>14. /\ \A t, u \in n.tc : t = u
         /\ \A tc \in n.tc : Justified(tc)
    BY <1>6, NodeFacts, Zenon
  <1> QED
    BY <1>1, <1>4, <1>9, <1>11, <1>12, <1>13, <1>14, NodeStepKeepsIInv

\* start_round of the round after a certificate.
LEMMA StartNextRoundKeepsIInv ==
    ASSUME IInv, NEW v \in Validators, StartNextRound(v)
    PROVE  IInv'
  <1>1. PICK q \in node[v].state.quorum_cert :
            /\ q + 1 > node[v].state.round
            /\ q + 1 <= MaxRound
            /\ node' = [node EXCEPT ![v] = Enter(node[v], q + 1)]
    BY DEF StartNextRound
  <1>2. UNCHANGED <<parent, votes, timeouts, certified, committed>>
    BY DEF StartNextRound
  <1>3. node[v] \in Nodes
    BY NodeFacts
  <1>4. q + 1 \in Blocks \ {Genesis}
    <2>1. q \in Blocks
      BY <1>3 DEF Nodes
    <2> QED
      BY <1>1, <2>1, RoundFacts DEF Blocks, Genesis
  <1> DEFINE n == Enter(node[v], q + 1)
  <1>5. /\ n \in Nodes /\ n.rules = node[v].rules /\ n.tc = node[v].tc
        /\ n.state.quorum_cert = node[v].state.quorum_cert
    BY <1>3, <1>4, EnterFacts DEF Nodes, RoundStates
  <1> HIDE DEF n
  <1>6. TypeOK'
    BY <1>1, <1>2, <1>5 DEF IInv, TypeOK, Nodes, n
  <1>7. /\ n.rules.last_voted_round >= node[v].rules.last_voted_round
        /\ n.rules.one_chain_round \in certified'
        /\ n.state.quorum_cert \subseteq certified'
    BY <1>2, <1>5, NodeFacts
  <1>8. /\ \A t, u \in n.tc : t = u
        /\ \A tc \in n.tc : Justified(tc)
    BY <1>5, NodeFacts, Zenon
  <1>9. node' = [node EXCEPT ![v] = n]
    BY <1>1 DEF n
  <1> QED
    BY <1>2, <1>6, <1>7, <1>8, <1>9, NodeStepKeepsIInv

\* process_vote: the votes behind a certificate were all sent, and their
\* authors remember them.
LEMMA QuorumWasSent ==
    ASSUME IInv, NEW v \in Validators, NEW w \in votes,
           CheckQuorum(Insert(node[v].pending, w), w.round, w.block)
    PROVE  CheckVotingPower({u \in Validators : node[u].rules.last_voted_round >= w.block})
  <1> DEFINE counted == GetVotes(Insert(node[v].pending, w), w.round, w.block)
  <1>1. counted \subseteq votes /\ \A x \in counted : x.round = w.round
    <2>1. Insert(node[v].pending, w).votes = node[v].pending.votes \cup {w}
      BY NodeFacts DEF Nodes, Insert
    <2>2. node[v].pending.votes \subseteq votes
      BY NodeFacts DEF Nodes
    <2> QED
      BY <2>1, <2>2 DEF GetVotes
  <1>2. w.round = w.block
    BY DEF IInv, TypeOK, VoteFor
  <1>3. Signers(counted) \subseteq {u \in Validators : node[u].rules.last_voted_round >= w.block}
    BY <1>1, <1>2 DEF Signers, IInv, VotesAreRemembered
  <1>4. CheckVotingPower(Signers(counted))
    BY DEF CheckQuorum
  <1> HIDE DEF counted
  <1> QED
    BY <1>3, <1>4, QuorumGrows

\* process_vote, with a quorum or without: a new certificate is backed by the
\* votes counted for it, and one_chain_round follows it.
LEMMA ReceiveVoteKeepsIInv ==
    ASSUME IInv, NEW v \in Validators, NEW w \in votes, ReceiveVote(v, w)
    PROVE  IInv'
  <1> DEFINE pv == Insert(node[v].pending, w)
             quorum == CheckQuorum(pv, w.round, w.block)
             n == node'[v]
  <1>1. UNCHANGED <<parent, votes, timeouts, committed>>
    BY DEF ReceiveVote
  <1>2. w.round = w.block /\ w.block \in DOMAIN parent /\ w.block \in Blocks /\ w.block \in U64
    <2>1. w.round = w.block /\ w.block \in DOMAIN parent
      BY DEF IInv, TypeOK, VoteFor
    <2>2. w.block \in Blocks
      BY <2>1 DEF IInv, TypeOK
    <2> QED
      BY <2>1, <2>2, RoundFacts
  <1>3. node[v] \in Nodes /\ node[v].rules \in SafetyStateData
    BY NodeFacts
  <1>4. node' = [node EXCEPT ![v] = n]
    BY DEF ReceiveVote, IInv, TypeOK
  <1>5. pv \in [votes : SUBSET votes, current_round : Blocks]
    BY <1>3 DEF Nodes, Insert
  <1>6. CASE quorum
    <2>1. /\ n = [node[v] EXCEPT !.rules = ObserveQc(@, w.round),
                                 !.state = RS!SetQuorumCert(@, w.block),
                                 !.pending = RemoveRound(pv, w.round)]
          /\ certified' = certified \cup {w.block}
      BY <1>6 DEF ReceiveVote, IInv, TypeOK
    <2> HIDE DEF pv, quorum, n
    <2>2. /\ ObserveQc(node[v].rules, w.round) \in SafetyStateData
          /\ ObserveQc(node[v].rules, w.round).last_voted_round = node[v].rules.last_voted_round
          /\ ObserveQc(node[v].rules, w.round).one_chain_round
                = Larger(node[v].rules.one_chain_round, w.round)
      BY <1>2, <1>3, ObserveQcFacts
    <2>3. /\ RS!SetQuorumCert(node[v].state, w.block).quorum_cert = {w.block}
          /\ RS!SetQuorumCert(node[v].state, w.block) \in
                [epoch : {0}, round : Blocks \ {Genesis},
                 proposed_block : SUBSET Blocks, quorum_cert : SUBSET Blocks]
      BY <1>2, <1>3 DEF Nodes, RS!SetQuorumCert
    <2>4. RemoveRound(pv, w.round) \in [votes : SUBSET votes, current_round : Blocks]
      BY <1>5 DEF RemoveRound
    <2>5. /\ n \in Nodes /\ n.tc = node[v].tc
          /\ n.rules = ObserveQc(node[v].rules, w.round)
          /\ n.state.quorum_cert = {w.block}
      BY <1>3, <2>1, <2>2, <2>3, <2>4 DEF Nodes
    <2>6. TypeOK'
      BY <1>1, <1>2, <1>4, <2>1, <2>5 DEF IInv, TypeOK, Nodes
    <2>7. /\ n.rules.last_voted_round >= node[v].rules.last_voted_round
          /\ n.rules.one_chain_round \in certified'
          /\ n.state.quorum_cert \subseteq certified'
      BY <1>2, <2>1, <2>2, <2>5, NodeFacts DEF Larger
    <2>8. (\A t, u \in n.tc : t = u) /\ (\A tc \in n.tc : Justified(tc))
      BY <2>5, NodeFacts, Zenon
    <2>9. CheckVotingPower({u \in Validators : node'[u].rules.last_voted_round >= w.block})
      <3>1. CheckVotingPower({u \in Validators : node[u].rules.last_voted_round >= w.block})
        BY <1>6, QuorumWasSent DEF quorum, pv
      <3>2. \A u \in Validators :
               node'[u].rules.last_voted_round = node[u].rules.last_voted_round
        BY <1>4, <2>2, <2>5 DEF IInv, TypeOK
      <3>3. {u \in Validators : node[u].rules.last_voted_round >= w.block}
              \subseteq {u \in Validators : node'[u].rules.last_voted_round >= w.block}
        BY <3>2
      <3> QED
        BY <3>1, <3>3, QuorumGrows
    <2>10. \A b \in certified' \ certified :
              CheckVotingPower({u \in Validators : node'[u].rules.last_voted_round >= b})
      BY <2>1, <2>9
    <2> QED
      BY <1>1, <1>4, <2>1, <2>6, <2>7, <2>8, <2>10, NodeStepKeepsIInv
  <1>7. CASE ~quorum
    <2>1. n = [node[v] EXCEPT !.pending = pv] /\ certified' = certified
      BY <1>7 DEF ReceiveVote, IInv, TypeOK
    <2> HIDE DEF pv, quorum, n
    <2>2. /\ n \in Nodes /\ n.rules = node[v].rules /\ n.tc = node[v].tc /\ n.state = node[v].state
      BY <1>3, <1>5, <2>1 DEF Nodes
    <2>3. TypeOK'
      <3>1. Nodes' = Nodes
        BY <1>1 DEF Nodes
      <3>2. node' \in [Validators -> Nodes']
        BY <1>4, <2>2, <3>1 DEF IInv, TypeOK
      <3> QED
        BY <1>1, <2>1, <3>2 DEF IInv, TypeOK
    <2>4. /\ n.rules.last_voted_round >= node[v].rules.last_voted_round
          /\ n.rules.one_chain_round \in certified'
          /\ n.state.quorum_cert \subseteq certified'
      BY <2>1, <2>2, NodeFacts
    <2>5. (\A t, u \in n.tc : t = u) /\ (\A tc \in n.tc : Justified(tc))
      BY <2>2, NodeFacts, Zenon
    <2> QED
      BY <1>1, <1>4, <2>1, <2>3, <2>4, <2>5, NodeStepKeepsIInv
  <1> QED
    BY <1>6, <1>7

\* The timer: the timeout tells of the certificate, or of the timeout
\* certificate, that safe_to_timeout accepted.
LEMMA SendTimeoutKeepsIInv ==
    ASSUME IInv, NEW v \in Validators, SendTimeout(v)
    PROVE  IInv'
  <1> DEFINE s == node[v].rules
             round == node[v].state.round
             timeout == TwoChainTimeout(0, round, s.one_chain_round)
             m == [author |-> v, timeout |-> timeout, tc_round |-> TcRound(node[v])]
             n == [node[v] EXCEPT !.rules = RecordTimeout(@, round)]
  <1>1. /\ UNCHANGED <<parent, votes, certified, committed>> /\ timeouts' = timeouts \cup {m}
        /\ SafeToTimeoutOk(s, round, s.one_chain_round, node[v].tc)
    BY DEF SendTimeout
  <1>2. node[v] \in Nodes /\ s \in SafetyStateData /\ round \in Blocks \ {Genesis}
    BY NodeFacts DEF Nodes
  <1>3. s.one_chain_round \in certified /\ s.one_chain_round \in Blocks
    BY NodeFacts DEF IInv, TypeOK
  <1>4. node' = [node EXCEPT ![v] = n]
    BY DEF SendTimeout, IInv, TypeOK
  <1>5. /\ RecordTimeout(s, round) \in SafetyStateData
        /\ RecordTimeout(s, round).last_voted_round = s.last_voted_round
        /\ RecordTimeout(s, round).one_chain_round = s.one_chain_round
    <2> HIDE DEF round, s
    <2>1. round \in U64
      BY <1>2, RoundFacts
    <2> QED
      BY <1>2, <2>1, RecordTimeoutFacts
  <1>6. /\ n \in Nodes /\ n.tc = node[v].tc /\ n.state = node[v].state
        /\ n.rules = RecordTimeout(s, round)
    BY <1>2, <1>5 DEF Nodes
  <1>7. /\ TcRound(node[v]) \in Blocks
        /\ \A t \in node[v].tc : TcRound(node[v]) = t.round
    <2> DEFINE R == {0} \cup {tc.round : tc \in node[v].tc}
    <2>1. R \subseteq Blocks /\ Blocks \subseteq Int /\ R # {}
      BY <1>2, RoundFacts DEF Nodes, Certificates, Genesis
    <2>2. IsFiniteSet(R)
      BY <2>1, BlocksAreFinite
    <2>3. TcRound(node[v]) = Max(R)
      BY DEF TcRound
    <2>4. ASSUME NEW t \in node[v].tc PROVE R = {0, t.round} /\ t.round \in Blocks
      BY <1>2, NodeFacts DEF Nodes, Certificates
    <2> HIDE DEF R
    <2>5. Max(R) \in R /\ \A x \in R : x <= Max(R)
      BY <2>1, <2>2, MaxFacts
    <2>6. ASSUME NEW t \in node[v].tc PROVE TcRound(node[v]) = t.round
      BY <2>1, <2>3, <2>4, <2>5, RoundFacts DEF Blocks
    <2> QED
      BY <2>1, <2>3, <2>5, <2>6
  <1>8. timeout.hqc_round = s.one_chain_round /\ timeout.round = round /\ timeout \in Timeouts
    BY <1>2, <1>3 DEF TwoChainTimeout, Timeouts
  <1>9. round \in {s.one_chain_round + 1, TcRound(node[v]) + 1}
    BY <1>1, <1>7 DEF SafeToTimeoutOk
  <1> HIDE DEF n, timeout, round, s
  <1>10. TypeOK'
    <2>1. Nodes' = Nodes
      BY <1>1 DEF Nodes
    <2>2. node' \in [Validators -> Nodes']
      BY <1>4, <1>6, <2>1 DEF IInv, TypeOK
    <2>3. m \in [author : Validators, timeout : Timeouts, tc_round : Blocks]
      BY <1>7, <1>8
    <2> HIDE DEF m
    <2> QED
      BY <1>1, <2>2, <2>3 DEF IInv, TypeOK
  <1>11. /\ m.timeout.hqc_round \in certified'
         /\ m.timeout.round \in {m.timeout.hqc_round + 1, m.tc_round + 1}
    BY <1>1, <1>3, <1>8, <1>9
  <1> HIDE DEF m
  <1>12. \A x \in timeouts' \ timeouts :
            /\ x.timeout.hqc_round \in certified'
            /\ x.timeout.round \in {x.timeout.hqc_round + 1, x.tc_round + 1}
    BY <1>1, <1>11
  <1>13. /\ n.rules.last_voted_round >= node[v].rules.last_voted_round
         /\ n.rules.one_chain_round \in certified'
         /\ n.state.quorum_cert \subseteq certified'
    BY <1>1, <1>5, <1>6, NodeFacts DEF s
  <1>14. (\A t, u \in n.tc : t = u) /\ (\A tc \in n.tc : Justified(tc))
    BY <1>6, NodeFacts, Zenon
  <1> QED
    BY <1>1, <1>4, <1>10, <1>12, <1>13, <1>14, NodeStepKeepsIInv

\* The certificate of a quorum of timeouts of one round: its rounds are those
\* of some of the timeouts, and one of them is the round below.
LEMMA CertificateFacts ==
    ASSUME IInv, NEW R \in Blocks \ {Genesis}, NEW msgs \in SUBSET TimeoutsOf(R), msgs # {},
           TcVerifyOk(CertificateOf(msgs))
    PROVE  /\ CertificateOf(msgs) \in Certificates
           /\ CertificateOf(msgs).round = R
           /\ CertificateOf(msgs).hqc_round \in certified
           /\ Justified(CertificateOf(msgs))
  <1> DEFINE H == {m.timeout.hqc_round : m \in msgs}
             T == {m.tc_round : m \in msgs}
             top == CHOOSE m \in msgs : m.timeout.hqc_round = Max(H)
             tc == CertificateOf(msgs)
  <1>1. \A m \in msgs : /\ m \in timeouts /\ m.timeout.round = R /\ m.timeout \in Timeouts
                        /\ m.timeout.hqc_round \in Blocks /\ m.tc_round \in Blocks
                        /\ m.timeout.hqc_round < R
    BY DEF IInv, TypeOK, TimeoutsOf, TimeoutVerifyOk, Timeouts
  <1>2. H \subseteq Blocks /\ H # {} /\ T \subseteq Blocks /\ T # {} /\ Blocks \subseteq Int
    BY <1>1, RoundFacts
  <1>3. IsFiniteSet(H) /\ IsFiniteSet(T)
    BY <1>2, BlocksAreFinite
  <1>4. top \in msgs /\ top.timeout.hqc_round = Max(H)
    <2>1. Max(H) \in H
      <3> HIDE DEF H
      <3> QED
        BY <1>2, <1>3, MaxFacts
    <2>2. \E m \in msgs : m.timeout.hqc_round = Max(H)
      BY <2>1
    <2> HIDE DEF H
    <2> QED
      BY <2>2
  <1>5. tc = [epoch |-> 0, round |-> top.timeout.round, hqc_round |-> Max(H),
              highest_tc_round |-> Max(T), timeout |-> top.timeout]
    BY DEF CertificateOf, TimeoutCertificate
  <1>6. \A m \in msgs : /\ m.timeout.hqc_round \in certified
                        /\ R \in {m.timeout.hqc_round + 1, m.tc_round + 1}
    BY <1>1 DEF IInv, CertificatesAreKnown
  <1>7. \A m \in msgs : m.timeout.hqc_round \in H /\ m.tc_round \in T
    OBVIOUS
  <1> HIDE DEF H, T, top, tc
  <1>8. Max(H) \in H /\ Max(T) \in T /\ (\A x \in H : x <= Max(H)) /\ (\A x \in T : x <= Max(T))
    BY <1>2, <1>3, MaxFacts
  <1>9. /\ tc \in Certificates /\ tc.round = R /\ tc.hqc_round = Max(H)
        /\ tc.highest_tc_round = Max(T) /\ tc.timeout = top.timeout
    BY <1>1, <1>2, <1>4, <1>5, <1>8 DEF Certificates
  <1>10. tc.hqc_round \in certified
    BY <1>4, <1>6, <1>9
  <1>11. tc.hqc_round < R /\ tc.highest_tc_round < R
    BY <1>9 DEF tc, TcVerifyOk
  <1>12. R = tc.hqc_round + 1 \/ R = tc.highest_tc_round + 1
    <2>1. PICK m \in msgs : TRUE
      OBVIOUS
    <2>2. m.timeout.hqc_round <= tc.hqc_round /\ m.tc_round <= tc.highest_tc_round
      BY <1>7, <1>8, <1>9
    <2>3. R \in Int /\ tc.hqc_round \in Int /\ tc.highest_tc_round \in Int
          /\ m.timeout.hqc_round \in Int /\ m.tc_round \in Int
      BY <1>1, <1>2, <1>8, <1>9
    <2> QED
      BY <1>6, <1>11, <2>2, <2>3
  <1>13. AllowsAdvance(tc) /\ EffectiveHqcRound(tc) = tc.round - 1
    <2>1. tc.hqc_round \in Nat /\ tc.highest_tc_round \in Nat /\ R \in Nat /\ R <= MaxRound
      <3>1. tc.hqc_round \in Blocks /\ tc.highest_tc_round \in Blocks /\ R \in Blocks
        BY <1>9 DEF Certificates
      <3> QED
        BY <3>1, RoundFacts DEF Blocks
    <2> QED
      BY <1>9, <1>11, <1>12, <2>1, RoundFacts DEF AllowsAdvance, EffectiveHqcRound, WrappingAdd, Larger
  <1>14. ~TcVerifyOk(OverTheWire(tc))
    <2>1. OverTheWire(tc).timeout = DefaultTimeout
      BY <1>9 DEF OverTheWire, Certificates
    <2> QED
      BY <2>1 DEF TcVerifyOk, TimeoutVerifyOk, DefaultTimeout, TwoChainTimeout
  <1> QED
    BY <1>9, <1>10, <1>13, <1>14 DEF Justified, tc

\* observe_tc and start_round of the round after a timeout certificate.
LEMMA AdvanceByTcKeepsIInv ==
    ASSUME IInv, NEW v \in Validators, NEW msgs \in SUBSET TimeoutsOf(node[v].state.round),
           AdvanceByTc(v, msgs)
    PROVE  IInv'
  <1> DEFINE tc == CertificateOf(msgs)
             seen == [node[v] EXCEPT !.rules = ObserveTc(@, tc), !.tc = {tc}]
             n == Enter(seen, tc.round + 1)
  <1>1. /\ UNCHANGED <<parent, votes, timeouts, certified, committed>>
        /\ CheckVotingPower({m.author : m \in msgs}) /\ TcVerifyOk(tc) /\ tc.round < MaxRound
        /\ node' = [node EXCEPT ![v] = n]
    BY DEF AdvanceByTc
  <1>2. msgs # {}
    BY <1>1, NoQuorumOfNone
  <1>3. node[v] \in Nodes /\ node[v].rules \in SafetyStateData /\ node[v].state.round \in Blocks \ {Genesis}
    BY NodeFacts DEF Nodes
  <1>4. tc \in Certificates /\ tc.hqc_round \in certified /\ Justified(tc)
    BY <1>1, <1>2, <1>3, CertificateFacts
  <1> HIDE DEF tc
  <1>5. tc.round \in Blocks /\ tc.hqc_round \in Blocks /\ tc.round \in U64 /\ tc.hqc_round \in U64
    BY <1>4, RoundFacts DEF Certificates
  <1>6. tc.round + 1 \in Blocks \ {Genesis}
    BY <1>1, <1>5, RoundFacts DEF Blocks, Genesis
  <1>7. /\ ObserveTc(node[v].rules, tc) \in SafetyStateData
        /\ ObserveTc(node[v].rules, tc).last_voted_round = node[v].rules.last_voted_round
        /\ ObserveTc(node[v].rules, tc).one_chain_round
              = Larger(node[v].rules.one_chain_round, tc.hqc_round)
    BY <1>3, <1>5, ObserveTcFacts
  <1>8. /\ seen \in [state : RoundStates, rules : SafetyStateData, tc : SUBSET Certificates,
                     pending : [votes : SUBSET votes, current_round : Blocks]]
        /\ seen.rules = ObserveTc(node[v].rules, tc) /\ seen.tc = {tc} /\ seen.state = node[v].state
    BY <1>3, <1>4, <1>7 DEF Nodes, RoundStates
  <1> HIDE DEF seen
  <1>9. /\ n \in Nodes /\ n.rules = seen.rules /\ n.tc = seen.tc
        /\ n.state.quorum_cert = seen.state.quorum_cert
    BY <1>6, <1>8, EnterFacts
  <1> HIDE DEF n
  <1>10. TypeOK'
    <2>1. Nodes' = Nodes
      BY <1>1 DEF Nodes
    <2>2. node' \in [Validators -> Nodes']
      BY <1>1, <1>9, <2>1 DEF IInv, TypeOK
    <2> QED
      BY <1>1, <2>2 DEF IInv, TypeOK
  <1>11. /\ n.rules.last_voted_round >= node[v].rules.last_voted_round
         /\ n.rules.one_chain_round \in certified'
         /\ n.state.quorum_cert \subseteq certified'
    BY <1>1, <1>4, <1>7, <1>8, <1>9, NodeFacts DEF Larger
  <1>12. (\A t, u \in n.tc : t = u) /\ (\A t \in n.tc : Justified(t))
    BY <1>4, <1>8, <1>9
  <1> QED
    BY <1>1, <1>10, <1>11, <1>12, NodeStepKeepsIInv

\* No step of any validator breaks the invariant.
LEMMA NextKeepsIInv == IInv /\ [Next]_vars => IInv'
  <1> SUFFICES ASSUME IInv, [Next]_vars PROVE IInv'
    OBVIOUS
  <1>1. CASE UNCHANGED vars
    BY <1>1
    DEF vars, IInv, TypeOK, Nodes, VotesAreRemembered, CertificatesAreKnown, QuorumsRemember,
        OneChainIsCertified, TcsAllowAdvance
  <1>2. ASSUME NEW v \in Validators,
               \/ Propose(v)
               \/ \E b \in DOMAIN parent : HandleProposal(v, b)
               \/ \E w \in votes : ReceiveVote(v, w)
               \/ StartNextRound(v)
               \/ SendTimeout(v)
               \/ \E msgs \in SUBSET TimeoutsOf(node[v].state.round) : AdvanceByTc(v, msgs)
        PROVE  IInv'
    BY <1>2, ProposeKeepsIInv, HandleProposalKeepsIInv, ReceiveVoteKeepsIInv,
       StartNextRoundKeepsIInv, SendTimeoutKeepsIInv, AdvanceByTcKeepsIInv
  <1> QED
    BY <1>1, <1>2 DEF Next

\* The invariant holds in every state of the cluster.
THEOREM Invariance == Spec => []IInv
  BY InitIInv, NextKeepsIInv, PTL DEF Spec

\* Behind every certificate stands a quorum of validators that remember a
\* vote at least as high, for any validators, powers and rounds.
THEOREM CertificatesAreBacked == Spec => []QuorumsRemember
  <1>1. IInv => QuorumsRemember
    BY DEF IInv
  <1> QED
    BY <1>1, Invariance, PTL

\* one_chain_round, raised by certificates and by timeout certificates, is
\* always a round that was certified.
THEOREM OneChainFollowsCertificates == Spec => []OneChainIsCertified
  <1>1. IInv => OneChainIsCertified
    BY DEF IInv
  <1> QED
    BY <1>1, Invariance, PTL

\* A timeout certificate justifies the round it leads to, for its builder.
THEOREM TimeoutCertificatesJustify == Spec => []TcsAllowAdvance
  <1>1. IInv => TcsAllowAdvance
    BY DEF IInv
  <1> QED
    BY <1>1, Invariance, PTL

-----------------------------------------------------------------------------
(***************************************************************************)
(* The refinement of CertifiedChain.                                       *)
(***************************************************************************)

\* The initial states map to initial states.
LEMMA InitRefines == Init => Chain!Init
  BY DEF Init, Chain!Init, Committed

\* Every step of a validator maps to a step of the chain, or to none.
LEMMA NextRefines == IInv /\ [Next]_vars => [Chain!Next]_(Chain!vars)
  <1> SUFFICES ASSUME IInv, [Next]_vars PROVE [Chain!Next]_(Chain!vars)
    OBVIOUS
  <1> USE DEF Chain!vars
  <1>1. CASE UNCHANGED vars
    BY <1>1 DEF vars, Committed
  <1>2. ASSUME NEW v \in Validators, Propose(v) PROVE Chain!Next
    <2>1. PICK p \in ParentQc(node[v]) :
             parent' = [b \in DOMAIN parent \cup {node[v].state.round} |->
                           IF b = node[v].state.round THEN p ELSE parent[b]]
      BY <1>2 DEF Propose
    <2>2. p \in certified /\ p \in Blocks /\ node[v].state.round \in Blocks \ {Genesis}
      BY ParentQcIsCertified, NodeFacts DEF Nodes
    <2>3. Chain!Propose(node[v].state.round, p)
      BY <1>2, <2>1, <2>2 DEF Propose, Chain!Propose, Committed
    <2> QED
      BY <2>2, <2>3 DEF Chain!Next
  <1>3. ASSUME NEW v \in Validators, NEW b \in DOMAIN parent, HandleProposal(v, b)
        PROVE  Chain!Next \/ UNCHANGED Chain!vars
    <2>1. UNCHANGED <<parent, certified>> /\ parent[b] \in Blocks
      BY <1>3 DEF HandleProposal, IInv, TypeOK
    <2>2. Committed' = Committed \cup ShouldCommit(node[v].rules, b, parent[b])
      BY <1>3 DEF HandleProposal, Committed, IInv, TypeOK
    <2>3. CASE ShouldCommit(node[v].rules, b, parent[b]) = {}
      BY <2>1, <2>2, <2>3
    <2>4. CASE ShouldCommit(node[v].rules, b, parent[b]) = {parent[b]}
      <3>1. Chain!Commit(parent[b])
        BY <2>1, <2>2, <2>4 DEF Chain!Commit
      <3> QED
        BY <2>1, <3>1 DEF Chain!Next
    <2> QED
      BY <2>3, <2>4 DEF ShouldCommit
  <1>4. ASSUME NEW v \in Validators, NEW w \in votes, ReceiveVote(v, w)
        PROVE  Chain!Next \/ UNCHANGED Chain!vars
    <2>1. w.block \in DOMAIN parent /\ w.block \in Blocks
      BY DEF IInv, TypeOK, VoteFor
    <2>2. UNCHANGED <<parent, Committed>>
      BY <1>4 DEF ReceiveVote, Committed
    <2>3. certified' = certified \/ certified' = certified \cup {w.block}
      BY <1>4 DEF ReceiveVote
    <2>4. CASE certified' = certified \cup {w.block}
      <3>1. Chain!Certify(w.block)
        BY <2>1, <2>2, <2>4 DEF Chain!Certify
      <3> QED
        BY <2>1, <3>1 DEF Chain!Next
    <2> QED
      BY <2>2, <2>3, <2>4
  <1>5. ASSUME NEW v \in Validators,
               \/ StartNextRound(v)
               \/ SendTimeout(v)
               \/ \E msgs \in SUBSET TimeoutsOf(node[v].state.round) : AdvanceByTc(v, msgs)
        PROVE  UNCHANGED Chain!vars
    BY <1>5 DEF StartNextRound, SendTimeout, AdvanceByTc, Committed
  <1> QED
    BY <1>1, <1>2, <1>3, <1>4, <1>5 DEF Next

\* The cluster implements CertifiedChain: only blocks under certified parents
\* are proposed, only proposed blocks certified, only parents committed.
THEOREM Refinement == Spec => ChainSpec
  BY Invariance, InitRefines, NextRefines, PTL DEF Spec, ChainSpec, Chain!Spec
=============================================================================
