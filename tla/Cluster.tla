------------------------------ MODULE Cluster ------------------------------
(***************************************************************************)
(* Honest validators that run the library as its documentation shows: each *)
(* owns a RoundManager (here its RoundState, PendingVotes and safety       *)
(* rules) and a ProposalGenerator; the host of each one moves messages,    *)
(* starts rounds and asks should_commit.  Messages stay in sets, so they   *)
(* arrive in any order, any number of times, or never.                     *)
(*                                                                         *)
(* Proposers are elected round-robin and propose once for a round, so a    *)
(* block is the round it was proposed in and genesis is block 0.           *)
(***************************************************************************)
EXTENDS TimeoutCertificates, PendingVotes, ProposerElection

CONSTANTS
    ValidatorList,   \* the validators in the order of the election
    MaxRound         \* bound on the rounds

ASSUME ClusterConstants ==
    /\ ValidatorList \in Seq(Validators)
    /\ MaxRound \in 1..(MaxU64 - 1)

VARIABLES
    node,        \* of each validator: state, pending, rules, tc (Option, the last built)
    parent,      \* proposals sent: block -> its parent
    votes,       \* votes sent
    timeouts,    \* timeout messages sent
    certified,   \* history: blocks a validator has certified
    committed    \* of each validator: blocks should_commit returned

vars == <<node, parent, votes, timeouts, certified, committed>>

RS == INSTANCE RoundState WITH InitialRound <- 0

Genesis == 0

Blocks == 0..MaxRound

VoteFor(v, b) == [epoch |-> 0, round |-> b, block |-> b, author |-> v, signature |-> v]

\* start_round of the round manager.
Enter(n, round) ==
    [n EXCEPT !.state = RS!SetRound(@, round), !.pending = SetRound(@, round)]

\* RoundManager::new, and the host's start_round(1).
Init ==
    /\ node = [v \in Validators |->
                 Enter([state |-> RS!NewRoundState(0), pending |-> NewPendingVotes,
                        rules |-> NewSafetyState(0), tc |-> {}], 1)]
    /\ parent = <<>>
    /\ votes = {}
    /\ timeouts = {}
    /\ certified = {Genesis}
    /\ committed = [v \in Validators |-> {}]

\* The certificate a proposal is built on: the stored one, and the host's
\* genesis certificate while there is none.
ParentQc(n) == IF n.state.quorum_cert = {} THEN {Genesis} ELSE n.state.quorum_cert

\* Mutant: the proposal names the round below instead of the certificate.
Propose_PreviousRound(v) ==
    LET round == node[v].state.round
    IN  /\ IsValidProposer(RoundRobinProposer(ValidatorList, 1, round), v)
        /\ round \notin DOMAIN parent
        /\ parent' = [b \in DOMAIN parent \cup {round} |->
                         IF b = round THEN round - 1 ELSE parent[b]]
        /\ UNCHANGED <<node, votes, timeouts, certified, committed>>

\* generate_proposal: the round of the certificate is not compared with the
\* round of the proposal.
Propose(v) ==
    LET round == node[v].state.round
    IN  /\ IsValidProposer(RoundRobinProposer(ValidatorList, 1, round), v)
        /\ round \notin DOMAIN parent
        /\ \E p \in ParentQc(node[v]) :
              parent' = [b \in DOMAIN parent \cup {round} |-> IF b = round THEN p ELSE parent[b]]
        /\ UNCHANGED <<node, votes, timeouts, certified, committed>>

\* What the host does with a proposal that process_proposal accepts: it asks
\* should_commit and, after try_vote_for_proposal, sends its vote.
HandleProposal(v, b) ==
    /\ RS!IsCurrentRound(node[v].state, b)
    /\ TryVoteOk(node[v].rules, b, node[v].tc)
    /\ committed' = [committed EXCEPT ![v] = @ \cup ShouldCommit(node[v].rules, b, parent[b])]
    /\ node' = [node EXCEPT ![v].state = RS!SetProposedBlock(@, b),
                            ![v].rules = RecordVote(@, b)]
    /\ votes' = votes \cup {VoteFor(v, b)}
    /\ UNCHANGED <<parent, timeouts, certified>>

\* process_vote, with the certificate when the vote completes a quorum.
ReceiveVote(v, w) ==
    LET n == node[v]
        pv == Insert(n.pending, w)
        quorum == CheckQuorum(pv, w.round, w.block)
    IN  /\ RS!IsCurrentEpoch(n.state, w.epoch)
        /\ AddVoteOk(n.pending, w)
        /\ node' = [node EXCEPT ![v] =
              IF quorum
              THEN [n EXCEPT !.rules = ObserveQc(@, w.round),
                             !.state = RS!SetQuorumCert(@, w.block),
                             !.pending = RemoveRound(pv, w.round)]
              ELSE [n EXCEPT !.pending = pv]]
        /\ certified' = IF quorum THEN certified \cup {w.block} ELSE certified
        /\ UNCHANGED <<parent, votes, timeouts, committed>>

\* The host goes to the round after the certificate it holds.
StartNextRound(v) ==
    /\ \E q \in node[v].state.quorum_cert :
          /\ q + 1 > node[v].state.round
          /\ q + 1 <= MaxRound
          /\ node' = [node EXCEPT ![v] = Enter(@, q + 1)]
    /\ UNCHANGED <<parent, votes, timeouts, certified, committed>>

\* The host's timer fires once in a round.
TimerFires(v) ==
    /\ node[v].state.round < MaxRound
    /\ \A m \in timeouts : m.author = v => m.timeout.round # node[v].state.round

\* Mutant: the timeout certificate is not remembered.
TcRound_Forgets(n) == 0

TcRound(n) == Max({0} \cup {tc.round : tc \in n.tc})

\* The timer fires: safe_to_timeout for the round, with the highest
\* certificate known as process_timeout takes it, record_timeout, and the
\* message, which also tells the last timeout certificate.
SendTimeout(v) ==
    LET n == node[v]
        timeout == TwoChainTimeout(0, n.state.round, n.rules.one_chain_round)
    IN  /\ TimerFires(v)
        /\ SafeToTimeoutOk(n.rules, n.state.round, n.rules.one_chain_round, n.tc)
        /\ node' = [node EXCEPT ![v].rules = RecordTimeout(@, n.state.round)]
        /\ timeouts' = timeouts \cup
              {[author |-> v, timeout |-> timeout, tc_round |-> TcRound(n)]}
        /\ UNCHANGED <<parent, votes, certified, committed>>

\* The certificate the host builds from timeout messages of one round.
CertificateOf(msgs) ==
    LET hqc == Max({m.timeout.hqc_round : m \in msgs})
        top == CHOOSE m \in msgs : m.timeout.hqc_round = hqc
    IN  TimeoutCertificate(0, top.timeout.round, hqc, Max({m.tc_round : m \in msgs}), top.timeout)

\* A quorum of timeouts of the validator's round: observe_tc, next round.
AdvanceByTc(v, msgs) ==
    LET tc == CertificateOf(msgs)
    IN  /\ CheckVotingPower({m.author : m \in msgs})
        /\ TcVerifyOk(tc)
        /\ tc.round < MaxRound
        /\ node' = [node EXCEPT ![v] =
              Enter([node[v] EXCEPT !.rules = ObserveTc(@, tc), !.tc = {tc}], tc.round + 1)]
        /\ UNCHANGED <<parent, votes, timeouts, certified, committed>>

TimeoutsOf(round) ==
    {m \in timeouts : m.timeout.round = round /\ TimeoutVerifyOk(m.timeout)}

Next ==
    \E v \in Validators :
        \/ Propose(v)
        \/ \E b \in DOMAIN parent : HandleProposal(v, b)
        \/ \E w \in votes : ReceiveVote(v, w)
        \/ StartNextRound(v)
        \/ SendTimeout(v)
        \/ \E msgs \in SUBSET TimeoutsOf(node[v].state.round) : AdvanceByTc(v, msgs)

Spec == Init /\ [][Next]_vars

\* Proposers propose, proposals and votes get through in the end, and hosts
\* start the rounds their certificates open.
FairSpec ==
    /\ Spec
    /\ \A v \in Validators :
          /\ WF_vars(Propose(v))
          /\ WF_vars(\E b \in DOMAIN parent : HandleProposal(v, b))
          /\ WF_vars(StartNextRound(v))
          /\ \A u \in Validators, b \in Blocks \ {Genesis} :
                SF_vars(VoteFor(u, b) \in votes /\ ReceiveVote(v, VoteFor(u, b)))

-----------------------------------------------------------------------------
(***************************************************************************)
(* Properties.                                                             *)
(***************************************************************************)
Committed == {Genesis} \cup UNION {committed[v] : v \in Validators}

Timeouts == [epoch : {0}, round : Blocks \ {Genesis}, hqc_round : Blocks]

Certificates ==
    [epoch : {0}, round : Blocks \ {Genesis}, hqc_round : Blocks,
     highest_tc_round : Blocks, timeout : Timeouts]

\* A validator only counts votes that were sent.
Nodes ==
    [state : [epoch : {0}, round : Blocks \ {Genesis},
              proposed_block : SUBSET Blocks, quorum_cert : SUBSET Blocks],
     pending : [votes : SUBSET votes, current_round : Blocks],
     rules : SafetyStateData,
     tc : SUBSET Certificates]

\* The variables stay in their types.
TypeOK ==
    /\ node \in [Validators -> Nodes]
    /\ DOMAIN parent \subseteq Blocks \ {Genesis}
    /\ \A b \in DOMAIN parent : parent[b] \in Blocks
    /\ votes \subseteq {VoteFor(v, b) : v \in Validators, b \in DOMAIN parent}
    /\ timeouts \subseteq [author : Validators, timeout : Timeouts, tc_round : Blocks]
    /\ Genesis \in certified /\ certified \subseteq Blocks
    /\ committed \in [Validators -> SUBSET Blocks]

Chain == INSTANCE CertifiedChain WITH committed <- Committed

\* The cluster implements CertifiedChain: whatever is lost, repeated or late,
\* a block is certified only on top of a certified block, and should_commit
\* only returns certified blocks.
ChainSpec == Chain!Spec

\* A certified block rests on a quorum of validators that remember a vote at
\* least as high, whoever formed the certificate: this is what later votes
\* and timeouts are measured against.
QuorumsRemember ==
    \A b \in certified \ {Genesis} :
        CheckVotingPower({v \in Validators : node[v].rules.last_voted_round >= b})

\* one_chain_round comes from certificates formed here or, through a timeout
\* certificate, anywhere else: it is always a round some validator certified.
OneChainIsCertified ==
    \A v \in Validators : node[v].rules.one_chain_round \in certified

\* Every timeout certificate justifies the round it leads to, by a
\* certificate or by the timeout certificate of the round below; and it is of
\* use only to the validator that built it: read back from the wire it fails
\* verify().
TcsAllowAdvance ==
    \A v \in Validators : \A tc \in node[v].tc :
        /\ AllowsAdvance(tc)
        /\ EffectiveHqcRound(tc) = tc.round - 1
        /\ ~TcVerifyOk(OverTheWire(tc))

\* Whoever sent a vote remembers a round at least as high, whatever it has
\* seen and done since.
VotesAreRemembered ==
    \A w \in votes : node[w.author].rules.last_voted_round >= w.round

\* What a validator builds on or reports in a timeout is a certified block,
\* and a timeout is justified by the certificate or by the timeout
\* certificate it tells of.
CertificatesAreKnown ==
    /\ \A v \in Validators : node[v].state.quorum_cert \subseteq certified
    /\ \A v \in Validators : \A t, u \in node[v].tc : t = u
    /\ \A m \in timeouts :
          /\ m.timeout.hqc_round \in certified
          /\ m.timeout.round \in {m.timeout.hqc_round + 1, m.tc_round + 1}

\* The inductive invariant of the proofs.
IInv ==
    /\ TypeOK
    /\ VotesAreRemembered
    /\ CertificatesAreKnown
    /\ QuorumsRemember
    /\ OneChainIsCertified
    /\ TcsAllowAdvance

\* While no validator times out, every block that has a successor within the
\* bound is committed by some validator.  (Not by all: one that certifies a
\* block before it handles the proposal has one_chain_round too high.)
CommitsWithoutTimeouts ==
    [](timeouts = {}) => <>(Committed = 0..(MaxRound - 1))

-----------------------------------------------------------------------------
(***************************************************************************)
(* What comments of the repository say and the code does not do.           *)
(***************************************************************************)
Ancestors[b \in Blocks] == IF b = Genesis THEN {b} ELSE {b} \cup Ancestors[parent[b]]

\* "These rules ensure: All honest validators agree on committed blocks
\* (safety). No forks can occur": committed blocks are on one branch.
NoForks ==
    \A a, b \in Committed : a \in Ancestors[b] \/ b \in Ancestors[a]
=============================================================================
