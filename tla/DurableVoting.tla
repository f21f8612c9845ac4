--------------------------- MODULE DurableVoting ---------------------------
(***************************************************************************)
(* One validator that votes, crashes and recovers.  The memory copy of the *)
(* safety state lives in TwoChainSafetyRules; the durable copy is written  *)
(* by persist_safety_state and read back by load_safety_rules              *)
(* (consensus-core/src/safety_rules/recovery.rs).  Voting is the async     *)
(* sequence recovery.rs prescribes: try_vote_for_proposal, then            *)
(* persist_safety_state, then send; it holds the rules by &mut, so nothing *)
(* else touches them in between, but a failing write, a dropped future or  *)
(* a crash can cut it at each await.                                       *)
(***************************************************************************)
EXTENDS SafetyRules

CONSTANTS
    Epoch,        \* the epoch passed to load_safety_rules on a first start
    Proposals,    \* blocks offered for a vote
    QcRounds,     \* rounds of the quorum certificates the validator may see
    OfferedTcs    \* timeout certificates the validator may see

ASSUME DurableVotingConstants ==
    /\ Epoch \in U64
    /\ \A p \in Proposals :
          p.round \in U64 /\ p.qc_round \in U64 /\ p.qc_round < p.round
    /\ QcRounds \subseteq U64
    /\ OfferedTcs \subseteq TimeoutCerts

VARIABLES
    phase,      \* where the validator process is
    rules,      \* Option: TwoChainSafetyRules::state, lost in a crash
    disk,       \* Option: the state last written by save_safety_state
    vote,       \* Option: the vote being cast
    sent,       \* history: every vote handed to the network
    observed    \* history: rounds of QCs seen, alone or as a TC's hqc_round

vars == <<phase, rules, disk, vote, sent, observed>>

Phases == {"down", "refused", "idle", "recorded", "persisted"}

Votes == [proposal : Proposals, tc : Option(OfferedTcs)]

Init ==
    /\ phase = "down"
    /\ rules = {}
    /\ disk = {}
    /\ vote = {}
    /\ sent = {}
    /\ observed = {}

\* Mutant: a restart always begins from a new safety state.
LoadSafetyRules_IgnoresDisk ==
    /\ phase \in {"down", "refused"}
    /\ phase' = "idle"
    /\ rules' = {NewSafetyState(Epoch)}
    /\ UNCHANGED <<disk, vote, sent, observed>>

\* load_safety_rules.  A storage error is a stuttering step: the process
\* stays down and may try again; so may one whose state was refused.
LoadSafetyRules ==
    /\ phase \in {"down", "refused"}
    /\ \/ /\ disk = {}
          /\ phase' = "idle"
          /\ rules' = {NewSafetyState(Epoch)}
       \/ \E s \in disk : /\ ValidateSafetyStateOk(s)
                          /\ phase' = "idle"
                          /\ rules' = disk
       \/ \E s \in disk : /\ ~ValidateSafetyStateOk(s)
                          /\ phase' = "refused"
                          /\ UNCHANGED rules
    /\ UNCHANGED <<disk, vote, sent, observed>>

\* safe_to_vote and record_vote run without an await between them.
TryVote(p, tc) ==
    /\ phase = "idle"
    /\ \E s \in rules : /\ TryVoteOk(s, p.round, tc)
                        /\ rules' = {RecordVote(s, p.round)}
    /\ vote' = {[proposal |-> p, tc |-> tc]}
    /\ phase' = "recorded"
    /\ UNCHANGED <<disk, sent, observed>>

\* Mutant: the vote goes out without the write.
PersistVote_Skipped ==
    /\ phase = "recorded"
    /\ phase' = "persisted"
    /\ UNCHANGED <<rules, disk, vote, sent, observed>>

\* persist_safety_state returns Ok inside the voting sequence.
PersistVote ==
    /\ phase = "recorded"
    /\ disk' = rules
    /\ phase' = "persisted"
    /\ UNCHANGED <<rules, vote, sent, observed>>

\* persist_safety_state returns Err, or its future is dropped: `?` leaves the
\* voting sequence before the send.  The write may have reached the disk.
PersistVoteFails ==
    /\ phase = "recorded"
    /\ disk' \in {disk, rules}
    /\ phase' = "idle"
    /\ vote' = {}
    /\ UNCHANGED <<rules, sent, observed>>

SendVote ==
    /\ phase = "persisted"
    /\ sent' = sent \cup vote
    /\ vote' = {}
    /\ phase' = "idle"
    /\ UNCHANGED <<rules, disk, observed>>

\* The network refuses the vote: it is lost, the state stays recorded.
SendVoteFails ==
    /\ phase = "persisted"
    /\ vote' = {}
    /\ phase' = "idle"
    /\ UNCHANGED <<rules, disk, sent, observed>>

SeeQc(r) ==
    /\ phase = "idle"
    /\ rules' = {ObserveQc(s, r) : s \in rules}
    /\ observed' = observed \cup {r}
    /\ UNCHANGED <<phase, disk, vote, sent>>

SeeTc(tc) ==
    /\ phase = "idle"
    /\ rules' = {ObserveTc(s, tc) : s \in rules}
    /\ observed' = observed \cup {tc.hqc_round}
    /\ UNCHANGED <<phase, disk, vote, sent>>

SeeTimeout(r) ==
    /\ phase = "idle"
    /\ rules' = {RecordTimeout(s, r) : s \in rules}
    /\ UNCHANGED <<phase, disk, vote, sent, observed>>

\* persist_safety_state called after an observation.
PersistObserved ==
    /\ phase = "idle"
    /\ disk' = rules
    /\ UNCHANGED <<phase, rules, vote, sent, observed>>

Crash ==
    /\ phase \in {"idle", "recorded", "persisted"}
    /\ phase' = "down"
    /\ rules' = {}
    /\ vote' = {}
    /\ UNCHANGED <<disk, sent, observed>>

Next ==
    \/ LoadSafetyRules
    \/ \E p \in Proposals, tc \in Option(OfferedTcs) : TryVote(p, tc)
    \/ PersistVote
    \/ PersistVoteFails
    \/ SendVote
    \/ SendVoteFails
    \/ \E r \in QcRounds : SeeQc(r)
    \/ \E tc \in OfferedTcs : SeeTc(tc)
    \/ \E r \in QcRounds : SeeTimeout(r)
    \/ PersistObserved
    \/ Crash

Spec == Init /\ [][Next]_vars

-----------------------------------------------------------------------------
(***************************************************************************)
(* Properties.                                                             *)
(***************************************************************************)

\* The variables stay in their types; a running process has a safety state,
\* and exactly the two middle steps of the voting sequence hold a vote.
TypeOK ==
    /\ phase \in Phases
    /\ IsOption(rules, SafetyStateData)
    /\ IsOption(disk, SafetyStateData)
    /\ IsOption(vote, Votes)
    /\ sent \subseteq Votes
    /\ observed \subseteq U64
    /\ rules = {} <=> phase \in {"down", "refused"}
    /\ vote # {} <=> phase \in {"recorded", "persisted"}

\* "CRITICAL: this MUST be called BEFORE sending any vote": whatever the
\* network has seen, the disk already forbids every lower round, so that no
\* crash or failed write makes load_safety_rules forget a vote.
SentVotesAreDurable ==
    \A v \in sent : \E d \in disk : v.proposal.round <= d.last_voted_round

\* The memory copy is never behind the disk: save_safety_state cannot
\* overwrite newer rounds with older ones, however writes and crashes mix.
MemoryCoversDisk ==
    \A s \in rules, d \in disk : RoundsAtLeast(s, d)

\* preferred_round is only ever the upper round of two consecutive rounds
\* that were both certified to this validator (0 counts as certified).
PreferredIsTwoChain ==
    \A s \in rules \cup disk :
        s.preferred_round > 0 =>
            {s.preferred_round - 1, s.preferred_round} \subseteq observed \cup {0}

\* observe_qc raises preferred_round only together with one_chain_round, and
\* observe_tc only the latter: the 2-chain never overtakes the 1-chain.
PreferredWithinOneChain ==
    \A s \in rules \cup disk : s.preferred_round <= s.one_chain_round

\* one_chain_round always is a round certified to this validator by a QC or
\* by the highest QC of a TC; no crash and no stale disk state invents one.
OneChainIsObserved ==
    \A s \in rules \cup disk : s.one_chain_round \in observed \cup {0}

\* The vote in the middle of the sequence is already counted by the memory
\* copy, by the disk copy once persist_safety_state has returned Ok, and it
\* is not older than anything sent.
VoteInFlightIsCovered ==
    /\ \A v \in vote :
          /\ \A s \in rules : v.proposal.round <= s.last_voted_round
          /\ \A w \in sent : w.proposal.round <= v.proposal.round
    /\ phase = "persisted" => disk = rules

\* Across crashes and restarts a validator never sends a vote for a round
\* lower than that of a vote it has sent before.
VotesNeverGoBack ==
    [][\A v \in sent' \ sent, w \in sent : w.proposal.round <= v.proposal.round]_vars

\* No write, successful or failed, lowers a round held by the disk.
DiskNeverRegresses ==
    [][\A d \in disk : \E e \in disk' : RoundsAtLeast(e, d)]_vars

\* The inductive invariant of DurableVotingProofs.
IInv ==
    /\ TypeOK
    /\ SentVotesAreDurable
    /\ MemoryCoversDisk
    /\ VoteInFlightIsCovered
    /\ OneChainIsObserved
    /\ PreferredIsTwoChain
    /\ PreferredWithinOneChain

-----------------------------------------------------------------------------
(***************************************************************************)
(* What the repository's comments say of this code and the code does not   *)
(* do; each is refuted by a run.                                           *)
(***************************************************************************)

\* state.rs: "`last_voted_round` is monotonically increasing (prevents
\* double-voting)": no two different blocks of one round get a vote.
NoDoubleVote ==
    \A v, w \in sent :
        v.proposal.round = w.proposal.round => v.proposal = w.proposal

\* state.rs: "`one_chain_round <= preferred_round`", which
\* validate_safety_state enforces on what it reads back.
OneChainWithinPreferred ==
    \A s \in rules \cup disk : s.one_chain_round <= s.preferred_round
=============================================================================
