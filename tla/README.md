# Verification of the aptosbft consensus core

TLA+ modules for `consensus-core`, TLC configurations that check them on small
instances, and TLAPS proofs of the safety results that matter most. Paths below
are relative to `consensus-core/src/` unless they start with `src/`.

## 1. Inventory of the system

The repository is a library: traits (`src/consensus-traits`) and a generic core
(`src/consensus-core`). There is no main loop. A host program owns the objects,
calls them through `&mut`, moves messages and persists state. Concurrency is
therefore the order in which the host makes calls, the await points of the
recovery functions, what the network does to messages, and crashes.

| component | state | operations | what is hard | what makes it correct |
|---|---|---|---|---|
| safety rules (`safety_rules/two_chain.rs`, `state.rs`) | `SafetyStateData`: epoch, `last_voted_round`, `preferred_round`, `one_chain_round`, `highest_timeout_round` | `safe_to_vote`, `safe_to_timeout`, `observe_qc`, `observe_tc`, `record_vote`, `record_timeout`, `should_commit`, `new_epoch` | certificates out of order or with gaps; rounds at `u64::MAX` | votes never go back; the chain rounds are rounds really certified |
| recovery (`safety_rules/recovery.rs`) | the state on disk | `load_safety_rules`, `validate_safety_state`, `persist_safety_state` | crash, failed write or dropped future between recording, writing and sending a vote | no sent vote is forgotten; the disk never regresses |
| pending votes (`votes/pending_votes.rs`) and aggregation (`crypto/signature_aggregator.rs`) | votes by round, block and signature; current round | `add_vote`, `set_round`, `remove_round`, quorum queries | replays, second signatures, unknown authors, window edges | quorums are made of distinct known authors |
| round manager (`round_manager/mod.rs`) and round state (`state/round_state.rs`) | round, proposal, certificate, and the three above | `process_proposal`, `try_vote_for_proposal`, `process_vote`, `process_timeout`, `start_round` | rounds certified out of order; aggregation failing half way; rounds started backwards | its parts agree; certificates have quorums; quorums get certified |
| timeout certificates (`timeout/two_chain.rs`) | a timeout, a certificate over several | `verify`, `allows_advance`, `effective_hqc_round`, serialisation | consecutive timeouts with validators behind; the certified timeout is not serialised | every certificate justifies the round it leads to |
| pacemaker (`liveness/pacemaker.rs`) | current round, highest ordered round | `enter_new_round`, `record_ordered_round`, timeouts | late, repeated, reordered certificates and timeouts | rounds never go down, no certificate is forgotten |
| proposer election (`liveness/proposer.rs`), proposal generator (`proposal/`) | validators, weights, reputations | `get_proposer`, `record_success`, `record_failure`, `reset`, `generate_proposal` | weights of zero, first round, ends of the scale | everybody proposes in proportion; scores follow what was recorded |
| engine and runtime (`consensus/mod.rs`, `consensus/runtime.rs`) | lifecycle state, running flag, message queue, a round manager, a pacemaker, a pipeline, an election | start, stop, shutdown, four `process_*` functions, `generate_proposal`, message handling | messages queued before and processed after a stop; calls past the runtime; stale certificates in a queue; three different rounds | a stopped engine is frozen; no certificate is lost; reports are true |
| pipeline, network (`pipeline/`, `network/`) | counters by stage and by result; registered handlers | `process_block`, `process_vote`, `process_message`, `route_message` | long mixed traffic | a block is counted in every stage |
| state sync (`consensus/state_sync.rs`) | status, current round, pending requests, received blocks, highest known round | `start_sync`, `take_next_request`, `add_sync_response`, `ready_blocks`, `cancel`, `reset` | partial, late, repeated, missing answers, and answers nobody asked for | blocks handed on once, in order, without gaps; catching up |
| reconfiguration (`consensus/reconfig.rs`) and epochs (`epoch_manager/mod.rs`) | status, epoch, validator set per epoch, events | `prepare_reconfig`, `begin_reconfig`, `update_progress`, `complete_reconfig`, `cancel`, `set_validator_set`, `process_block` | calls in any order, sets replaced in between, safety and round state following by separate calls | epochs advance one by one, each with a validator set whose quorums intersect, and start over |
| DAG store, driver, types (`dag/store.rs`, `driver.rs`, `types.rs`) | nodes by round and author, ordered or not; the driver's round and queue | `add_node`, `mark_ordered`, `prune_below`, `clear`, `add_pending`, `process_pending`, `enter_new_round` | equivocating authors; nodes that return after pruning | slots are stable; nothing stored is ordered twice |
| DAG ordering (`dag/ordering.rs`) | - | stubs | - | - |

Interactions: the engine owns a round manager, a pacemaker, a pipeline and an
election; the round manager owns round state, pending votes and safety rules, and
asks a `ValidatorVerifier` for voting powers; the runtime queues network messages
for the engine, but only certificates and timeouts reach it, and those only reach
the pacemaker. The reconfiguration handler owns the epoch manager. State sync, the
message handler and the DAG store stand alone; the recovery functions are called
by the host around votes. Nothing in the repository connects several validators:
the host of a cluster is written down in `Cluster`, from the examples in the
documentation of the round manager, and is external.

## 2. Modules

| module | models | kind |
|---|---|---|
| `MachineIntegers` | the values of `u64`, for any width | operators |
| `SafetyRules` | `SafetyStateData` and the functions on it, recovery's validation | operators |
| `TimeoutCertificates` | timeouts, timeout certificates, what serde keeps of them | operators |
| `RoundState` | the round state | operators |
| `PendingVotes` | the vote collector, the aggregator's quorum, voting powers | operators |
| `ProposerElection` | round robin, weighted election, reputation | operators |
| `Pacemaker`, `Pipeline` | the pacemaker; stages, verdicts and statistics of the pipeline | operators |
| `DurableVoting` | one validator voting, persisting, crashing, recovering | state machine |
| `RoundManager` | the round manager over `SafetyRules` and `PendingVotes` | state machine |
| `CertifiedChain` | what a cluster promises: certified blocks on certified parents, commits of blocks with a child | abstract specification |
| `Cluster` | several validators: `RoundState`, `PendingVotes`, `SafetyRules`, `TimeoutCertificates`, `ProposerElection` over a network | composition |
| `ElectionRounds` | a host asking both elections round by round, and recording outcomes | state machine |
| `Engine` | runtime and engine, composing `RoundManager` (by INSTANCE), `Pacemaker` and `Pipeline` | composition |
| `MessageFlow` | message handler, router and `Pipeline` | state machine |
| `Reconfig` | reconfiguration handler, epoch manager, validator sets | state machine |
| `EpochChange` | `Reconfig` with the safety state and the round state that follow it | composition |
| `StateSync` | state sync with unreliable peers | state machine |
| `DagTypes`, `DagStore`, `DagDriver` | nodes; the in-memory DAG; the driver's queue next to it | operators, state machine, composition |
| `OperatorLemmas` | lemmas on sums, maxima, remainders and folds, on voting power, the functions of the safety rules and the pipeline | proofs |
| `DurableVotingProofs`, `RoundManagerProofs`, `ClusterProofs`, `EngineProofs`, `StateSyncProofs`, `EpochChangeProofs` | the theorems about the state machine of that name | proofs |
| `ServiceProofs` | the theorems about `DagDriver`, `ElectionRounds` and `MessageFlow`, which share no variable | proofs |
| `MC_*` | instances for TLC | model checking |

### Conventions

* A fallible function is two operators: `XOk(..)` says when it returns `Ok`, the
  name without suffix gives the new state. A call that fails without changing
  anything is a stuttering step; a call that fails half way is an action of its
  own (`FormQuorumCertificateFails`, `PersistVoteFails`, the refusing branches of
  `ProcessProposal`, `RuntimeStart` and `RuntimeShutdown`).
* An `Option` is a set of at most one element.
* Rounds are `0..MaxU64`. `a + 1` wraps, as in a release build (in a debug build
  it panics and no state follows); `saturating_sub` saturates.
* Blocks, votes and certificates are records of the fields the code compares.
  Hashes, signatures and payloads are model values. Logging is left out.
* Operators named `X_Something` next to `X` are variants of `X` with a plausible
  defect; they are used to confirm that the properties notice it, and no
  specification uses them.

### State and actions

**DurableVoting.** `rules` is the state inside `TwoChainSafetyRules`, `disk` what
`save_safety_state` wrote. Voting is the sequence that the documentation of
`persist_safety_state` prescribes: `TryVote` (`try_vote_for_proposal`, which runs
without an await), `PersistVote` or `PersistVoteFails` (an error does not tell
whether the write reached the disk), `SendVote` or `SendVoteFails`. The sequence
holds the rules by `&mut`, so `SeeQc`, `SeeTc` and `SeeTimeout` happen only
outside it; `Crash` can cut it anywhere. `LoadSafetyRules` ends in the phase
`refused` when `validate_safety_state` rejects what is on disk. The history
`sent` holds all votes sent, `observed` the certified rounds seen.

**RoundManager.** `process_vote` is three actions by outcome: stored
(`AcceptVote`), quorum and certificate (`FormQuorumCertificate`: `observe_qc`,
store, `remove_round`), quorum but `aggregate()` or `from_votes()` failed
(`FormQuorumCertificateFails`: the vote stays). `VoteMsgs` is the set of votes in
the network; each can be delivered any number of times, in any order.
`StartRound` goes to any round, as the code allows. The epoch is 0 for ever: the
constructor ignores the configured one.

**Cluster.** `node[v]` is what one validator's round manager holds (round state,
pending votes, rules) and the last timeout certificate it built. Messages stay in
the sets `parent` (proposals), `votes` and `timeouts`, so they are lost, repeated
and reordered at will. `Propose` is the elected proposer's `generate_proposal`:
it names the certificate it has stored, of whatever round. `HandleProposal` asks
`should_commit` and then votes; `ReceiveVote` is `process_vote`; `StartNextRound`
is the host following its certificate. `SendTimeout` asks `safe_to_timeout` of the
rules, `AdvanceByTc` builds a certificate of a quorum of timeouts, verifies it,
hands it to `observe_tc` and starts the next round. A proposer proposes once for
a round, so a block is its round. `certified` is a history, and all validators
follow the code: there is no Byzantine behaviour in this module.

**CertifiedChain.** What an observer sees: `Propose` a block on a certified one,
`Certify` a proposed one, `Commit` one that has a child. `Cluster!ChainSpec` is
this specification with `committed` mapped to the union of what `should_commit`
returned anywhere.

**Engine.** `consensus_mut()` gives callers the engine inside the runtime, so the
engine's own operations are actions beside the runtime's. Its round manager never
leaves round 0, since nothing calls `start_round` or `process_timeout` on it; its
`process_proposal` runs the pipeline first and does not consult the safety rules.
`results` is what the last call about messages returned: a certificate that is
not above `highest_ordered_round` and a timeout of a round already left make the
call fail on a running engine, and `Report` says so. `Manager == INSTANCE
RoundManager` brings in the round manager's actions. `generate_proposal` returns
`None` on every path and changes nothing, so it is no action.

**ElectionRounds.** Powers, first round and default score are chosen at the start;
then a host asks both elections for one round after the other and reports
successes, failures and resets. Scores are counted in hundredths, the unit of the
code's constants. `panicked` records a division by zero.

**MessageFlow.** `process_message` of the handler with the pipeline behind it, and
the router, which answers `Ok(None)` whatever is registered.

**Reconfig, EpochChange.** Each call of the handler is an action with the code's
checks as guards. The transient `Completed` is not a state, `Failed` is never set.
`EpochChange` adds the safety state and the round state; `EnterSafetyEpoch` is the
host's call of `new_epoch` and `EnterRoundEpoch` that of `set_epoch`, in either
order, each some time after `complete_reconfig`. Nothing in the code compares the
epochs of the two, so that a host must not vote between the two calls
(`SameEpoch`): a vote of the old epoch would be recorded in the new one.

**DagStore, DagDriver.** A slot is a round and an author. The histories `log` and
`dropped` record what was ordered and removed. The driver keeps a round and a queue, whose nodes
`process_certified_node` drops; its own store is never written by the code.

**StateSync.** The host that carries requests and answers is external: `asked`
holds the requests taken, `Answers(req)` what honest peers may send for one (any
sequence of its rounds, so that `verify_sequential` has something to refuse).
Answered requests may be answered again. `add_sync_response` matches an answer
with no request, so `StrayAnswer`, the step of a faulty peer, brings any sequence
of rounds, the empty one and rounds the validator had from the start included;
`LoseRequest` loses a request. `faults` counts these two, and the properties that
need honest peers say `faults = 0`.

## 3. What TLC checks

### Runs that pass

| run | distinct states | what it shows |
|---|---|---|
| `durable_voting` | 2.0 M | `SentVotesAreDurable`, `VotesNeverGoBack`: no crash, failed write or failed send makes a validator forget a vote or vote for an older round. `DiskNeverRegresses`; `PreferredIsTwoChain`: the chain rounds are real, with gaps, disorder and overflow. `IInv`: the inductive invariant of the proof |
| `round_manager` | 97 k | `QcsHaveQuorum`, `OneChainIsHighestQc`, `NoQuorumLeftPending`, `IInv` (the parts of the manager agree), and under fairness `QuorumsGetCertified` |
| `cluster` | 180 k | `ChainSpec`: the cluster implements `CertifiedChain`. `QuorumsRemember`, `OneChainIsCertified`: what a quorum voted for and what a validator takes for certified is so everywhere. `TcsAllowAdvance`: consecutive timeouts always justify each other. `CommitsWithoutTimeouts` under fairness |
| `proposers` | 167 k | `RoundRobinIsFair`, `WeightedIsProportional`, `PanicsOnlyWithoutPower`: both elections against a reference for all small assignments of power. `ReputationWithinRecord`: clamped scores stay within what the recorded outcomes allow |
| `engine` | 301 k | `PacemakerFollowsMessages`: whatever the order, the pacemaker has the highest certificate accepted and is past every timeout. `ReportsAreTrue`: what a call reports is so when it returns; a repeated or overtaken message is never reported as progress, and a failure has one of three reasons. `FlagMatchesEngine`, `StoppedIsFrozen` |
| `reconfig` | 126 k | `TransitionsAreSound`: the next epoch is the one prepared, has a validator set, and its quorums share more than a third of its power. `EpochStartsOver`, whichever of the two calls that follow comes first, and under fairness `ReconfigEnds` |
| `services` | 998 k | `SlotsAreStable`, `OrderedOnceWhileStored` of the DAG store; `PipelineCountsVisits` of the message layer |
| `state_sync` | 59 k | `DeliveredIsChain` and `RequestsFitBatch`, whatever peers do: after a stray answer requests may go back to rounds the validator had from the start, but still fit a batch. With honest peers `NeverStuck`, and under fairness `EventuallyCatchesUp` |

`TypeOK` of `DurableVoting` and `RoundManager` is part of their `IInv`, that of
`Reconfig` part of `TransitionsAreSound`. The other modules state theirs as well,
for the proofs to start from; they hold on the same instances.

### Runs that refute what the repository says

| run | what the code does |
|---|---|
| `double_vote` | Two blocks of one round both get a vote: `try_vote_for_proposal` and `record_vote` refuse only *lower* rounds. `state.rs` says that `last_voted_round` prevents double-voting |
| `one_chain` | `one_chain_round <= preferred_round` (an invariant according to `state.rs`) breaks as soon as a certificate skips a round; `validate_safety_state` then refuses what this validator wrote, and it cannot restart |
| `forks` | `safe_to_vote` takes the block's round minus one for the round of its certificate, and `should_commit` commits the parent a proposal names whenever the round below was certified. After a timeout certificate two validators, both following the code, commit blocks of two branches. `two_chain.rs` says that no forks can occur |
| `timeout_advance` | `process_timeout` succeeds only in a round that already has a certificate: in the round after the last certified one, which a timer is for, `safe_to_timeout` refuses. `round_manager/mod.rs` says that it advances to the next round when a timeout occurs |

### Other differences between comments and code

Met while modelling; the modules follow the code.

* Safety rules and round manager: a block that skips a round passes the 2-chain
  rule of `safe_to_vote`, for the same reason as in `forks`. As `process_timeout`
  does not leave a round whose proposer failed, the host of `Cluster` asks
  `safe_to_timeout` for the round itself. `get_highest_quorum_cert` returns the
  last certificate formed, not the highest. `has_quorum_certificate` is true of
  every past round without pending votes. `can_form_quorum` counts a validator
  once for each of its signatures, as does `has_quorum` of a validator set for a
  voter listed twice. Certificates seen out of order can complete a 2-chain that
  `preferred_round` does not show.
* Epochs: the round manager's epoch is 0 whatever is configured. `new_epoch`
  keeps `preferred_round` and resets the other rounds, so that a state saved right
  after an epoch change is refused at a restart once `preferred_round` exceeds 100.
  `begin_reconfig` refuses an empty validator set, but `set_validator_set` can
  empty the set afterwards, and `complete_reconfig` enters the epoch all the same.
  `begin_reconfig` does not compare the epoch of the set.
* Engine and runtime: proposals and votes that reach the runtime are acknowledged
  and dropped. The election's default first round is 1 and the engine's round
  stays 0, so with the defaults `generate_proposal` finds no proposer; it would
  not build a proposal for one either. `initial_round` and `max_rounds_per_epoch`
  of `ConsensusConfig` are not read. `process_qc` raises `highest_ordered_round`
  and no round of the engine, though its comment says that it advances to the next
  round; `generate_proposal` elects for the round manager's round, which never
  moves, while timeouts move the pacemaker.
* Pacemaker: the number of rounds without progress is converted with `as u32`
  before it is capped, so that a gap of 2^32 rounds, which one timeout can make,
  has the base timeout; the comment gives the formula without the cut.
* Elections: the wrapper described as weighing proposers by reputation returns
  what its base election returns. A weighted election of total weight 0 divides by
  zero.
* Network: `route_message` never calls a handler.
* Timeout certificates: one that was stored or sent comes back without its
  timeout and fails `verify()` (last part of `TcsAllowAdvance`).
* State sync: a sync completes with rounds missing below its target, and stores
  blocks again that were handed on. An answer is matched with no request, and its
  own epoch is the one expected, so that blocks of any epoch are kept, against the
  comment of `add_sync_response`. The timeout and the number of retries of the
  configuration are never read: after a lost request or an answer without blocks a
  sync stays in progress until the caller cancels it.
* DAG: `add_node` compares the round with nothing, though its comment promises an
  error below the lowest round. Pruned nodes come back and can be ordered again;
  `OrderedOnceWhileStored` exempts exactly those.

### Bounds

* `durable_voting`: rounds up to 4 = `MaxU64`, so the overflow of
  `one_chain_round + 1` is reached; two blocks compete in round 2, one block
  skips a round; certificates of rounds 1, 2 and 4 leave a gap; `EpochMargin` and
  `PreferredLead` stand for 1000 and 100 and are small enough to be hit.
* `round_manager`: powers 2, 1, 1 (quorum 3), so that one validator counted twice
  would make a quorum; two rounds with votes out of four, so that the window of
  one buffered round drops some; one double signer, one unknown author, one vote
  of another epoch.
* `cluster`: two validators of power 1, so that each certificate and each timeout
  certificate needs both, and three rounds: two timeouts in a row, a proposal on
  an old certificate, and a commit are possible. `forks` needs a fourth round.
* `proposers`: three validators with every power from 0 to 2, seven rounds, one
  more than the largest total, so that shares are counted from several first
  rounds; scores that start 15 hundredths above the lower end or 1 below the upper
  one; one author the tracker does not know.
* `engine`: two validators, certificates of rounds 1 and 2, timeouts of rounds 1
  and `u64::MAX`, a proposal for the messages that move nothing; two queued
  messages are enough to reorder and to repeat.
* `reconfig`: epochs 0 to 2 = `u64::MAX`: two transitions, and the wrap behind the
  last epoch; sets of three equal validators (a total that is a multiple of
  three), of powers 4 and 1, and of none.
* `services`: two rounds of one author with a node of each of two epochs for each
  slot, an unknown author, three ordered nodes, one node in the driver's queue
  (`MaxPending`); two messages of six kinds and a handler for one of them, as the
  counters only grow. DAG and message layer share no state: the run has both to
  check them at once, not for the order of their steps.
* `state_sync`: from round 1 three rounds in batches of two: two requests and a gap
  are possible, and rounds 0 and 1 can be sent again. One step of a faulty peer
  (`MaxFaults`), with an answer of up to three rounds (`MaxAnswer`), at any time:
  it is what makes the difference, and everything after it is explored.
  `MaxPending` bounds the queue of requests; a call that would push past it is not
  taken. All blocks have one epoch, as nothing compares epochs.

### Fairness

The library has no scheduler of its own, so fairness speaks of the host and the
network, and only where the property is about them.

* `RoundManager!FairSpec`: every vote that can be stored is delivered in the end
  (weak fairness), and the timer goes on firing. Nothing is assumed of
  `start_round` or of proposals.
* `Cluster!FairSpec`: elected proposers propose, proposals are handled and hosts
  start the rounds their certificates open (weak fairness); a vote that can be
  stored again and again is stored (strong fairness, since the window of buffered
  rounds may move in between). Nothing is assumed of timers;
  `CommitsWithoutTimeouts` speaks of behaviours in which none fires.
* `StateSync!FairSpec`: requests are taken; a peer that is asked again and again
  answers in full (strong fairness, since a sync may end and begin between; a
  request that was lost is not among those asked);
  ready blocks are taken; a sync is started when `needs_sync` says so. Syncs
  cancelled for ever are excluded in the property, not by fairness.
* `EpochChange!HostSpec`: the caller of a reconfiguration reports all validators
  as processed in the end and goes on asking for completion. Strong fairness of
  the latter is needed because progress may be reported back and forth.

## 4. What is proved

For every value of the constants that meets their assumptions: every width of
`u64`, set of proposals, certificates, votes, messages, validators and powers,
and every bound of the model.

| theorem | states |
|---|---|
| `DurableVotingProofs!IInvHolds` | the inductive invariant, type correctness included |
| `DurableVotingProofs!Durability` | `[]SentVotesAreDurable` |
| `DurableVotingProofs!NoVoteGoesBack` | `VotesNeverGoBack` |
| `DurableVotingProofs!DiskIsMonotone` | `DiskNeverRegresses` |
| `DurableVotingProofs!TwoChainIsReal` | `[]PreferredIsTwoChain` |
| `RoundManagerProofs!IInvHolds` | the inductive invariant |
| `RoundManagerProofs!CertificatesHaveQuorum` | `[]QcsHaveQuorum` |
| `RoundManagerProofs!OneChainTracksQcs` | `[]OneChainIsHighestQc` |
| `RoundManagerProofs!QuorumsAreUsed` | `[]NoQuorumLeftPending` |
| `ClusterProofs!Invariance` | the inductive invariant |
| `ClusterProofs!CertificatesAreBacked` | `[]QuorumsRemember` |
| `ClusterProofs!OneChainFollowsCertificates` | `[]OneChainIsCertified` |
| `ClusterProofs!TimeoutCertificatesJustify` | `[]TcsAllowAdvance` |
| `ClusterProofs!Refinement` | `ChainSpec`: the cluster implements `CertifiedChain` |
| `EngineProofs!Invariance` | the inductive invariant |
| `EngineProofs!PacemakerIsUpToDate` | `[]PacemakerFollowsMessages` |
| `EngineProofs!NoFalseReport` | `[]ReportsAreTrue` |
| `EngineProofs!FlagAgrees` | `FlagMatchesEngine` |
| `EngineProofs!StoppedEngineIsFrozen` | `StoppedIsFrozen` |
| `EngineProofs!EngineCertificates` | `[]QcsHaveQuorum` of the engine's round manager |
| `EngineProofs!TypeCorrect` | `[]TypeOK`, the pipeline and the round manager included |
| `StateSyncProofs!Invariance` | the inductive invariant |
| `StateSyncProofs!BlocksFormAChain` | `[]DeliveredIsChain` |
| `StateSyncProofs!RequestsStayInBatch` | `[]RequestsFitBatch` |
| `StateSyncProofs!NoLostWakeUp` | `[]NeverStuck` |
| `EpochChangeProofs!Invariance` | the inductive invariant |
| `EpochChangeProofs!ReconfigurationIsSound` | `[]TransitionsAreSound` |
| `EpochChangeProofs!EpochsStartOver` | `[]EpochStartsOver` |
| `ServiceProofs!Invariance` | the inductive invariant of `DagDriver` |
| `ServiceProofs!OrderedOnce` | `[]OrderedOnceWhileStored` |
| `ServiceProofs!FirstNodeWins` | `SlotsAreStable` |
| `ServiceProofs!ElectionInvariance` | `[]ElectionIInv`, the inductive invariant of `ElectionRounds` |
| `ServiceProofs!RoundRobinTakesTurns` | `[]RoundRobinIsFair` |
| `ServiceProofs!SharesFollowPower` | `[]WeightedIsProportional` |
| `ServiceProofs!OnlyZeroPowerPanics` | `[]PanicsOnlyWithoutPower` |
| `ServiceProofs!ScoresFollowOutcomes` | `[]ReputationWithinRecord` |
| `ServiceProofs!FlowInvariance` | `[]FlowIInv`, the inductive invariant of `MessageFlow` |
| `ServiceProofs!VisitsAreCounted` | `[]PipelineCountsVisits` |

Each inductive invariant is the definition `IInv` of the component's module
(`ElectionIInv` and `FlowIInv` in the modules that share a proof module); TLC finds each of them true on the instance of the component's run, two of them as an
invariant of the run.

*Lemmas on operators.* Voting power is `MapThenSumSet`, a queue drained in one
call is `FoldLeft`; both are recursive functions that the library defines by
`CHOOSE`. `OperatorLemmas` shows that these functions exist (`UnfoldsExists`,
`FoldsExists`) and what they compute: sums are monotone, add up over disjoint
sets and follow an enumeration without repetition; folds stay in their type.
Induction is over the subsets of a finite set and has a set in the place of the
predicate (`SubsetInduction`, and `PrefixInduction` along a sequence), which a
first-order prover can be given. The operation of a fold is given as a function,
so `FoldsExists` is shown once; `HandlingUnfolds` and `VisitsUnfold` carry it over
to the two folds of the model. The same module has
what each function of the safety rules preserves and bounds, and what
`process_block` counts (`BlockVisitsAllStages`).

*Voting.* `SentVotesAreDurable` is not inductive: a write may replace
the disk by a memory copy, so memory must cover the disk (`MemoryCoversDisk`); a
send adds the vote in flight, so that vote must be on disk by then
(`VoteInFlightIsCovered`); a restart copies the disk, which is why it must cover
what was sent in the first place. `IInv` is the conjunction of these with the
facts on chain rounds. `VotesNeverGoBack` is an action property and follows from
`IInv` in the state before the step. `PreferredIsTwoChain` needs
`OneChainIsObserved`: when `observe_qc` finds `qc_round = one_chain_round + 1`,
the lower round was certified because `one_chain_round` was; at `u64::MAX` the sum
wraps to 0 and `preferred_round` is not raised.

*Round manager.* A certificate is formed from pending votes, so the
pending votes must be votes received in the manager's epoch
(`PendingWereReceived`); the set of their authors known to the verifier is the
witness for `QcsHaveQuorum`, and later votes only add to what was received.
`NoQuorumLeftPending` is inductive next to
`IInv`: a vote changes the quorum of its own block only, and every other step
takes votes away, which makes no quorum because power is monotone.

*Cluster.* A certificate counts the votes that one validator received; that their
authors still remember them is `VotesAreRemembered`, and `QuorumsRemember` follows
since `last_voted_round` never falls. `one_chain_round` also grows through the
`hqc_round` of timeouts, so these have to be certified (`CertificatesAreKnown`),
and a timeout has to be justified by the certificate or the timeout certificate it
tells of, which is what `AllowsAdvance` reads from the highest of them. In the
refinement a proposal maps to `Propose` because the stored certificate is
certified, a certificate to `Certify` because its block was proposed, and
`HandleProposal` to `Commit` or a stutter: the block it commits is the parent of
the one at hand.

*Engine.* The heart is `SoFar`, an invariant of the loop of
`process_pending_messages`: after k messages every report so far is true of the
pacemaker as it is then, the reported successes of one kind rise, and a running
engine's pacemaker has the maximum over the certificates it took before the call
and in the first k messages, and is past their timeouts. Reports stay true because
the pacemaker never goes back: a certificate refused as stale stays covered. A
timeout of round `u64::MAX` wraps to round 0 and moves nothing.
`FlagMatchesEngine` needs that the engine is never in `CatchingUp`, from which
`start` would refuse. What is proved of the round manager is not proved again:
`EngineProofs` instantiates `RoundManagerProofs`, shows that the steps the engine
takes are steps of that instance (`ImplementsProvedManager`), and applies its
theorems, which gives `EngineCertificates`; `TypeCorrect` takes the round manager's
types from there and those of the pipeline from `BlockVisitsAllStages`.

*State sync.* `DeliveredIsChain` and the size of the requests are proved for all
answers: the request that follows an answer fits the batch because the highest
round held is below the target when it is made. What holds with honest peers only
is guarded by `faults = 0`: that no request goes back to a round held from the start
needs that no such block is held either (`ReceivedIsNew`), and `NeverStuck` needs
that an answer has blocks and that the last one is final.

*Reconfiguration.* `TransitionsAreSound` is inductive. That two quorums share more
than a third of the power is shown for every validator set from the threshold
`2 * total / 3 + 1`, for voters given as a sequence without repetition, as
`has_quorum` counts them (`QuorumsIntersect`). `EpochStartsOver` needs that no vote
was cast in an epoch ahead of the safety state's (`NoVoteAhead`): otherwise the
maximum over the votes of a new epoch would not start at 0. When `set_epoch` comes
before `new_epoch`, this rests on `SameEpoch`.

*DAG.* `OrderedOnceWhileStored` is inductive together with the types, which say
that a stored node is in its own slot: a slot in the order and not dropped is
stored as ordered, and `mark_as_ordered` refuses it.

*Elections.* The invariant that carries both fairness results is
`HistoriesFollowRounds`: entry i of each history is the election of round
`initialRound + i - 1`. Round robin elects by the remainder of the round; moving
an entry back to the last round of another validator is injective, and only the
first entry of a validator has nowhere to go, hence at most one turn more
(`RemaindersAreEven`). The weighted election takes the first validator whose
cumulated power exceeds `round % total`; cumulated powers are sums that grow with
the index, so each target below the total lies in the share of exactly one
validator (`ShareOfTarget`), and the fallback of `select_weighted_proposer` is
never reached. Any `total` consecutive rounds map one to one onto the remainders,
so a share of length n gets n of them (`WindowCount`). `ReputationWithinRecord`
is inductive, author by author: each bound is kept by `+1` and by `-10` with the
clamping that follows (`OutcomeStaysWithin`).

*Message layer.* The bound on the messages is on a sum over their types, of which
one message changes one term (`TotalGrows`). `PipelineCountsVisits` gives only the difference of two stages and
needs each of them (`StagesAreVisited`), and `process_block` as a fold over the
four stages of which none stops a block (`BlockVisitsAllStages`).

*Assumptions.* The named `ASSUME`s on constants only, which TLC evaluates in the
runs. Those that the proofs need are that there are finitely many validators,
that powers are natural numbers, that the list of proposers names nobody twice,
and the types of the rounds, messages and bounds.

*Only model-checked.* Liveness (`QuorumsGetCertified`, `CommitsWithoutTimeouts`,
`EventuallyCatchesUp`, `ReconfigEnds`), which needs fairness and ENABLED. Every
invariant, action property and refinement that a passing run checks is proved.

## 5. What is not modelled

* DAG ordering: every function of `OrderRule` returns an empty result, nothing
  calls it, and `get_anchor` always returns the first author. The driver's
  `process_certified_node`, `check_ordering` and `prune` do nothing to a store for
  the same reason; `DagDriver` models what is left, its round and its queue.
* Cryptography and serialisation: a signature is a value; the aggregate may fail.
  The one effect of serialisation that matters, the timeout that a certificate
  loses, is `OverTheWire`.
* Payloads, timestamps and transaction limits of the proposal generator; wall
  clock durations of the pacemaker, which nothing waits for; start times of epochs.
* Builders, accessors and queries, which change nothing.
* `Pacemaker::reset`, `check_timeout` (which answers false), `force_next_epoch`
  and `check_epoch_transition`, `is_buffered_round` and the aggregator's `clear`
  have no caller outside tests.
* The runtime's list of active tasks, which is never filled.

## 6. Plan

Done: all components that have behaviour, with their compositions and the
refinement of `CertifiedChain`; proofs of every safety property and of the
refinement. When the
code changes, these are the places to extend:

1. DAG ordering, once `OrderRule` returns something: `DagStore` has the slots it
   would read, and `OrderedOnceWhileStored` is what it would have to keep.
2. State sync, once answers are matched with requests: the epoch of a block and
   the sync it was asked for, which nothing compares today.
3. The engine, once certificates move its round manager and `generate_proposal`
   builds proposals: an action for the latter, the round of the election in its
   guard, and `ReportsAreTrue` should speak of the round manager's round too.
