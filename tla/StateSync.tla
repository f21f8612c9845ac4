----------------------------- MODULE StateSync -----------------------------
(***************************************************************************)
(* StateSync (consensus-core/src/consensus/state_sync.rs): how a validator *)
(* that fell behind asks its peers for blocks, collects the answers and    *)
(* hands the blocks on in round order.  The caller that moves requests to  *)
(* the network and answers back is not in the repository; here answers to  *)
(* the requests taken arrive late, in part, more than once or out of       *)
(* order.  Faulty peers also lose requests, and send any blocks in any     *)
(* epoch, asked for or not; what needs honest peers says so.               *)
(*                                                                         *)
(* A block is its round and its epoch.  The counters that the status only  *)
(* reports (current_round and blocks_received of InProgress, blocks_synced *)
(* of Completed) are left out: nothing in the code reads them.             *)
(***************************************************************************)
EXTENDS Integers, FiniteSets, FiniteSetsExt, Sequences, SequencesExt

CONSTANTS
    FirstRound,     \* current_round given to StateSync::new
    MaxRound,       \* bound on the rounds of the chain
    Targets,        \* rounds that peers announce and start_sync is called with
    MaxBatch,       \* max_batch_size
    SyncEpochs,     \* epochs passed to start_sync
    Epochs,         \* epochs found in answers
    MaxPending,     \* bound on the requests waiting to be taken
    MaxAnswer,      \* bound on the blocks of an answer nobody asked for
    MaxFaults       \* bound on the steps of faulty peers

ASSUME StateSyncConstants ==
    /\ FirstRound \in Nat
    /\ MaxRound \in Nat /\ MaxRound > FirstRound
    /\ Targets \subseteq 0..MaxRound
    /\ MaxBatch \in Nat \ {0}
    /\ SyncEpochs \subseteq Epochs
    /\ MaxPending \in Nat \ {0}
    /\ MaxAnswer \in Nat
    /\ MaxFaults \in Nat

VARIABLES
    status,      \* SyncStatus without its fields; Failed is never set
    target,      \* target_round of the last start_sync, kept once Completed
    current,     \* current_round
    highest,     \* highest_known_round, a set of at most one round
    requests,    \* pending_requests
    received,    \* received_blocks: round -> epoch of its block
    asked,       \* requests taken by the caller that peers may still answer
    delivered,   \* history: blocks handed on by ready_blocks
    faults       \* history: how often a peer lost a request or sent what nobody asked for

vars == <<status, target, current, highest, requests, received, asked, delivered, faults>>

Rounds == 0..MaxRound

\* SyncStatus::is_in_progress.
IsInProgress == status = "InProgress"

SyncRequest(start, end, epoch) == [start |-> start, target |-> end, epoch |-> epoch]

CoversRound(req, r) == r >= req.start /\ r <= req.target

\* What may arrive in a SyncResponse.
Responses == [rounds : SeqOf(Rounds, MaxAnswer), epoch : Epochs, is_final : BOOLEAN]

\* Answers of honest peers to req: some of its rounds in some order, in any
\* epoch.  A peer that sends the last round asked for flags the batch as
\* final; one that has fewer blocks may do so too.
Answers(req) ==
    LET covered == {r \in Rounds : CoversRound(req, r)}
    IN  {a \in [rounds : SeqOf(covered, Cardinality(covered)) \ {<<>>},
                epoch : Epochs, is_final : BOOLEAN] :
            req.target \in ToSet(a.rounds) => a.is_final}

\* The answer of a peer that has all blocks asked for.
FullAnswer(req) ==
    [rounds |-> [i \in 1..(req.target - req.start + 1) |-> req.start + i - 1],
     epoch |-> req.epoch, is_final |-> TRUE]

VerifySequential(rounds) ==
    \A i \in 1..(Len(rounds) - 1) : rounds[i + 1] = rounds[i] + 1

Init ==
    /\ status = "Idle"
    /\ target = 0
    /\ current = FirstRound
    /\ highest = {}
    /\ requests = <<>>
    /\ received = <<>>
    /\ asked = {}
    /\ delivered = <<>>
    /\ faults = 0

\* start_sync; neither the pending requests nor the received blocks of an
\* earlier sync are cleared.
StartSync(to, epoch) ==
    /\ ~IsInProgress
    /\ target' = to
    /\ \/ /\ to <= current
          /\ status' = "Completed"
          /\ UNCHANGED requests
       \/ /\ to > current
          /\ Len(requests) < MaxPending
          /\ status' = "InProgress"
          /\ requests' = Append(requests,
                SyncRequest(current + 1, current + Min({to - current, MaxBatch}), epoch))
    /\ UNCHANGED <<current, highest, received, asked, delivered, faults>>

\* take_next_request pops the newest one.
TakeNextRequest ==
    /\ requests # <<>>
    /\ asked' = asked \cup {Last(requests)}
    /\ requests' = Front(requests)
    /\ UNCHANGED <<status, target, current, highest, received, delivered, faults>>

Merge(a) ==
    [r \in DOMAIN received \cup ToSet(a.rounds) |->
        IF r \in ToSet(a.rounds) THEN a.epoch ELSE received[r]]

\* Mutant: the next batch has one round too many.
NextRequest_OneMore(top, epoch) ==
    SyncRequest(top + 1, Min({target, top + MaxBatch + 1}), epoch)

NextRequest(top, epoch) == SyncRequest(top + 1, Min({target, top + MaxBatch}), epoch)

\* The three outcomes of an accepted answer: nothing held yet, the target
\* reached, or more to fetch.
NothingReceived(got) == got = <<>> /\ UNCHANGED <<status, requests>>

TargetReached(got) ==
    /\ got # <<>>
    /\ Max(DOMAIN got) >= target
    /\ status' = "Completed"
    /\ UNCHANGED requests

\* Mutant: no request for the next batch.
MoreToFetch_NoRequest(got, a) ==
    /\ got # <<>>
    /\ Max(DOMAIN got) < target
    /\ UNCHANGED <<status, requests>>

MoreToFetch(got, a) ==
    /\ got # <<>>
    /\ Max(DOMAIN got) < target
    /\ UNCHANGED status
    /\ \/ a.is_final /\ Len(requests) < MaxPending
          /\ requests' = Append(requests, NextRequest(Max(DOMAIN got), a.epoch))
       \/ ~a.is_final /\ UNCHANGED requests

\* An answer is matched with no request: any sequential rounds are taken.
AddSyncResponse(a) ==
    /\ IsInProgress
    /\ VerifySequential(a.rounds)
    /\ LET got == Merge(a)
       IN  /\ received' = got
           /\ NothingReceived(got) \/ TargetReached(got) \/ MoreToFetch(got, a)
    /\ UNCHANGED <<target, current, highest, delivered>>

\* A request is answered; after the final batch it may be answered again (a
\* duplicate, another peer) or not.
Answer(req, a) ==
    /\ req \in asked
    /\ AddSyncResponse(a)
    /\ asked' \in IF a.is_final THEN {asked, asked \ {req}} ELSE {asked}
    /\ UNCHANGED faults

\* A faulty peer answers without blocks, with rounds nobody asked for, or in
\* the name of a peer that was asked.
StrayAnswer(a) ==
    /\ faults < MaxFaults
    /\ AddSyncResponse(a)
    /\ faults' = faults + 1
    /\ UNCHANGED asked

\* A request, or its answer, is lost.
LoseRequest(req) ==
    /\ faults < MaxFaults
    /\ asked' = asked \ {req}
    /\ faults' = faults + 1
    /\ UNCHANGED <<status, target, current, highest, requests, received, delivered>>

\* The end of the unbroken run of received rounds after current.
LastReady == Max({r \in Rounds : r >= current /\ (current + 1)..r \subseteq DOMAIN received})

\* Mutant: current_round is not moved.
ReadyBlocks_KeepsRound ==
    /\ LastReady > current
    /\ delivered' = delivered \o
          [i \in 1..(LastReady - current) |->
              [round |-> current + i, epoch |-> received[current + i]]]
    /\ received' = Restrict(received, DOMAIN received \ ((current + 1)..LastReady))
    /\ UNCHANGED <<status, target, current, highest, requests, asked, faults>>

\* ready_blocks.
ReadyBlocks ==
    /\ LastReady > current
    /\ delivered' = delivered \o
          [i \in 1..(LastReady - current) |->
              [round |-> current + i, epoch |-> received[current + i]]]
    /\ received' = Restrict(received, DOMAIN received \ ((current + 1)..LastReady))
    /\ current' = LastReady
    /\ UNCHANGED <<status, target, highest, requests, asked, faults>>

UpdateHighestKnownRound(r) ==
    /\ highest' = {Max(highest \cup {r})}
    /\ UNCHANGED <<status, target, current, requests, received, asked, delivered, faults>>

NeedsSync == ~IsInProgress /\ \E h \in highest : h > current

Cancel ==
    /\ status' = "Idle"
    /\ requests' = <<>>
    /\ received' = <<>>
    /\ UNCHANGED <<target, current, highest, asked, delivered, faults>>

Reset ==
    /\ status' = "Idle"
    /\ requests' = <<>>
    /\ received' = <<>>
    /\ highest' = {}
    /\ UNCHANGED <<target, current, asked, delivered, faults>>

Next ==
    \/ \E to \in Targets, e \in SyncEpochs : StartSync(to, e)
    \/ TakeNextRequest
    \/ \E req \in asked : \E a \in Answers(req) : Answer(req, a)
    \/ \E a \in Responses : StrayAnswer(a)
    \/ \E req \in asked : LoseRequest(req)
    \/ ReadyBlocks
    \/ \E r \in Targets : UpdateHighestKnownRound(r)
    \/ Cancel
    \/ Reset

Spec == Init /\ [][Next]_vars

-----------------------------------------------------------------------------
(***************************************************************************)
(* Properties.                                                             *)
(***************************************************************************)
Requests == [start : Rounds, target : Rounds, epoch : Epochs]

\* The variables stay in their types.
TypeOK ==
    /\ status \in {"Idle", "InProgress", "Completed"}
    /\ target \in Rounds
    /\ current \in Rounds
    /\ highest \subseteq Rounds /\ \A g, h \in highest : g = h
    /\ requests \in Seq(Requests) /\ Len(requests) <= MaxPending
    /\ DOMAIN received \subseteq Rounds
    /\ \A r \in DOMAIN received : received[r] \in Epochs
    /\ asked \subseteq Requests
    /\ delivered \in Seq([round : Rounds, epoch : Epochs])
    /\ faults \in 0..MaxFaults

\* ready_blocks hands on every round once, in order and without gaps,
\* whatever answers arrive, and whatever syncs were cancelled meanwhile;
\* current_round is the last round handed on.
DeliveredIsChain ==
    /\ \A i \in DOMAIN delivered : delivered[i].round = FirstRound + i
    /\ current = FirstRound + Len(delivered)

FitsBatch(req) ==
    /\ req.start <= req.target
    /\ req.target - req.start < MaxBatch

\* Every request asks for at least one round and at most a batch, whatever
\* answers arrive, also when a late one drags the highest round held back
\* after a drain.  As long as no peer was faulty none asks for a round the
\* validator had from the start.
RequestsFitBatch ==
    \A req \in ToSet(requests) \cup asked :
        FitsBatch(req) /\ (faults = 0 => req.start > FirstRound)

\* No lost wake-up: while a sync is in progress some request is out or waits
\* to be taken, as long as no peer was faulty; nothing else than an answer or a
\* cancel could ever end the sync.
NeverStuck ==
    faults = 0 /\ IsInProgress => requests # <<>> \/ asked # {}

\* Honest peers send no block of a round the validator had from the start.
ReceivedIsNew == faults = 0 => \A r \in DOMAIN received : r > FirstRound

\* The inductive invariant of the proofs.
IInv ==
    /\ TypeOK
    /\ ReceivedIsNew
    /\ DeliveredIsChain
    /\ RequestsFitBatch
    /\ NeverStuck

\* Fairness of the environment: requests are taken, a peer asked again and
\* again answers in full, ready blocks are taken, and the caller starts a
\* sync to the highest known round whenever needs_sync says so.
FairSpec ==
    /\ Spec
    /\ WF_vars(TakeNextRequest)
    /\ \A req \in {q \in Requests : FitsBatch(q)} :
          SF_vars(Answer(req, FullAnswer(req)))
    /\ WF_vars(ReadyBlocks)
    /\ WF_vars(NeedsSync /\ \E h \in highest, e \in SyncEpochs : StartSync(h, e))

\* A validator whose peers answer and that knows of a higher round catches up
\* with it, unless its syncs are cancelled or reset for ever.
EventuallyCatchesUp ==
    [](faults = 0) /\ <>[][~Cancel /\ ~Reset]_vars =>
        \A r \in Targets : (r \in highest) ~> (current >= r \/ highest = {})
=============================================================================
