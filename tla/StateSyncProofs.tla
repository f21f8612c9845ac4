-------------------------- MODULE StateSyncProofs --------------------------
(***************************************************************************)
(* State sync, for any chain, batch size and targets: blocks are handed on *)
(* as one chain and requests fit a batch, whatever peers send, and no      *)
(* wake-up is lost while they are honest.                                  *)
(***************************************************************************)
EXTENDS StateSync, OperatorLemmas

-----------------------------------------------------------------------------
(***************************************************************************)
(* Sequences, sets of rounds and minima.                                   *)
(***************************************************************************)

\* Pushing on pending_requests, and popping from it.
LEMMA AppendFacts ==
    ASSUME NEW R, NEW s \in Seq(R), NEW x \in R
    PROVE  /\ Append(s, x) \in Seq(R) /\ Append(s, x) # <<>>
           /\ Len(Append(s, x)) = Len(s) + 1
           /\ ToSet(Append(s, x)) = ToSet(s) \cup {x}
  <1>1. /\ Append(s, x) \in Seq(R) /\ Append(s, x) # <<>>
        /\ Len(Append(s, x)) = Len(s) + 1
        /\ DOMAIN Append(s, x) = 1..(Len(s) + 1) /\ DOMAIN s = 1..Len(s) /\ Len(s) \in Nat
        /\ \A i \in 1..Len(s) : Append(s, x)[i] = s[i]
        /\ Append(s, x)[Len(s) + 1] = x
    OBVIOUS
  <1>2. 1..(Len(s) + 1) = 1..Len(s) \cup {Len(s) + 1}
    BY <1>1
  <1> QED
    BY <1>1, <1>2 DEF ToSet

\* Taking a request from the end of the queue.
LEMMA FrontFacts ==
    ASSUME NEW R, NEW s \in Seq(R), s # <<>>
    PROVE  /\ Front(s) \in Seq(R) /\ Len(Front(s)) = Len(s) - 1
           /\ Last(s) \in ToSet(s) /\ Last(s) \in R
           /\ ToSet(Front(s)) \subseteq ToSet(s)
  <1>1. Len(s) \in Nat /\ Len(s) > 0 /\ DOMAIN s = 1..Len(s)
    OBVIOUS
  <1>2. /\ Front(s) \in Seq(R) /\ Len(Front(s)) = Len(s) - 1
        /\ \A i \in 1..(Len(s) - 1) : Front(s)[i] = s[i]
    BY <1>1 DEF Front
  <1> QED
    BY <1>1, <1>2 DEF ToSet, Last

\* No blocks are received when no round is.
LEMMA EmptyDomain ==
    ASSUME NEW f, f = [x \in DOMAIN f |-> f[x]]
    PROVE  f # <<>> => DOMAIN f # {}
  OBVIOUS

\* What the assumptions on the constants say of rounds.
LEMMA RoundFacts ==
    /\ MaxRound \in Nat /\ FirstRound \in Nat /\ FirstRound < MaxRound /\ MaxBatch \in Nat \ {0}
    /\ Rounds \subseteq Nat /\ Targets \subseteq Rounds /\ SyncEpochs \subseteq Epochs
    /\ 0 \in Rounds /\ FirstRound \in Rounds
  BY StateSyncConstants DEF Rounds

\* A set of rounds has a largest one.
LEMMA MaxRoundFacts ==
    ASSUME NEW S \in SUBSET Rounds, S # {}
    PROVE  Max(S) \in S /\ \A r \in S : r <= Max(S)
  <1>1. 0 \in Int /\ MaxRound \in Int /\ Rounds \subseteq Int
    BY RoundFacts
  <1>2. IsFiniteSet(0..MaxRound)
    BY <1>1, FS_Interval
  <1>3. IsFiniteSet(S) /\ S \in SUBSET Int
    BY <1>1, <1>2, FS_Subset DEF Rounds
  <1> QED
    BY <1>3, MaxFacts

-----------------------------------------------------------------------------
(***************************************************************************)
(* The inductive invariant.                                                *)
(***************************************************************************)
\* StateSync::new.
LEMMA InitIInv == Init => IInv
  <1> SUFFICES ASSUME Init PROVE IInv
    OBVIOUS
  <1>1. requests \in Seq(Requests) /\ Len(requests) = 0 /\ ToSet(requests) = {}
    BY DEF Init, ToSet
  <1>2. delivered \in Seq([round : Rounds, epoch : Epochs]) /\ Len(delivered) = 0 /\ DOMAIN delivered = {}
    BY DEF Init
  <1>3. DOMAIN received = {}
    BY DEF Init
  <1>4. TypeOK
    BY <1>1, <1>2, <1>3, RoundFacts, StateSyncConstants DEF Init, TypeOK
  <1>5. DeliveredIsChain
    BY <1>2, RoundFacts DEF Init, DeliveredIsChain
  <1> QED
    BY <1>1, <1>3, <1>4, <1>5
    DEF Init, IInv, ReceivedIsNew, RequestsFitBatch, NeverStuck, IsInProgress

\* What RequestsFitBatch says of one request; f counts the steps of faulty peers.
Fits(f, req) == FitsBatch(req) /\ (f = 0 => req.start > FirstRound)

\* Every request made fits a batch, and asks for rounds above the first if the
\* highest round held is not below it.
LEMMA SyncRequestFacts ==
    ASSUME NEW top \in Nat, NEW to \in Rounds, NEW e \in Epochs, top < to,
           NEW f, f = 0 => FirstRound <= top
    PROVE  /\ SyncRequest(top + 1, Min({to, top + MaxBatch}), e) \in Requests
           /\ Fits(f, SyncRequest(top + 1, Min({to, top + MaxBatch}), e))
           /\ top + Min({to - top, MaxBatch}) = Min({to, top + MaxBatch})
  <1>1. /\ to \in Nat /\ to <= MaxRound /\ MaxBatch \in Nat /\ MaxBatch > 0
        /\ MaxRound \in Nat /\ FirstRound \in Nat
    BY RoundFacts DEF Rounds
  <1>2. /\ Min({to, top + MaxBatch}) = IF to <= top + MaxBatch THEN to ELSE top + MaxBatch
        /\ Min({to - top, MaxBatch}) = IF to - top <= MaxBatch THEN to - top ELSE MaxBatch
    BY <1>1, MinOfTwo
  <1>3. /\ Min({to, top + MaxBatch}) \in Rounds /\ top + 1 \in Rounds
        /\ top + 1 <= Min({to, top + MaxBatch})
        /\ Min({to, top + MaxBatch}) - (top + 1) < MaxBatch
    BY <1>1, <1>2 DEF Rounds
  <1> QED
    BY <1>1, <1>2, <1>3 DEF SyncRequest, Requests, Fits, FitsBatch

\* start_sync makes one request that fits the batch, or is done at once.
LEMMA StartSyncKeepsIInv ==
    ASSUME IInv, NEW to \in Targets, NEW e \in SyncEpochs, StartSync(to, e)
    PROVE  IInv'
  <1>1. /\ target' = to /\ to \in Rounds /\ e \in Epochs
        /\ UNCHANGED <<current, highest, received, asked, delivered, faults>>
    BY RoundFacts DEF StartSync
  <1>2. CASE to <= current
    <2>1. status' = "Completed" /\ UNCHANGED requests
      BY <1>1, <1>2, RoundFacts DEF StartSync, IInv, TypeOK
    <2> QED
      BY <1>1, <2>1
      DEF IInv, TypeOK, ReceivedIsNew, DeliveredIsChain, RequestsFitBatch, NeverStuck, IsInProgress
  <1>3. CASE to > current
    <2> DEFINE req == SyncRequest(current + 1, current + Min({to - current, MaxBatch}), e)
    <2>1. status' = "InProgress" /\ requests' = Append(requests, req) /\ Len(requests) < MaxPending
      BY <1>1, <1>3, RoundFacts DEF StartSync, IInv, TypeOK
    <2>2. current \in Nat /\ FirstRound <= current
      BY RoundFacts DEF IInv, TypeOK, DeliveredIsChain
    <2>3. current < to
      BY <1>1, <1>3, <2>2, RoundFacts
    <2>4. req \in Requests /\ Fits(faults, req)
      BY <1>1, <2>2, <2>3, SyncRequestFacts
    <2> HIDE DEF req
    <2>5. /\ requests' \in Seq(Requests) /\ requests' # <<>>
          /\ Len(requests') = Len(requests) + 1
          /\ ToSet(requests') = ToSet(requests) \cup {req}
      BY <2>1, <2>4, AppendFacts DEF IInv, TypeOK
    <2>6. Len(requests') <= MaxPending
      BY <2>1, <2>5, StateSyncConstants DEF IInv, TypeOK
    <2>7. RequestsFitBatch'
      BY <1>1, <2>4, <2>5 DEF IInv, RequestsFitBatch, Fits
    <2> QED
      BY <1>1, <2>1, <2>5, <2>6, <2>7
      DEF IInv, TypeOK, ReceivedIsNew, DeliveredIsChain, NeverStuck
  <1> QED
    BY <1>1, <1>2, <1>3, RoundFacts DEF IInv, TypeOK

\* A request that was taken is waited for.
LEMMA TakeNextRequestKeepsIInv ==
    ASSUME IInv, TakeNextRequest
    PROVE  IInv'
  <1>1. /\ requests # <<>> /\ asked' = asked \cup {Last(requests)} /\ requests' = Front(requests)
        /\ UNCHANGED <<status, target, current, highest, received, delivered, faults>>
    BY DEF TakeNextRequest
  <1>2. requests \in Seq(Requests) /\ Len(requests) <= MaxPending
    BY DEF IInv, TypeOK
  <1>3. /\ requests' \in Seq(Requests) /\ Len(requests') = Len(requests) - 1
        /\ Last(requests) \in ToSet(requests) /\ Last(requests) \in Requests
        /\ ToSet(requests') \subseteq ToSet(requests)
    BY <1>1, <1>2, FrontFacts
  <1>4. Len(requests') <= MaxPending
    BY <1>2, <1>3, StateSyncConstants
  <1>5. TypeOK'
    BY <1>1, <1>3, <1>4 DEF IInv, TypeOK
  <1>6. RequestsFitBatch'
    BY <1>1, <1>3 DEF IInv, RequestsFitBatch
  <1> QED
    BY <1>1, <1>5, <1>6 DEF IInv, ReceivedIsNew, DeliveredIsChain, NeverStuck, IsInProgress

\* An honest answer is not empty and holds rounds its request asked for.
LEMMA AnswerFacts ==
    ASSUME IInv, NEW req \in asked, NEW a \in Answers(req)
    PROVE  /\ a.epoch \in Epochs
           /\ ToSet(a.rounds) \subseteq Rounds
           /\ faults = 0 => \A r \in ToSet(a.rounds) : r > FirstRound
           /\ ToSet(a.rounds) # {}
  <1> DEFINE covered == {r \in Rounds : CoversRound(req, r)}
  <1>1. /\ a.rounds \in SeqOf(covered, Cardinality(covered)) /\ a.epoch \in Epochs
        /\ a.rounds # <<>>
    BY DEF Answers
  <1>2. PICK m \in 0..Cardinality(covered) : a.rounds \in [1..m -> covered]
    BY <1>1 DEF SeqOf
  <1>3. ToSet(a.rounds) \subseteq covered
    BY <1>2 DEF ToSet
  <1>4. (faults = 0 => req.start > FirstRound) /\ req.start \in Rounds
    BY DEF IInv, TypeOK, RequestsFitBatch, Requests
  <1>5. ASSUME NEW r \in covered PROVE (faults = 0 => r > FirstRound) /\ r \in Rounds
    <2>1. r \in Nat /\ req.start \in Nat /\ FirstRound \in Nat /\ r >= req.start
      BY <1>4, RoundFacts DEF CoversRound
    <2> QED
      BY <1>4, <2>1
  <1>6. ASSUME ToSet(a.rounds) = {} PROVE a.rounds = <<>>
    <2>1. DOMAIN a.rounds = 1..m /\ m \in Int
      BY <1>2
    <2>2. m < 1
      <3>1. \A i \in DOMAIN a.rounds : a.rounds[i] \in ToSet(a.rounds)
        BY DEF ToSet
      <3>2. 1 \notin 1..m
        BY <1>6, <2>1, <3>1
      <3> QED
        BY <2>1, <3>2
    <2>3. DOMAIN a.rounds = {} /\ a.rounds = [i \in 1..m |-> a.rounds[i]]
      BY <1>2, <2>1, <2>2
    <2> QED
      BY <2>3
  <1> HIDE DEF covered
  <1>7. /\ ToSet(a.rounds) \subseteq Rounds
        /\ faults = 0 => \A r \in ToSet(a.rounds) : r > FirstRound
    BY <1>3, <1>5
  <1>8. ToSet(a.rounds) # {}
    BY <1>1, <1>6
  <1> QED
    BY <1>1, <1>7, <1>8

\* add_sync_response, for any answer: the highest round held decides on the
\* next request, also when a drain or the answer dragged it back.
LEMMA ResponseKeepsIInv ==
    ASSUME IInv, NEW a, AddSyncResponse(a),
           a.epoch \in Epochs, ToSet(a.rounds) \subseteq Rounds,
           faults' \in 0..MaxFaults, faults' = 0 => faults = 0,
           faults' = 0 => /\ ToSet(a.rounds) # {}
                          /\ \A r \in ToSet(a.rounds) : r > FirstRound,
           asked' \subseteq asked, ~a.is_final => asked' = asked
    PROVE  IInv'
  <1> DEFINE got == Merge(a)
             top == Max(DOMAIN got)
             more == NextRequest(top, a.epoch)
  <1>1. faults' = 0 => ToSet(a.rounds) # {}
    OBVIOUS
  <1>2. /\ received' = got
        /\ NothingReceived(got) \/ TargetReached(got) \/ MoreToFetch(got, a)
        /\ UNCHANGED <<target, current, highest, delivered>>
        /\ status = "InProgress"
    BY DEF AddSyncResponse, IsInProgress
  <1>3. /\ DOMAIN got = DOMAIN received \cup ToSet(a.rounds)
        /\ DOMAIN got \subseteq Rounds
        /\ \A r \in DOMAIN got : got[r] \in Epochs /\ (faults' = 0 => r > FirstRound)
    BY DEF Merge, IInv, TypeOK, ReceivedIsNew
  <1>4. got # <<>> => DOMAIN got # {}
    <2>1. got = [r \in DOMAIN got |-> got[r]]
      BY DEF Merge
    <2> HIDE DEF got
    <2> QED
      BY <2>1, EmptyDomain
  <1>5. faults' = 0 => got # <<>>
    <2>1. DOMAIN <<>> = {}
      OBVIOUS
    <2> HIDE DEF got
    <2> QED
      BY <1>1, <1>3, <2>1
  <1> HIDE DEF got
  <1>6. /\ requests' \in Seq(Requests) /\ Len(requests') <= MaxPending
        /\ \A q \in ToSet(requests') : Fits(faults', q)
        /\ faults' = 0 /\ status' = "InProgress" => requests' # <<>> \/ asked' # {}
        /\ status' \in {"Completed", "InProgress"}
    <2>1. /\ requests \in Seq(Requests) /\ Len(requests) <= MaxPending /\ target \in Rounds
          /\ \A q \in ToSet(requests) : Fits(faults', q)
      BY DEF IInv, TypeOK, RequestsFitBatch, Fits
    <2>a. faults' = 0 => requests # <<>> \/ asked # {}
      BY <1>2 DEF IInv, NeverStuck, IsInProgress
    <2>2. CASE NothingReceived(got)
      BY <1>2, <1>5, <2>1, <2>2 DEF NothingReceived
    <2>3. CASE TargetReached(got)
      BY <2>1, <2>3 DEF TargetReached
    <2>4. CASE MoreToFetch(got, a)
      <3>1. status' = "InProgress" /\ top < target /\ DOMAIN got # {}
        BY <1>2, <1>4, <2>4 DEF MoreToFetch
      <3>2. CASE ~a.is_final
        BY <2>1, <2>a, <2>4, <3>1, <3>2 DEF MoreToFetch
      <3>3. CASE a.is_final
        <4>1. requests' = Append(requests, more) /\ Len(requests) < MaxPending
          BY <2>4, <3>3 DEF MoreToFetch
        <4>2. top \in DOMAIN got
          BY <1>3, <3>1, MaxRoundFacts
        <4>3. top \in Nat /\ (faults' = 0 => FirstRound <= top)
          <5> HIDE DEF top
          <5>1. top \in Rounds /\ (faults' = 0 => top > FirstRound)
            BY <1>3, <4>2
          <5> QED
            BY <5>1, RoundFacts
        <4> HIDE DEF top
        <4>4. more \in Requests /\ Fits(faults', more)
          BY <2>1, <3>1, <4>3, SyncRequestFacts DEF NextRequest
        <4> HIDE DEF more
        <4>5. /\ requests' \in Seq(Requests) /\ requests' # <<>>
              /\ Len(requests') = Len(requests) + 1
              /\ ToSet(requests') = ToSet(requests) \cup {more}
          BY <2>1, <4>1, <4>4, AppendFacts
        <4>6. Len(requests') <= MaxPending
          BY <2>1, <4>1, <4>5, StateSyncConstants
        <4> QED
          BY <2>1, <3>1, <4>4, <4>5, <4>6
      <3> QED
        BY <3>2, <3>3
    <2> QED
      BY <1>2, <2>2, <2>3, <2>4
  <1>7. TypeOK'
    BY <1>2, <1>3, <1>6 DEF IInv, TypeOK
  <1>8. RequestsFitBatch'
    BY <1>6 DEF IInv, RequestsFitBatch, Fits
  <1>9. NeverStuck'
    BY <1>6 DEF NeverStuck, IsInProgress
  <1> QED
    BY <1>2, <1>3, <1>7, <1>8, <1>9 DEF IInv, ReceivedIsNew, DeliveredIsChain

\* The answer of an honest peer, and any other.
LEMMA AnswerKeepsIInv ==
    ASSUME IInv,
           \/ \E req \in asked : \E a \in Answers(req) : Answer(req, a)
           \/ \E a \in Responses : StrayAnswer(a)
    PROVE  IInv'
  <1>1. ASSUME NEW req \in asked, NEW a \in Answers(req), Answer(req, a) PROVE IInv'
    <2>1. /\ AddSyncResponse(a)
          /\ asked' \subseteq asked /\ (~a.is_final => asked' = asked)
          /\ faults' = faults /\ faults \in 0..MaxFaults
      BY <1>1 DEF Answer, IInv, TypeOK
    <2> QED
      BY <1>1, <2>1, AnswerFacts, ResponseKeepsIInv
  <1>2. ASSUME NEW a \in Responses, StrayAnswer(a) PROVE IInv'
    <2>1. /\ faults' = faults + 1 /\ faults < MaxFaults /\ faults \in 0..MaxFaults
          /\ AddSyncResponse(a) /\ asked' = asked
      BY <1>2 DEF StrayAnswer, IInv, TypeOK
    <2>2. a.rounds \in SeqOf(Rounds, MaxAnswer) /\ a.epoch \in Epochs
      BY DEF Responses
    <2>3. PICK m \in 0..MaxAnswer : a.rounds \in [1..m -> Rounds]
      BY <2>2 DEF SeqOf
    <2>4. ToSet(a.rounds) \subseteq Rounds
      BY <2>3 DEF ToSet
    <2>5. faults' \in 0..MaxFaults /\ faults' # 0
      BY <2>1, StateSyncConstants
    <2> QED
      BY <2>1, <2>2, <2>4, <2>5, ResponseKeepsIInv
  <1> QED
    BY <1>1, <1>2

\* The run of received rounds after current ends at a round.
LEMMA LastReadyFacts ==
    ASSUME IInv
    PROVE  /\ LastReady \in Rounds /\ LastReady >= current
           /\ (current + 1)..LastReady \subseteq DOMAIN received
  <1> DEFINE S == {r \in Rounds : r >= current /\ (current + 1)..r \subseteq DOMAIN received}
  <1>1. current \in Rounds /\ current \in Nat
    BY RoundFacts DEF IInv, TypeOK
  <1>2. (current + 1)..current = {}
    BY <1>1
  <1>3. current \in S /\ S \in SUBSET Rounds
    BY <1>1, <1>2
  <1>4. LastReady = Max(S)
    BY DEF LastReady
  <1>5. Max(S) \in S
    <2> HIDE DEF S
    <2> QED
      BY <1>3, MaxRoundFacts
  <1> QED
    BY <1>4, <1>5

\* ready_blocks.
LEMMA ReadyBlocksKeepsIInv ==
    ASSUME IInv, ReadyBlocks
    PROVE  IInv'
  <1> DEFINE k == LastReady - current
             blocks == [i \in 1..k |-> [round |-> current + i, epoch |-> received[current + i]]]
             kept == DOMAIN received \ ((current + 1)..LastReady)
  <1>1. /\ LastReady > current /\ delivered' = delivered \o blocks
        /\ received' = [r \in kept |-> received[r]] /\ current' = LastReady
        /\ UNCHANGED <<status, target, highest, requests, asked, faults>>
    BY DEF ReadyBlocks, Restrict
  <1>2. /\ LastReady \in Rounds /\ LastReady \in Nat /\ current \in Nat /\ LastReady >= current
        /\ (current + 1)..LastReady \subseteq DOMAIN received
        /\ DOMAIN received \subseteq Rounds /\ \A r \in DOMAIN received : received[r] \in Epochs
    BY LastReadyFacts, RoundFacts DEF IInv, TypeOK
  <1>3. k \in Nat
    BY <1>2
  <1>4. /\ blocks \in Seq([round : Rounds, epoch : Epochs]) /\ Len(blocks) = k
        /\ \A i \in 1..k : blocks[i].round = current + i
    <2>1. ASSUME NEW i \in 1..k
          PROVE  current + i \in Rounds /\ received[current + i] \in Epochs
      <3>1. current + i \in (current + 1)..LastReady
        BY <1>2
      <3> QED
        BY <1>2, <3>1
    <2> HIDE DEF k
    <2> QED
      BY <1>3, <2>1
  <1>5. delivered \in Seq([round : Rounds, epoch : Epochs])
    BY DEF IInv, TypeOK
  <1> HIDE DEF blocks
  <1>6. /\ delivered' \in Seq([round : Rounds, epoch : Epochs])
        /\ Len(delivered') = Len(delivered) + k
        /\ \A i \in 1..Len(delivered) : delivered'[i] = delivered[i]
        /\ \A i \in 1..k : delivered'[Len(delivered) + i] = blocks[i]
    <2> HIDE DEF k
    <2> DEFINE B == [round : Rounds, epoch : Epochs]
    <2>1. delivered \in Seq(B) /\ blocks \in Seq(B) /\ Len(blocks) = k
      BY <1>4, <1>5
    <2> HIDE DEF B
    <2>2. /\ delivered \o blocks \in Seq(B)
          /\ Len(delivered \o blocks) = Len(delivered) + Len(blocks)
          /\ \A i \in 1..Len(delivered) : (delivered \o blocks)[i] = delivered[i]
          /\ \A i \in 1..Len(blocks) : (delivered \o blocks)[Len(delivered) + i] = blocks[i]
      BY <2>1
    <2> QED
      BY <1>1, <2>1, <2>2 DEF B
  <1>7. TypeOK'
    BY <1>1, <1>2, <1>6 DEF IInv, TypeOK
  <1>8. DeliveredIsChain'
    <2>1. /\ current = FirstRound + Len(delivered) /\ Len(delivered) \in Nat
          /\ \A i \in 1..Len(delivered) : delivered[i].round = FirstRound + i
      BY <1>5 DEF IInv, DeliveredIsChain
    <2>2. current' = FirstRound + Len(delivered')
      BY <1>1, <1>2, <1>6, <2>1, RoundFacts
    <2>3. ASSUME NEW i \in DOMAIN delivered' PROVE delivered'[i].round = FirstRound + i
      <3>1. i \in 1..(Len(delivered) + k)
        BY <1>6
      <3>2. CASE i <= Len(delivered)
        BY <1>6, <2>1, <3>1, <3>2
      <3>3. CASE i > Len(delivered)
        <4>1. i - Len(delivered) \in 1..k /\ i = Len(delivered) + (i - Len(delivered))
          BY <1>3, <2>1, <3>1, <3>3
        <4>2. delivered'[i].round = current + (i - Len(delivered))
          BY <1>4, <1>6, <4>1
        <4> QED
          BY <2>1, <3>1, <4>2, RoundFacts
      <3> QED
        BY <2>1, <3>1, <3>2, <3>3
    <2> QED
      BY <2>2, <2>3 DEF DeliveredIsChain
  <1> QED
    BY <1>1, <1>7, <1>8 DEF IInv, ReceivedIsNew, RequestsFitBatch, NeverStuck, IsInProgress

\* The steps that change neither blocks nor rounds, and cancel and reset,
\* which drop what is pending and received.
LEMMA OtherStepsKeepIInv ==
    ASSUME IInv,
           \/ \E req \in asked : LoseRequest(req)
           \/ \E r \in Targets : UpdateHighestKnownRound(r)
           \/ Cancel
           \/ Reset
    PROVE  IInv'
  <1>1. CASE \E req \in asked : LoseRequest(req)
    <2>1. PICK req \in asked : LoseRequest(req)
      BY <1>1
    <2>2. /\ faults < MaxFaults /\ faults' = faults + 1 /\ asked' \subseteq asked
          /\ UNCHANGED <<status, target, current, highest, requests, received, delivered>>
      BY <2>1 DEF LoseRequest
    <2>3. faults' \in 0..MaxFaults /\ faults' # 0
      BY <2>2, StateSyncConstants DEF IInv, TypeOK
    <2>4. TypeOK'
      BY <2>2, <2>3 DEF IInv, TypeOK
    <2>5. RequestsFitBatch'
      BY <2>2, <2>3 DEF IInv, RequestsFitBatch, FitsBatch
    <2> QED
      BY <2>2, <2>3, <2>4, <2>5
      DEF IInv, ReceivedIsNew, DeliveredIsChain, NeverStuck
  <1>2. ASSUME NEW r \in Targets, UpdateHighestKnownRound(r) PROVE IInv'
    <2>1. highest \cup {r} \in SUBSET Rounds /\ highest \cup {r} # {}
      BY RoundFacts DEF IInv, TypeOK
    <2>2. Max(highest \cup {r}) \in Rounds
      BY <2>1, MaxRoundFacts
    <2>3. TypeOK'
      BY <1>2, <2>2 DEF UpdateHighestKnownRound, IInv, TypeOK
    <2> QED
      BY <1>2, <2>3
      DEF UpdateHighestKnownRound, IInv, ReceivedIsNew, DeliveredIsChain, RequestsFitBatch,
          NeverStuck, IsInProgress
  <1>3. CASE Cancel \/ Reset
    <2>1. /\ status' = "Idle" /\ requests' = <<>> /\ received' = <<>>
          /\ highest' \in {highest, {}}
          /\ UNCHANGED <<target, current, asked, delivered, faults>>
      BY <1>3 DEF Cancel, Reset
    <2>2. /\ requests' \in Seq(Requests) /\ Len(requests') <= MaxPending /\ ToSet(requests') = {}
          /\ DOMAIN received' = {}
      BY <2>1, StateSyncConstants DEF ToSet
    <2>3. TypeOK'
      BY <2>1, <2>2 DEF IInv, TypeOK
    <2> QED
      BY <2>1, <2>2, <2>3
      DEF IInv, ReceivedIsNew, DeliveredIsChain, RequestsFitBatch, NeverStuck, IsInProgress
  <1> QED
    BY <1>1, <1>2, <1>3

\* No step breaks the invariant.
LEMMA NextKeepsIInv == IInv /\ [Next]_vars => IInv'
  <1> SUFFICES ASSUME IInv, [Next]_vars PROVE IInv'
    OBVIOUS
  <1>1. CASE UNCHANGED vars
    BY <1>1
    DEF vars, IInv, TypeOK, ReceivedIsNew, DeliveredIsChain, RequestsFitBatch, NeverStuck, IsInProgress
  <1>2. CASE Next
    BY <1>2, StartSyncKeepsIInv, TakeNextRequestKeepsIInv, AnswerKeepsIInv, ReadyBlocksKeepsIInv,
       OtherStepsKeepIInv DEF Next
  <1> QED
    BY <1>1, <1>2

\* The invariant holds in every state of a sync, cancelled or not.
THEOREM Invariance == Spec => []IInv
  BY InitIInv, NextKeepsIInv, PTL DEF Spec

\* ready_blocks hands on every round once, in order and without gaps.
THEOREM BlocksFormAChain == Spec => []DeliveredIsChain
  <1>1. IInv => DeliveredIsChain
    BY DEF IInv
  <1> QED
    BY <1>1, Invariance, PTL

\* Every request asks for at least one round and at most a batch, and honest
\* peers lead to none for rounds the validator had from the start.
THEOREM RequestsStayInBatch == Spec => []RequestsFitBatch
  <1>1. IInv => RequestsFitBatch
    BY DEF IInv
  <1> QED
    BY <1>1, Invariance, PTL

\* A sync in progress whose peers are honest always has a request under way.
THEOREM NoLostWakeUp == Spec => []NeverStuck
  <1>1. IInv => NeverStuck
    BY DEF IInv
  <1> QED
    BY <1>1, Invariance, PTL
=============================================================================
