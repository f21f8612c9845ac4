---------------------------- MODULE EngineProofs ----------------------------
(***************************************************************************)
(* Proofs about the consensus engine and its runtime, for any messages in  *)
(* any order: what the pacemaker makes of them, that the reports are true, *)
(* and that what is proved of the round manager holds inside the engine.   *)
(***************************************************************************)
EXTENDS Engine, OperatorLemmas

-----------------------------------------------------------------------------
(***************************************************************************)
(* Maxima of rounds.                                                       *)
(***************************************************************************)
\* Any set of rounds, with one added, has its maximum.
LEMMA MaxOfRounds ==
    ASSUME NEW S \in SUBSET (0..MaxU64), S # {}
    PROVE  /\ Max(S) \in S /\ Max(S) \in 0..MaxU64 /\ Max(S) \in Int
           /\ \A x \in S : x <= Max(S)
  <1>1. IsFiniteSet(0..MaxU64) /\ S \in SUBSET Int
    BY PacemakerConstants, FS_Interval
  <1>2. IsFiniteSet(S)
    BY <1>1, FS_Subset
  <1>3. Max(S) \in S /\ \A x \in S : x <= Max(S)
    BY <1>1, <1>2, MaxFacts
  <1>4. Max(S) \in 0..MaxU64
    BY <1>3, Zenon
  <1> QED
    BY <1>3, <1>4

\* A bound that is reached is the maximum.
LEMMA MaxIs ==
    ASSUME NEW S \in SUBSET (0..MaxU64), NEW m \in S, \A x \in S : x <= m
    PROVE  Max(S) = m
  <1>1. /\ Max(S) \in S /\ Max(S) \in Int
        /\ \A x \in S : x <= Max(S)
    BY MaxOfRounds
  <1>2. m <= Max(S) /\ Max(S) <= m /\ m \in Int
    BY <1>1
  <1> QED
    BY <1>1, <1>2

\* The larger of the maximum and a new round.
LEMMA MaxWithOne ==
    ASSUME NEW S \in SUBSET (0..MaxU64), S # {}, NEW r \in 0..MaxU64
    PROVE  Max(S \cup {r}) = IF r > Max(S) THEN r ELSE Max(S)
  <1> DEFINE m == IF r > Max(S) THEN r ELSE Max(S)
  <1>1. /\ Max(S) \in S /\ Max(S) \in Int
        /\ \A x \in S : x <= Max(S)
    BY MaxOfRounds
  <1>2. S \cup {r} \in SUBSET (0..MaxU64) /\ m \in S \cup {r}
    BY <1>1
  <1>3. \A x \in S \cup {r} : x <= m
    <2>1. \A x \in S : x \in Int
      OBVIOUS
    <2>2. r \in Int
      OBVIOUS
    <2> QED
      BY <1>1, <2>1, <2>2
  <1> HIDE DEF m
  <1>4. Max(S \cup {r}) = m
    BY <1>2, <1>3, MaxIs
  <1> QED
    BY <1>4 DEF m

-----------------------------------------------------------------------------
(***************************************************************************)
(* One message.                                                            *)
(***************************************************************************)
\* The certificates and timeouts among some messages.
Taken(M) == {m \in M : m.type \in {"QuorumCertificate", "Timeout"}}

\* The rounds of the certificates and of the timeouts in H.
Qcs(H) == {m.round : m \in {x \in H : x.type = "QuorumCertificate"}}

Timeouts(H) == {m.round : m \in {x \in H : x.type = "Timeout"}}

\* The rounds that compete for highest_ordered_round.
Ordered(H) == Qcs(H) \cup {SaturatingSub(InitialRound, 1)}

\* The rounds current_round may be in.
Reached(H) == {r + 1 : r \in Qcs(H) \cup Timeouts(H)} \cup {InitialRound}

\* pm is the pacemaker of an engine that took the messages of H.
Tracks(pm, H) ==
    /\ pm.highest_ordered_round = Max(Ordered(H))
    /\ pm.current_round >= InitialRound
    /\ \A r \in Timeouts(H) \ {MaxU64} : pm.current_round > r
    /\ pm.current_round \in Reached(H)

\* They are rounds.
LEMMA RoundsOfMessages ==
    ASSUME NEW H \in SUBSET Messages
    PROVE  /\ Ordered(H) \in SUBSET (0..MaxU64) /\ Ordered(H) # {}
           /\ Timeouts(H) \in SUBSET (0..MaxU64)
  <1>1. \A m \in H : m.round \in 0..MaxU64
    BY EngineConstants
  <1>2. SaturatingSub(InitialRound, 1) \in 0..MaxU64
    BY EngineConstants, PacemakerConstants DEF SaturatingSub
  <1> QED
    BY <1>1, <1>2 DEF Ordered, Qcs, Timeouts

\* record_ordered_round and enter_new_round keep the record in its type and
\* never go back.
LEMMA MoveFacts ==
    ASSUME NEW pm \in Pacemakers, NEW m \in Messages
    PROVE  /\ MovePacemaker(pm, m) \in Pacemakers
           /\ MovePacemaker(pm, m).current_round >= pm.current_round
           /\ MovePacemaker(pm, m).highest_ordered_round >= pm.highest_ordered_round
  <1>1. m.round \in 0..MaxU64 /\ WrappingSucc(m.round) \in 0..MaxU64
    BY EngineConstants, PacemakerConstants DEF WrappingSucc
  <1>2. /\ RecordOrderedRound(pm, m.round) \in Pacemakers
        /\ RecordOrderedRound(pm, m.round).current_round >= pm.current_round
        /\ RecordOrderedRound(pm, m.round).highest_ordered_round >= pm.highest_ordered_round
    BY <1>1, PacemakerConstants DEF RecordOrderedRound, CanRecordRound, Pacemakers
  <1>3. /\ EnterNewRound(pm, WrappingSucc(m.round)) \in Pacemakers
        /\ EnterNewRound(pm, WrappingSucc(m.round)).current_round >= pm.current_round
        /\ EnterNewRound(pm, WrappingSucc(m.round)).highest_ordered_round >= pm.highest_ordered_round
    BY <1>1, PacemakerConstants DEF EnterNewRound, CanEnterRound, Pacemakers
  <1>4. pm.current_round >= pm.current_round /\ pm.highest_ordered_round >= pm.highest_ordered_round
    BY PacemakerConstants DEF Pacemakers
  <1> QED
    BY <1>2, <1>3, <1>4 DEF MovePacemaker, ProcessQc, ProcessTimeout

\* A running engine goes on tracking; a timeout of round u64::MAX wraps to
\* round 0, which is never ahead.
LEMMA MoveTracks ==
    ASSUME NEW pm \in Pacemakers, NEW m \in Messages, NEW H \in SUBSET Messages,
           Tracks(pm, H), state = "Running"
    PROVE  Tracks(MovePacemaker(pm, m), H \cup Taken({m}))
  <1> DEFINE G == H \cup Taken({m})
  <1>0. m.round \in 0..MaxU64 /\ G \in SUBSET Messages /\ MaxU64 \in Nat
    BY EngineConstants, PacemakerConstants DEF Taken
  <1>1. /\ Ordered(H) \in SUBSET (0..MaxU64) /\ Ordered(H) # {}
        /\ Timeouts(H) \in SUBSET (0..MaxU64)
    BY RoundsOfMessages
  <1>2. CASE m.type = "QuorumCertificate"
    <2>1. /\ Qcs(G) = Qcs(H) \cup {m.round} /\ Timeouts(G) = Timeouts(H)
          /\ Ordered(G) = Ordered(H) \cup {m.round}
          /\ Reached(H) \subseteq Reached(G)
      BY <1>2 DEF Ordered, Qcs, Timeouts, Reached, Taken
    <2>2. Max(Ordered(G)) = IF m.round > Max(Ordered(H)) THEN m.round ELSE Max(Ordered(H))
      BY <1>0, <1>1, <2>1, MaxWithOne
    <2>3. MovePacemaker(pm, m) = RecordOrderedRound(pm, m.round)
      BY <1>2 DEF MovePacemaker, ProcessQc
    <2>4. /\ RecordOrderedRound(pm, m.round).current_round = pm.current_round
          /\ RecordOrderedRound(pm, m.round).highest_ordered_round =
                IF m.round > pm.highest_ordered_round THEN m.round ELSE pm.highest_ordered_round
      BY DEF RecordOrderedRound, CanRecordRound, Pacemakers
    <2> QED
      BY <2>1, <2>2, <2>3, <2>4 DEF Tracks
  <1>3. CASE m.type = "Timeout"
    <2>1. /\ Qcs(G) = Qcs(H) /\ Ordered(G) = Ordered(H)
          /\ Timeouts(G) = Timeouts(H) \cup {m.round}
          /\ Reached(G) = Reached(H) \cup {m.round + 1}
      BY <1>3 DEF Ordered, Qcs, Timeouts, Reached, Taken
    <2>a. /\ pm.current_round \in Nat /\ InitialRound \in Nat
          /\ \A r \in Timeouts(H) : r \in Nat
      BY <1>0, <1>1, EngineConstants DEF Pacemakers
    <2>2. MovePacemaker(pm, m) = EnterNewRound(pm, WrappingSucc(m.round))
      BY <1>3 DEF MovePacemaker, ProcessTimeout
    <2>3. /\ EnterNewRound(pm, WrappingSucc(m.round)).highest_ordered_round = pm.highest_ordered_round
          /\ EnterNewRound(pm, WrappingSucc(m.round)).current_round =
                IF WrappingSucc(m.round) > pm.current_round
                THEN WrappingSucc(m.round) ELSE pm.current_round
      BY DEF EnterNewRound, CanEnterRound, Pacemakers
    <2>4. CASE m.round = MaxU64
      <3>1. WrappingSucc(m.round) = 0
        BY <2>4 DEF WrappingSucc
      <3>2. ~(WrappingSucc(m.round) > pm.current_round)
        BY <2>a, <3>1
      <3> QED
        BY <2>1, <2>2, <2>3, <2>4, <3>2 DEF Tracks
    <2>5. CASE m.round # MaxU64
      <3> DEFINE new == MovePacemaker(pm, m)
      <3>1. WrappingSucc(m.round) = m.round + 1 /\ m.round \in Nat
        BY <1>0, <2>5 DEF WrappingSucc
      <3>2. /\ new.highest_ordered_round = pm.highest_ordered_round
            /\ new.current_round = IF m.round + 1 > pm.current_round
                                   THEN m.round + 1 ELSE pm.current_round
        BY <2>2, <2>3, <3>1
      <3> HIDE DEF new, G
      <3>3. /\ new.current_round >= InitialRound
            /\ \A r \in Timeouts(H) \ {MaxU64} : new.current_round > r
            /\ new.current_round > m.round
        BY <2>a, <3>1, <3>2 DEF Tracks
      <3>4. new.current_round \in Reached(G)
        BY <2>1, <3>2 DEF Tracks
      <3>5. Tracks(new, G)
        BY <2>1, <3>2, <3>3, <3>4 DEF Tracks
      <3> QED
        BY <3>5 DEF new, G
    <2> QED
      BY <2>4, <2>5
  <1>4. CASE m.type \notin {"QuorumCertificate", "Timeout"}
    <2>1. G = H /\ MovePacemaker(pm, m) = pm
      BY <1>4 DEF Taken, MovePacemaker
    <2> QED
      BY <2>1
  <1> QED
    BY <1>2, <1>3, <1>4

\* The report of a message is true when the message has been handled,
LEMMA ReportIsTrueAtFirst ==
    ASSUME NEW pm \in Pacemakers, NEW m \in Messages
    PROVE  /\ [message |-> m, result |-> Report(pm, m)] \in Reports
           /\ ReportIsTrue(MovePacemaker(pm, m), [message |-> m, result |-> Report(pm, m)])
  <1> DEFINE r == [message |-> m, result |-> Report(pm, m)]
             pn == MovePacemaker(pm, m)
  <1>0. /\ m.round \in Nat /\ pm.current_round \in Nat /\ pm.highest_ordered_round \in Nat
        /\ m.round <= MaxU64 /\ MaxU64 \in Nat
        /\ m.type \in MessageTypes
    BY EngineConstants, PacemakerConstants DEF Pacemakers
  <1>1. r.message = m /\ r.result = Report(pm, m) /\ r \in Reports
    BY <1>0 DEF Report, Reports, MessageTypes
  <1> HIDE DEF r
  <1>2. CASE m.type = "QuorumCertificate"
    <2>1. CASE state = "Running"
      <3>1. pn = RecordOrderedRound(pm, m.round)
        BY <1>2, <2>1 DEF MovePacemaker, ProcessQc
      <3>2. RecordOrderedRound(pm, m.round).highest_ordered_round >= m.round
        BY <1>0 DEF RecordOrderedRound, CanRecordRound, Pacemakers
      <3> HIDE DEF pn
      <3> QED
        BY <1>1, <1>2, <3>1, <3>2 DEF ReportIsTrue, pn, r
    <2>2. CASE state # "Running"
      <3>1. Report(pm, m) = "Failed"
        BY <1>2, <2>2 DEF Report
      <3> HIDE DEF pn
      <3> QED
        BY <1>1, <1>2, <2>2, <3>1 DEF ReportIsTrue, r
    <2> QED
      BY <2>1, <2>2
  <1>3. CASE m.type = "Timeout"
    <2>1. CASE state = "Running"
      <3> DEFINE n == WrappingSucc(m.round)
      <3>0. n \in Nat /\ (m.round # MaxU64 => n = m.round + 1) /\ (m.round = MaxU64 => n = 0)
        BY <1>0 DEF WrappingSucc
      <3>1. pn = EnterNewRound(pm, n)
        BY <1>3, <2>1 DEF MovePacemaker, ProcessTimeout
      <3>2. Report(pm, m) = IF n > pm.current_round THEN "Success" ELSE "Failed"
        BY <1>3, <2>1 DEF Report, CanEnterRound
      <3>3. EnterNewRound(pm, n).current_round = IF n > pm.current_round THEN n ELSE pm.current_round
        BY DEF EnterNewRound, CanEnterRound, Pacemakers
      <3> HIDE DEF pn, n
      <3>4. CASE n > pm.current_round
        <4>1. m.round # MaxU64 /\ pn.current_round > m.round
          BY <1>0, <3>0, <3>1, <3>3, <3>4
        <4> QED
          BY <1>1, <1>3, <3>2, <3>4, <4>1 DEF ReportIsTrue, pn, r
      <3>5. CASE ~(n > pm.current_round)
        <4>1. m.round = MaxU64 \/ pn.current_round > m.round
          BY <1>0, <3>0, <3>1, <3>3, <3>5
        <4>2. Report(pm, m) = "Failed"
          BY <3>2, <3>5
        <4> QED
          BY <1>1, <1>3, <2>1, <4>1, <4>2 DEF ReportIsTrue, pn, r
      <3> QED
        BY <3>4, <3>5
    <2>2. CASE state # "Running"
      <3>1. Report(pm, m) = "Failed"
        BY <1>3, <2>2 DEF Report
      <3> HIDE DEF pn
      <3> QED
        BY <1>1, <1>3, <2>2, <3>1 DEF ReportIsTrue, r
    <2> QED
      BY <2>1, <2>2
  <1>4. CASE m.type \notin {"QuorumCertificate", "Timeout"}
    <2>1. Report(pm, m) # "Failed"
      BY <1>4 DEF Report
    <2> HIDE DEF pn
    <2> QED
      BY <1>1, <1>4, <2>1 DEF ReportIsTrue, r
  <1> QED
    BY <1>2, <1>3, <1>4

\* and stays true, because the pacemaker never goes back.
LEMMA ReportStaysTrue ==
    ASSUME NEW pm \in Pacemakers, NEW pn \in Pacemakers, NEW r \in Reports,
           pn.current_round >= pm.current_round,
           pn.highest_ordered_round >= pm.highest_ordered_round,
           ReportIsTrue(pm, r)
    PROVE  ReportIsTrue(pn, r)
  <1>1. /\ r.message.round \in Nat
        /\ pm.current_round \in Nat /\ pm.highest_ordered_round \in Nat
        /\ pn.current_round \in Nat /\ pn.highest_ordered_round \in Nat
    BY EngineConstants, PacemakerConstants DEF Pacemakers, Reports
  <1>2. pm.highest_ordered_round >= r.message.round => pn.highest_ordered_round >= r.message.round
    BY <1>1
  <1>3. pm.current_round > r.message.round => pn.current_round > r.message.round
    BY <1>1
  <1> QED
    BY <1>2, <1>3 DEF ReportIsTrue

\* A message that succeeds goes further than one that succeeded before.
LEMMA SuccessGoesFurther ==
    ASSUME NEW pm \in Pacemakers, NEW m \in Messages, NEW r \in Reports,
           ReportIsTrue(pm, r), r.result = "Success", Report(pm, m) = "Success",
           r.message.type = m.type, m.type \in {"QuorumCertificate", "Timeout"}
    PROVE  r.message.round < m.round
  <1>1. /\ r.message.round \in Nat /\ m.round \in Nat
        /\ pm.current_round \in Nat /\ pm.highest_ordered_round \in Nat
    BY EngineConstants, PacemakerConstants DEF Pacemakers, Reports
  <1>2. CASE m.type = "QuorumCertificate"
    <2>1. pm.highest_ordered_round >= r.message.round
      BY <1>2 DEF ReportIsTrue
    <2>2. m.round > pm.highest_ordered_round
      BY <1>2 DEF Report, CanRecordRound
    <2> QED
      BY <1>1, <2>1, <2>2
  <1>3. CASE m.type = "Timeout"
    <2>1. pm.current_round > r.message.round
      BY <1>3 DEF ReportIsTrue
    <2>2. WrappingSucc(m.round) > pm.current_round
      BY <1>3 DEF Report, CanEnterRound
    <2>3. WrappingSucc(m.round) = m.round + 1 \/ WrappingSucc(m.round) = 0
      BY DEF WrappingSucc
    <2> QED
      BY <1>1, <2>1, <2>2, <2>3
  <1> QED
    BY <1>2, <1>3

-----------------------------------------------------------------------------
(***************************************************************************)
(* The queue.                                                              *)
(***************************************************************************)
\* What the loop of process_pending_messages carries along.
Runs == [pacemaker : Pacemakers, results : Seq(Reports)]

\* One turn of the loop.
LEMMA HandleMessageFacts ==
    ASSUME NEW run \in Runs, NEW m \in Messages
    PROVE  /\ HandleMessage(run, m) \in Runs
           /\ HandleMessage(run, m).pacemaker = MovePacemaker(run.pacemaker, m)
           /\ HandleMessage(run, m).results =
                 Append(run.results, [message |-> m, result |-> Report(run.pacemaker, m)])
  <1> DEFINE pn == MovePacemaker(run.pacemaker, m)
             r == [message |-> m, result |-> Report(run.pacemaker, m)]
  <1>1. run.pacemaker \in Pacemakers /\ run.results \in Seq(Reports)
    BY DEF Runs
  <1>2. pn \in Pacemakers /\ r \in Reports
    BY <1>1, MoveFacts, ReportIsTrueAtFirst
  <1> HIDE DEF pn, r
  <1>3. Append(run.results, r) \in Seq(Reports)
    BY <1>1, <1>2
  <1>4. HandleMessage(run, m) = [pacemaker |-> pn, results |-> Append(run.results, r)]
    BY DEF HandleMessage, pn, r
  <1>5. [pacemaker |-> pn, results |-> Append(run.results, r)] \in Runs
    BY <1>2, <1>3 DEF Runs
  <1> QED
    BY <1>4, <1>5 DEF pn, r

\* g is the recursive function inside HandleMessages.
Handles(g, base, msgs) ==
    g = [s \in SUBSET DOMAIN msgs |->
            IF s = {} THEN base ELSE HandleMessage(g[s \ {Max(s)}], msgs[Max(s)])]

\* The function exists, and the fold is its value for the whole queue.
LEMMA HandlingUnfolds ==
    ASSUME NEW base \in Runs, NEW msgs \in Seq(Messages)
    PROVE  \E g : /\ Handles(g, base, msgs)
                  /\ FoldLeft(HandleMessage, base, msgs) = g[DOMAIN msgs]
  <1> DEFINE F == [d \in Runs |-> [m \in Messages |-> HandleMessage(d, m)]]
             D == DOMAIN msgs
             h == CHOOSE g : Handles(g, base, msgs)
  <1>0. D = 1..Len(msgs) /\ Len(msgs) \in Nat /\ \A i \in D : msgs[i] \in Messages
    OBVIOUS
  <1>a. IsFiniteSet(1..Len(msgs))
    BY <1>0, FS_Interval
  <1>1. D \in SUBSET Nat /\ IsFiniteSet(D)
    BY <1>0, <1>a
  <1>2. \A a \in Runs, x \in Messages : F[a][x] = HandleMessage(a, x)
    OBVIOUS
  <1>b. \A a \in Runs, x \in Messages : F[a][x] \in Runs
    BY <1>2, HandleMessageFacts
  <1> HIDE DEF F
  <1>3. PICK g : FoldsBy(F, g, base, msgs, D)
    BY <1>1, FoldsExists
  <1>4. \A s \in SUBSET D : g[s] \in Runs
    BY <1>b, <1>3, FoldsStayTyped
  <1>5. ASSUME NEW s \in SUBSET D, s # {}
        PROVE  F[g[s \ {Max(s)}]][msgs[Max(s)]] = HandleMessage(g[s \ {Max(s)}], msgs[Max(s)])
    <2>1. Max(s) \in s
      BY <1>1, <1>5, MaxOfPart
    <2>2. msgs[Max(s)] \in Messages /\ g[s \ {Max(s)}] \in Runs
      BY <1>0, <1>4, <2>1
    <2> QED
      BY <1>2, <2>2
  <1>6. Handles(g, base, msgs)
    <2> HIDE DEF D
    <2>1. \A s \in SUBSET D :
             (IF s = {} THEN base ELSE F[g[s \ {Max(s)}]][msgs[Max(s)]])
               = (IF s = {} THEN base ELSE HandleMessage(g[s \ {Max(s)}], msgs[Max(s)]))
      BY <1>5
    <2>2. g = [s \in SUBSET D |->
                  IF s = {} THEN base ELSE HandleMessage(g[s \ {Max(s)}], msgs[Max(s)])]
      BY <1>3, <2>1 DEF FoldsBy
    <2> QED
      BY <2>2 DEF Handles, D
  <1>7. Handles(h, base, msgs)
    BY <1>6
  <1>8. FoldLeft(HandleMessage, base, msgs) = h[DOMAIN msgs]
    BY DEF FoldLeft, MapThenFoldSet, Handles
  <1> QED
    BY <1>7, <1>8

\* The messages of a queue up to the k-th.
FirstOf(msgs, k) == {msgs[i] : i \in 1..k}

\* What holds after k turns: the reports are true, no two of them claim the
\* same progress, and a running engine tracks the messages so far while
\* another is where it was.
SoFar(run, msgs, k) ==
    /\ run \in Runs
    /\ Len(run.results) = k
    /\ \A i \in 1..k : ReportIsTrue(run.pacemaker, run.results[i])
    /\ RisingReports(run.results)
    /\ state = "Running" => Tracks(run.pacemaker, handled \cup Taken(FirstOf(msgs, k)))
    /\ state # "Running" => run.pacemaker = pacemaker

\* One more turn.
LEMMA SoFarGoesOn ==
    ASSUME NEW msgs \in Seq(Messages), NEW k \in 0..Len(msgs) - 1, NEW run,
           SoFar(run, msgs, k), handled \subseteq Messages
    PROVE  SoFar(HandleMessage(run, msgs[k + 1]), msgs, k + 1)
  <1> DEFINE m == msgs[k + 1]
             next == HandleMessage(run, m)
             H == handled \cup Taken(FirstOf(msgs, k))
             r == [message |-> m, result |-> Report(run.pacemaker, m)]
  <1>0. /\ k \in Nat /\ k + 1 \in 1..Len(msgs) /\ 1..k \subseteq 1..Len(msgs)
        /\ DOMAIN msgs = 1..Len(msgs)
    OBVIOUS
  <1>1. m \in Messages /\ FirstOf(msgs, k) \subseteq Messages
    BY <1>0 DEF FirstOf
  <1>2. /\ run \in Runs /\ run.pacemaker \in Pacemakers /\ run.results \in Seq(Reports)
        /\ Len(run.results) = k
    BY DEF SoFar, Runs
  <1>3. FirstOf(msgs, k + 1) = FirstOf(msgs, k) \cup {m}
    <2>1. 1..(k + 1) = (1..k) \cup {k + 1}
      BY <1>0
    <2> QED
      BY <2>1 DEF FirstOf
  <1> HIDE DEF m
  <1>4. /\ next \in Runs
        /\ next.pacemaker = MovePacemaker(run.pacemaker, m)
        /\ next.results = Append(run.results, r)
    BY <1>1, <1>2, HandleMessageFacts
  <1>5. /\ r \in Reports /\ ReportIsTrue(next.pacemaker, r)
    <2>1. r \in Reports /\ ReportIsTrue(MovePacemaker(run.pacemaker, m), r)
      BY <1>1, <1>2, ReportIsTrueAtFirst
    <2> HIDE DEF r, next
    <2> QED
      BY <1>4, <2>1
  <1> HIDE DEF r, next
  <1>6. /\ next.pacemaker \in Pacemakers
        /\ next.pacemaker.current_round >= run.pacemaker.current_round
        /\ next.pacemaker.highest_ordered_round >= run.pacemaker.highest_ordered_round
    BY <1>1, <1>2, <1>4, MoveFacts
  <1>7. /\ Len(next.results) = k + 1
        /\ next.results[k + 1] = r
        /\ \A i \in 1..k : next.results[i] = run.results[i] /\ run.results[i] \in Reports
    BY <1>2, <1>4, <1>5
  <1>8. ASSUME NEW i \in 1..(k + 1) PROVE ReportIsTrue(next.pacemaker, next.results[i])
    <2>1. CASE i = k + 1
      BY <1>5, <1>7, <2>1
    <2>2. CASE i \in 1..k
      <3>1. ReportIsTrue(run.pacemaker, run.results[i]) /\ run.results[i] \in Reports
        BY <1>7, <2>2 DEF SoFar
      <3>2. ReportIsTrue(next.pacemaker, run.results[i])
        BY <1>2, <1>6, <3>1, ReportStaysTrue
      <3> QED
        BY <1>7, <2>2, <3>2
    <2> QED
      BY <1>0, <2>1, <2>2
  <1>9. ASSUME state = "Running"
        PROVE  Tracks(next.pacemaker, handled \cup Taken(FirstOf(msgs, k + 1)))
    <2>1. H \in SUBSET Messages
      BY <1>1 DEF Taken
    <2>2. Tracks(run.pacemaker, H)
      BY <1>9 DEF SoFar
    <2>3. handled \cup Taken(FirstOf(msgs, k + 1)) = H \cup Taken({m})
      BY <1>3 DEF Taken
    <2> HIDE DEF H
    <2>4. Tracks(MovePacemaker(run.pacemaker, m), H \cup Taken({m}))
      BY <1>1, <1>2, <1>9, <2>1, <2>2, MoveTracks
    <2> QED
      BY <1>4, <2>3, <2>4
  <1>10. ASSUME state # "Running" PROVE next.pacemaker = pacemaker
    BY <1>4, <1>10 DEF SoFar, MovePacemaker
  <1>11. RisingReports(next.results)
    <2>0. DOMAIN run.results = 1..k /\ DOMAIN next.results = 1..(k + 1)
      BY <1>2, <1>4, <1>5
    <2>1. ASSUME NEW i \in 1..k, run.results[i].result = "Success", r.result = "Success",
                 run.results[i].message.type = r.message.type,
                 r.message.type \in {"QuorumCertificate", "Timeout"}
          PROVE  run.results[i].message.round < r.message.round
      <3>1. r.message = m /\ r.result = Report(run.pacemaker, m)
        BY DEF r
      <3>2. run.results[i] \in Reports /\ ReportIsTrue(run.pacemaker, run.results[i])
        BY <1>7 DEF SoFar
      <3> QED
        BY <1>1, <1>2, <2>1, <3>1, <3>2, SuccessGoesFurther
    <2> SUFFICES ASSUME NEW i \in 1..(k + 1), NEW j \in 1..(k + 1), i < j,
                        next.results[i].result = "Success", next.results[j].result = "Success",
                        next.results[i].message.type = next.results[j].message.type,
                        next.results[i].message.type \in {"QuorumCertificate", "Timeout"}
                 PROVE  next.results[i].message.round < next.results[j].message.round
      BY <2>0 DEF RisingReports
    <2>2. i \in 1..k
      BY <1>0
    <2>3. CASE j = k + 1
      BY <1>7, <2>1, <2>2, <2>3
    <2>4. CASE j \in 1..k
      BY <1>7, <2>0, <2>2, <2>4 DEF SoFar, RisingReports
    <2> QED
      BY <1>0, <2>3, <2>4
  <1>12. SoFar(next, msgs, k + 1)
    BY <1>4, <1>7, <1>8, <1>9, <1>10, <1>11 DEF SoFar
  <1> QED
    BY <1>12 DEF next, m

\* process_pending_messages and handle_network_message.
LEMMA HandleMessagesFacts ==
    ASSUME NEW msgs \in Seq(Messages), pacemaker \in Pacemakers,
           handled \subseteq Messages, Tracks(pacemaker, handled)
    PROVE  SoFar(HandleMessages(msgs), msgs, Len(msgs))
  <1> DEFINE base == [pacemaker |-> pacemaker, results |-> <<>>]
             n == Len(msgs)
  <1>1. base \in Runs
    BY DEF Runs
  <1>2. PICK g : /\ Handles(g, base, msgs)
                 /\ FoldLeft(HandleMessage, base, msgs) = g[DOMAIN msgs]
    BY <1>1, HandlingUnfolds
  <1> DEFINE Good == {k \in 0..n : SoFar(g[1..k], msgs, k)}
  <1>3. n \in Nat /\ DOMAIN msgs = 1..n
    OBVIOUS
  <1>4. 0 \in Good
    <2>1. 1..0 = {} /\ g[{}] = base
      BY <1>2 DEF Handles
    <2>2. FirstOf(msgs, 0) = {}
      BY DEF FirstOf
    <2>3. handled \cup Taken(FirstOf(msgs, 0)) = handled
      BY <2>2 DEF Taken
    <2>a. base.pacemaker = pacemaker /\ base.results = <<>> /\ Len(base.results) = 0
      OBVIOUS
    <2>4. SoFar(base, msgs, 0)
      <3>1. RisingReports(base.results)
        BY DEF RisingReports
      <3> HIDE DEF base
      <3> QED
        BY <1>1, <2>1, <2>3, <2>a, <3>1 DEF SoFar
    <2> QED
      BY <1>3, <2>1, <2>4
  <1>5. ASSUME NEW k \in 0..n - 1, k \in Good PROVE k + 1 \in Good
    <2> DEFINE s == 1..(k + 1)
    <2>a. n \in Nat /\ k \in Nat /\ k + 1 <= n
      <3> HIDE DEF n
      <3> QED
        BY <1>3
    <2>b. s \subseteq 1..n /\ k + 1 \in s /\ k + 1 \in 1..n /\ k + 1 \in 0..n
      <3> HIDE DEF n
      <3> QED
        BY <2>a
    <2>1. s \in SUBSET DOMAIN msgs /\ s # {} /\ k + 1 \in s
      BY <1>3, <2>b
    <2>2. Max(s) = k + 1
      <3>1. IsFiniteSet(s) /\ s \in SUBSET Int
        BY FS_Interval
      <3>2. Max(s) \in s /\ \A x \in s : x <= Max(s)
        <4> HIDE DEF s
        <4> QED
          BY <2>1, <3>1, MaxFacts
      <3> QED
        BY <3>2
    <2>3. s \ {k + 1} = 1..k
      OBVIOUS
    <2>4. g[s] = HandleMessage(g[s \ {Max(s)}], msgs[Max(s)])
      BY <1>2, <2>1 DEF Handles
    <2>5. g[s] = HandleMessage(g[1..k], msgs[k + 1])
      BY <2>2, <2>3, <2>4
    <2>6. SoFar(HandleMessage(g[1..k], msgs[k + 1]), msgs, k + 1)
      BY <1>5, SoFarGoesOn
    <2> QED
      BY <2>b, <2>5, <2>6
  <1> HIDE DEF Good
  <1>6. n \in Good
    BY <1>3, <1>4, <1>5, PrefixInduction
  <1>7. SoFar(g[DOMAIN msgs], msgs, n)
    BY <1>3, <1>6 DEF Good
  <1> QED
    BY <1>2, <1>7 DEF HandleMessages

-----------------------------------------------------------------------------
(***************************************************************************)
(* The inductive invariant.                                                *)
(***************************************************************************)
\* PacemakerFollowsMessages, said with the operators above.
LEMMA FollowsIsTracks == PacemakerFollowsMessages <=> Tracks(pacemaker, handled)
  BY DEF PacemakerFollowsMessages, Tracks, Ordered, Reached, Qcs, Timeouts, QcRounds, TimeoutRounds

\* The bound on the reports of one call.
LEMMA ReportsBound ==
    /\ Max({1, MaxQueue}) \in Nat
    /\ 1 <= Max({1, MaxQueue}) /\ MaxQueue <= Max({1, MaxQueue})
  <1> DEFINE S == {1, MaxQueue}
  <1>1. S \in SUBSET Int /\ S # {} /\ S \subseteq Nat
    BY EngineConstants
  <1>2. IsFiniteSet(S)
    <2>1. S \subseteq 0..(MaxQueue + 1) /\ 0 \in Int /\ MaxQueue + 1 \in Int
      BY EngineConstants
    <2>2. IsFiniteSet(0..(MaxQueue + 1))
      BY <2>1, FS_Interval
    <2> QED
      BY <2>1, <2>2, FS_Subset
  <1>a. 1 \in S /\ MaxQueue \in S
    OBVIOUS
  <1> HIDE DEF S
  <1>3. Max(S) \in S /\ \A x \in S : x <= Max(S)
    BY <1>1, <1>2, MaxFacts
  <1> QED
    BY <1>1, <1>3, <1>a DEF S

\* An empty queue fits, and so does an empty list of reports.
LEMMA EmptyFits ==
    /\ <<>> \in Seq(Messages) /\ <<>> \in Seq(Reports)
    /\ Len(<<>>) <= MaxQueue /\ Len(<<>>) <= Max({1, MaxQueue})
  <1>1. Len(<<>>) = 0 /\ MaxQueue \in Nat /\ Max({1, MaxQueue}) \in Nat
    BY EngineConstants, ReportsBound
  <1> QED
    BY <1>1

\* A new engine in a new runtime.
LEMMA InitIInv == Init => IInv
  <1> SUFFICES ASSUME Init PROVE IInv
    OBVIOUS
  <1> DEFINE before == SaturatingSub(InitialRound, 1)
  <1>1. before \in 0..MaxU64 /\ InitialRound \in 0..MaxU64
    BY EngineConstants, PacemakerConstants DEF SaturatingSub
  <1>2. /\ pacemaker.current_round = InitialRound
        /\ pacemaker.highest_ordered_round = before
        /\ pacemaker \in Pacemakers
    BY <1>1 DEF Init, EngineInit, NewPacemaker, Pacemakers
  <1>3. Ordered(handled) = {before} /\ Timeouts(handled) = {} /\ InitialRound \in Reached(handled)
    BY DEF Init, Ordered, Qcs, Timeouts, Reached
  <1> HIDE DEF before
  <1>4. Max({before}) = before /\ InitialRound >= InitialRound
    <2>1. before <= before
      BY <1>1
    <2> QED
      BY <1>1, <2>1, MaxIs
  <1>5. PacemakerFollowsMessages
    BY <1>2, <1>3, <1>4, FollowsIsTracks DEF Tracks
  <1>6. RuntimeTypeOK
    <2>1. /\ queue = <<>> /\ results = <<>> /\ handled = {} /\ isRunning = FALSE
          /\ state = "Bootstrapping"
      BY DEF Init, EngineInit, RuntimeInit
    <2> QED
      BY <1>2, <2>1, EmptyFits DEF RuntimeTypeOK
  <1>7. ReportsAreTrue
    BY DEF ReportsAreTrue, RisingReports, Init, ToSet
  <1> QED
    BY <1>5, <1>6, <1>7 DEF IInv

\* No report, and a pacemaker that is left alone.
LEMMA QuietStepKeepsIInv ==
    ASSUME IInv, UNCHANGED <<pacemaker, handled>>,
           results' = <<>>,
           state' \in {"Bootstrapping", "Running", "Stopped"},
           isRunning' \in BOOLEAN,
           queue' \in Seq(Messages), Len(queue') <= MaxQueue
    PROVE  IInv'
  <1>1. RuntimeTypeOK'
    BY EngineConstants, ReportsBound DEF IInv, RuntimeTypeOK
  <1>2. PacemakerFollowsMessages'
    BY DEF IInv, PacemakerFollowsMessages, QcRounds, TimeoutRounds
  <1>3. ReportsAreTrue'
    BY DEF ReportsAreTrue, RisingReports, ToSet
  <1> QED
    BY <1>1, <1>2, <1>3 DEF IInv

\* start and stop, of the engine and of the runtime.
LEMMA LifeCycleKeepsIInv ==
    ASSUME IInv, Start \/ Stop \/ RuntimeStart \/ RuntimeShutdown
    PROVE  IInv'
  <1>1. UNCHANGED <<pacemaker, handled, managerVars>> /\ results' = <<>>
    BY DEF Start, Stop, RuntimeStart, RuntimeShutdown
  <1>3. /\ state' \in {"Bootstrapping", "Running", "Stopped"}
        /\ isRunning' \in BOOLEAN
    BY DEF Start, Stop, RuntimeStart, RuntimeShutdown, CanStart, CanStop, IInv, RuntimeTypeOK
  <1>4. queue' \in Seq(Messages) /\ Len(queue') <= MaxQueue
    <2>1. queue' = queue \/ queue' = <<>>
      BY DEF Start, Stop, RuntimeStart, RuntimeShutdown
    <2>2. queue \in Seq(Messages) /\ Len(queue) <= MaxQueue
      BY DEF IInv, RuntimeTypeOK
    <2> QED
      BY <2>1, <2>2, EmptyFits, Zenon
  <1> QED
    BY <1>1, <1>3, <1>4, QuietStepKeepsIInv

\* process_proposal and process_vote leave the runtime alone.
LEMMA ManagerStepKeepsIInv ==
    ASSUME IInv,
           \/ \E b \in Blocks : ProcessProposal(b)
           \/ \E v \in VoteMsgs : ProcessVote(v)
    PROVE  IInv'
  <1>1. UNCHANGED <<state, isRunning, queue, pacemaker, handled>> /\ results' = <<>>
    BY DEF ProcessProposal, ProcessVote
  <1> QED
    BY <1>1, QuietStepKeepsIInv DEF IInv, RuntimeTypeOK

\* add_network_message.
LEMMA AddMessageKeepsIInv ==
    ASSUME IInv, NEW m \in Messages, AddNetworkMessage(m)
    PROVE  IInv'
  <1>1. /\ UNCHANGED <<state, isRunning, pacemaker, handled, managerVars>>
        /\ results' = <<>>
    BY DEF AddNetworkMessage
  <1>2. queue' \in Seq(Messages) /\ Len(queue') <= MaxQueue
    BY EngineConstants DEF AddNetworkMessage, IInv, RuntimeTypeOK
  <1> QED
    BY <1>1, <1>2, QuietStepKeepsIInv DEF IInv, RuntimeTypeOK

\* execute_block, broadcast_proposal and broadcast_vote.
LEMMA AcknowledgeKeepsIInv ==
    ASSUME IInv, NEW m \in Messages, Acknowledge(m)
    PROVE  IInv'
  <1> DEFINE r == [message |-> m, result |-> "Success"]
  <1>1. /\ UNCHANGED <<state, isRunning, queue, pacemaker, handled, managerVars>>
        /\ results' = <<r>> /\ m.type \in {"Proposal", "Vote"}
    BY DEF Acknowledge
  <1>2. r \in Reports /\ r.message = m /\ r.result = "Success"
    BY DEF Reports
  <1> HIDE DEF r
  <1>3. results' \in Seq(Reports) /\ Len(results') = 1 /\ ToSet(results') = {r}
    BY <1>1, <1>2 DEF ToSet
  <1>4. RuntimeTypeOK'
    BY <1>1, <1>3, ReportsBound DEF IInv, RuntimeTypeOK
  <1>5. ReportsAreTrue'
    <2>1. DOMAIN results' = 1..1
      BY <1>3
    <2>2. RisingReports(results')
      BY <2>1 DEF RisingReports
    <2>3. \A x \in ToSet(results') : ReportIsTrue(pacemaker, x)'
      BY <1>1, <1>2, <1>3 DEF ReportIsTrue
    <2> QED
      BY <2>2, <2>3 DEF ReportsAreTrue, RisingReports
  <1>6. PacemakerFollowsMessages'
    BY <1>1 DEF IInv, PacemakerFollowsMessages, QcRounds, TimeoutRounds
  <1> QED
    BY <1>4, <1>5, <1>6 DEF IInv

\* process_pending_messages and handle_network_message, for the messages they
\* take.
LEMMA HandlingKeepsIInv ==
    ASSUME IInv, NEW msgs \in Seq(Messages), Len(msgs) <= Max({1, MaxQueue}),
           pacemaker' = HandleMessages(msgs).pacemaker,
           results' = HandleMessages(msgs).results,
           Remember(ToSet(msgs)),
           queue' \in Seq(Messages), Len(queue') <= MaxQueue,
           UNCHANGED <<state, isRunning, managerVars>>
    PROVE  IInv'
  <1> DEFINE n == Len(msgs)
  <1>1. /\ pacemaker \in Pacemakers /\ handled \subseteq Messages
        /\ Tracks(pacemaker, handled)
    BY FollowsIsTracks DEF IInv, RuntimeTypeOK
  <1>2. SoFar(HandleMessages(msgs), msgs, n)
    BY <1>1, HandleMessagesFacts
  <1>3. n \in Nat /\ DOMAIN msgs = 1..n /\ ToSet(msgs) \subseteq Messages
    BY DEF ToSet
  <1>4. FirstOf(msgs, n) = ToSet(msgs)
    BY <1>3 DEF FirstOf, ToSet
  <1>5. /\ pacemaker' \in Pacemakers /\ results' \in Seq(Reports) /\ Len(results') = n
        /\ \A i \in 1..n : ReportIsTrue(pacemaker', results'[i])
        /\ RisingReports(results')
    BY <1>2 DEF SoFar, Runs
  <1>6. Tracks(pacemaker', handled') /\ handled' \subseteq Messages
    <2>1. CASE state = "Running"
      <3>1. handled' = handled \cup Taken(ToSet(msgs))
        BY <2>1 DEF Remember, Taken
      <3>2. Tracks(pacemaker', handled \cup Taken(ToSet(msgs)))
        BY <1>2, <1>4, <2>1 DEF SoFar
      <3> QED
        BY <1>1, <1>3, <3>1, <3>2 DEF Taken
    <2>2. CASE state # "Running"
      <3>1. handled' = handled /\ pacemaker' = pacemaker
        BY <1>2, <2>2 DEF Remember, SoFar
      <3> QED
        BY <1>1, <3>1
    <2> QED
      BY <2>1, <2>2
  <1>7. RuntimeTypeOK'
    BY <1>5, <1>6 DEF IInv, RuntimeTypeOK
  <1>8. PacemakerFollowsMessages'
    BY <1>6 DEF PacemakerFollowsMessages, Tracks, Ordered, Reached, Qcs, Timeouts, QcRounds, TimeoutRounds
  <1>9. ReportsAreTrue'
    <2> SUFFICES ASSUME NEW r \in ToSet(results') PROVE ReportIsTrue(pacemaker, r)'
      BY <1>5 DEF ReportsAreTrue, RisingReports
    <2>1. PICK i \in 1..n : r = results'[i]
      BY <1>5 DEF ToSet
    <2>2. ReportIsTrue(pacemaker', r)
      BY <1>5, <2>1
    <2> QED
      BY <2>2 DEF ReportIsTrue
  <1> QED
    BY <1>7, <1>8, <1>9 DEF IInv

\* Every step.
LEMMA NextKeepsIInv == IInv /\ [Next]_vars => IInv'
  <1> SUFFICES ASSUME IInv, [Next]_vars PROVE IInv'
    OBVIOUS
  <1>1. CASE Start \/ Stop \/ RuntimeStart \/ RuntimeShutdown
    BY <1>1, LifeCycleKeepsIInv
  <1>2. CASE \/ \E b \in Blocks : ProcessProposal(b)
             \/ \E v \in VoteMsgs : ProcessVote(v)
    BY <1>2, ManagerStepKeepsIInv
  <1>3. ASSUME NEW m \in Messages, AddNetworkMessage(m) PROVE IInv'
    BY <1>3, AddMessageKeepsIInv
  <1>4. ASSUME NEW m \in Messages, Acknowledge(m) PROVE IInv'
    BY <1>4, AcknowledgeKeepsIInv
  <1>5. CASE ProcessPendingMessages
    <2>1. queue \in Seq(Messages) /\ Len(queue) <= Max({1, MaxQueue})
      BY ReportsBound, EngineConstants DEF IInv, RuntimeTypeOK
    <2>2. queue' \in Seq(Messages) /\ Len(queue') <= MaxQueue
      BY <1>5, EngineConstants DEF ProcessPendingMessages
    <2> QED
      BY <1>5, <2>1, <2>2, HandlingKeepsIInv DEF ProcessPendingMessages
  <1>6. ASSUME NEW m \in Messages, HandleNetworkMessage(m) PROVE IInv'
    <2> DEFINE one == <<m>>
    <2>1. one \in Seq(Messages) /\ Len(one) = 1 /\ ToSet(one) = {m}
      BY DEF ToSet
    <2>2. Len(one) <= Max({1, MaxQueue})
      BY <2>1, ReportsBound
    <2>3. /\ pacemaker' = HandleMessages(one).pacemaker
          /\ results' = HandleMessages(one).results
          /\ Remember({m})
          /\ UNCHANGED <<state, isRunning, queue, managerVars>>
      BY <1>6 DEF HandleNetworkMessage
    <2>4. queue' \in Seq(Messages) /\ Len(queue') <= MaxQueue
      BY <2>3 DEF IInv, RuntimeTypeOK
    <2> HIDE DEF one
    <2> QED
      BY <2>1, <2>2, <2>3, <2>4, HandlingKeepsIInv
  <1>7. CASE UNCHANGED vars
    BY <1>7
    DEF vars, managerVars, IInv, RuntimeTypeOK, PacemakerFollowsMessages, QcRounds,
        TimeoutRounds, ReportsAreTrue, ReportIsTrue, RisingReports
  <1> QED
    BY <1>1, <1>2, <1>3, <1>4, <1>5, <1>6, <1>7 DEF Next

-----------------------------------------------------------------------------
(***************************************************************************)
(* The theorems.                                                           *)
(***************************************************************************)
\* The inductive invariant holds in every state of the engine.
THEOREM Invariance == Spec => []IInv
  BY InitIInv, NextKeepsIInv, PTL DEF Spec

\* However certificates and timeouts are delayed, repeated and reordered, the
\* pacemaker has the highest certificate that a running engine took and has
\* left every round that timed out (process_qc, process_timeout).
THEOREM PacemakerIsUpToDate == Spec => []PacemakerFollowsMessages
  <1>1. IInv => PacemakerFollowsMessages
    BY DEF IInv
  <1> QED
    BY Invariance, <1>1, PTL

\* What the runtime reports of a message is so when the call returns, and a
\* repeated or overtaken message is not reported as a success.
THEOREM NoFalseReport == Spec => []ReportsAreTrue
  <1>1. IInv => ReportsAreTrue
    BY DEF IInv
  <1> QED
    BY Invariance, <1>1, PTL

\* The runtime's flag and the engine agree after every call that changes the
\* flag, though the flag is written first and the engine may refuse.
THEOREM FlagAgrees == Spec => FlagMatchesEngine
  <1>1. ASSUME IInv, [Next]_vars
        PROVE  [isRunning' # isRunning => (isRunning' <=> state' = "Running")]_vars
    <2>1. CASE RuntimeStart
      BY <1>1, <2>1 DEF RuntimeStart, CanStart, IInv, RuntimeTypeOK
    <2>2. CASE RuntimeShutdown
      BY <1>1, <2>2 DEF RuntimeShutdown, CanStop
    <2>3. CASE isRunning' = isRunning
      BY <2>3
    <2> QED
      BY <1>1, <2>1, <2>2, <2>3
      DEF Next, vars, Start, Stop, ProcessProposal, ProcessVote, AddNetworkMessage,
          ProcessPendingMessages, HandleNetworkMessage, Acknowledge
  <1> QED
    BY <1>1, Invariance, PTL DEF Spec, FlagMatchesEngine

\* An engine that is not running takes nothing in: its queue may be drained
\* and it may be offered anything, pacemaker and round manager stay.
THEOREM StoppedEngineIsFrozen == Spec => StoppedIsFrozen
  <1>1. ASSUME IInv, [Next]_vars
        PROVE  [state # "Running" => UNCHANGED <<pacemaker, managerVars>>]_vars
    <2> SUFFICES ASSUME Next, state # "Running" PROVE UNCHANGED <<pacemaker, managerVars>>
      BY <1>1
    <2>0. ASSUME NEW msgs \in Seq(Messages) PROVE HandleMessages(msgs).pacemaker = pacemaker
      <3>1. /\ pacemaker \in Pacemakers /\ handled \subseteq Messages
            /\ Tracks(pacemaker, handled)
        BY <1>1, FollowsIsTracks DEF IInv, RuntimeTypeOK
      <3>2. SoFar(HandleMessages(msgs), msgs, Len(msgs))
        BY <3>1, HandleMessagesFacts
      <3> QED
        BY <3>2 DEF SoFar
    <2>1. CASE ProcessPendingMessages
      <3>1. queue \in Seq(Messages)
        BY <1>1 DEF IInv, RuntimeTypeOK
      <3> QED
        BY <2>0, <2>1, <3>1 DEF ProcessPendingMessages
    <2>2. ASSUME NEW m \in Messages, HandleNetworkMessage(m)
          PROVE  UNCHANGED <<pacemaker, managerVars>>
      <3>1. <<m>> \in Seq(Messages)
        OBVIOUS
      <3> QED
        BY <2>0, <2>2, <3>1 DEF HandleNetworkMessage
    <2> QED
      BY <2>1, <2>2
      DEF Next, Start, Stop, RuntimeStart, RuntimeShutdown, ProcessProposal, ProcessVote,
          AddNetworkMessage, Acknowledge
  <1> QED
    BY <1>1, Invariance, PTL DEF Spec, StoppedIsFrozen

-----------------------------------------------------------------------------
(***************************************************************************)
(* The round manager inside the engine.  The engine takes steps of         *)
(* Manager, an instance of RoundManager; ManagerProofs is the same         *)
(* instance with its theorems.                                             *)
(***************************************************************************)
ManagerProofs == INSTANCE RoundManagerProofs

\* Both instances add up the same voting power,
LEMMA SamePower ==
    ASSUME NEW S
    PROVE  Manager!PowerOf(S) = ManagerProofs!PowerOf(S)
  BY DEF Manager!PowerOf, ManagerProofs!PowerOf, Manager!MapThenSumSet,
      ManagerProofs!MapThenSumSet, Manager!MapThenFoldSet,
      ManagerProofs!MapThenFoldSet

\* which is also what the engine's own verifier counts,
LEMMA SameQuorums ==
    ASSUME NEW S
    PROVE  /\ Manager!CheckVotingPower(S) <=> ManagerProofs!CheckVotingPower(S)
           /\ CheckVotingPower(S) <=> ManagerProofs!CheckVotingPower(S)
  BY SamePower
  DEF CheckVotingPower, QuorumVotingPower, PowerOf, MapThenSumSet, MapThenFoldSet,
      ManagerProofs!PowerOf, ManagerProofs!MapThenSumSet, ManagerProofs!MapThenFoldSet,
      Manager!CheckVotingPower, ManagerProofs!CheckVotingPower,
      Manager!QuorumVotingPower, ManagerProofs!QuorumVotingPower

\* find the same quorums among the votes,
LEMMA SameCheckQuorum ==
    ASSUME NEW pv, NEW r, NEW b
    PROVE  Manager!CheckQuorum(pv, r, b) <=> ManagerProofs!CheckQuorum(pv, r, b)
  BY SameQuorums
  DEF Manager!CheckQuorum, ManagerProofs!CheckQuorum, Manager!GetVotes,
      ManagerProofs!GetVotes, Manager!Signers, ManagerProofs!Signers

\* store the same votes,
LEMMA SameStoreVote ==
    ASSUME NEW pv, NEW v
    PROVE  /\ Manager!StoreVote(v) <=> ManagerProofs!StoreVote(v)
           /\ Manager!Insert(pv, v) = ManagerProofs!Insert(pv, v)
  BY DEF Manager!StoreVote, ManagerProofs!StoreVote, Manager!ManagerEpoch,
      ManagerProofs!ManagerEpoch, Manager!AddVoteOk, ManagerProofs!AddVoteOk,
      Manager!GetVotes, ManagerProofs!GetVotes, Manager!Insert,
      ManagerProofs!Insert

\* and observe a certificate alike.
LEMMA SameObserveQc ==
    ASSUME NEW s, NEW r
    PROVE  Manager!ObserveQc(s, r) = ManagerProofs!ObserveQc(s, r)
  BY DEF Manager!ObserveQc, ManagerProofs!ObserveQc,
      Manager!UpdateOneChainRound, ManagerProofs!UpdateOneChainRound,
      Manager!UpdatePreferredRound, ManagerProofs!UpdatePreferredRound,
      Manager!WrappingAdd, ManagerProofs!WrappingAdd, Manager!Larger,
      ManagerProofs!Larger

\* So the steps the engine takes are steps of both: a proposal,
LEMMA SameProposal ==
    ASSUME NEW b
    PROVE  Manager!ProcessProposal(b) <=> ManagerProofs!ProcessProposal(b)
  BY DEF Manager!ProcessProposal, ManagerProofs!ProcessProposal

\* a vote without a quorum,
LEMMA SameAcceptVote ==
    ASSUME NEW v
    PROVE  Manager!AcceptVote(v) <=> ManagerProofs!AcceptVote(v)
  BY SameCheckQuorum, SameStoreVote
  DEF Manager!AcceptVote, ManagerProofs!AcceptVote

\* a vote that completes one,
LEMMA SameForm ==
    ASSUME NEW v
    PROVE  Manager!FormQuorumCertificate(v) <=> ManagerProofs!FormQuorumCertificate(v)
  BY SameCheckQuorum, SameStoreVote, SameObserveQc
  DEF Manager!FormQuorumCertificate, ManagerProofs!FormQuorumCertificate,
      Manager!RemoveRound, ManagerProofs!RemoveRound, Manager!Key,
      ManagerProofs!Key

\* and one whose certificate fails.
LEMMA SameFormFails ==
    ASSUME NEW v
    PROVE  Manager!FormQuorumCertificateFails(v) <=> ManagerProofs!FormQuorumCertificateFails(v)
  BY SameCheckQuorum, SameStoreVote
  DEF Manager!FormQuorumCertificateFails,
      ManagerProofs!FormQuorumCertificateFails, Manager!Key, ManagerProofs!Key

\* Both start alike.
LEMMA SameInit ==
    Manager!Init <=> ManagerProofs!Init
  BY DEF Manager!Init, ManagerProofs!Init, Manager!NewPendingVotes,
      ManagerProofs!NewPendingVotes, Manager!NewSafetyState,
      ManagerProofs!NewSafetyState, Manager!ManagerEpoch,
      ManagerProofs!ManagerEpoch

\* The constants are what the proofs about the round manager assume.
LEMMA ManagerAssumptions ==
    MaxRound \in ManagerProofs!U64 /\ ManagerProofs!IsFiniteSet(Validators)
  BY EngineConstants, PendingVotesConstants
  DEF ManagerProofs!U64, U64, IsFiniteSet, ManagerProofs!IsFiniteSet

\* The engine implements the round manager the theorems are about.
LEMMA ImplementsProvedManager == Spec => ManagerProofs!Spec
  <1>1. Init => ManagerProofs!Init
    BY SameInit DEF Init, EngineInit
  <1>2. [Next]_vars => [ManagerProofs!Next]_(ManagerProofs!vars)
    <2> SUFFICES ASSUME [Next]_vars PROVE ManagerProofs!Next \/ UNCHANGED managerVars
      BY DEF managerVars, ManagerProofs!vars
    <2>1. ASSUME NEW b \in Blocks, ProcessProposal(b)
          PROVE  ManagerProofs!Next \/ UNCHANGED managerVars
      BY <2>1, SameProposal DEF ProcessProposal, ManagerProofs!Next
    <2>2. ASSUME NEW v \in VoteMsgs, ProcessVote(v) PROVE ManagerProofs!Next
      BY <2>2, SameAcceptVote, SameForm, SameFormFails DEF ProcessVote, ManagerProofs!Next
    <2> QED
      BY <2>1, <2>2
      DEF Next, vars, Start, Stop, RuntimeStart, RuntimeShutdown, AddNetworkMessage,
          ProcessPendingMessages, HandleNetworkMessage, Acknowledge
  <1> QED
    BY <1>1, <1>2, PTL DEF Spec, ManagerProofs!Spec

\* Every certificate the round manager forms inside the engine rests on a
\* quorum of authors, whatever messages, stops and restarts come between the
\* votes (process_vote).
THEOREM EngineCertificates == Spec => []ManagerProofs!QcsHaveQuorum
  <1>1. ManagerProofs!Spec => []ManagerProofs!QcsHaveQuorum
    BY ManagerProofs!CertificatesHaveQuorum, ManagerAssumptions, EngineConstants,
       SafetyConstants, PendingVotesConstants, PTL
  <1> QED
    BY <1>1, ImplementsProvedManager, PTL

-----------------------------------------------------------------------------
(***************************************************************************)
(* The pipeline inside the engine, and the types of all variables.         *)
(***************************************************************************)
\* The engine sends only whole blocks through the pipeline, and no more of
\* them than it is offered.
PipelineIsLevel ==
    LET blocks == pipeline.stage_counts["Receiving"]
    IN  /\ pipeline \in PipelineStats
        /\ \A s \in StageNames : pipeline.stage_counts[s] = blocks
        /\ blocks <= MaxProposals
        /\ pipeline.total_processed = 4 * blocks
        /\ pipeline.failed = 0 /\ pipeline.skipped = 0

\* process_proposal is the only call that moves the pipeline, by one block.
LEMMA PipelineStaysLevel == Spec => []PipelineIsLevel
  <1>0. "Receiving" \in StageNames
    BY DEF StageNames
  <1>1. Init => PipelineIsLevel
    BY <1>0, EngineConstants
    DEF Init, EngineInit, NewPipelineStats, PipelineStats, PipelineIsLevel
  <1>2. PipelineIsLevel /\ [Next]_vars => PipelineIsLevel'
    <2> SUFFICES ASSUME PipelineIsLevel, [Next]_vars PROVE PipelineIsLevel'
      OBVIOUS
    <2>1. ASSUME UNCHANGED pipeline PROVE PipelineIsLevel'
      BY <2>1 DEF PipelineIsLevel
    <2>2. ASSUME NEW b \in Blocks, ProcessProposal(b) PROVE PipelineIsLevel'
      <3> DEFINE run == PipelineBlock(pipeline, b)
                 blocks == pipeline.stage_counts["Receiving"]
      <3>1. pipeline' = run.stats /\ blocks < MaxProposals
        BY <2>2 DEF ProcessProposal
      <3>2. /\ pipeline \in PipelineStats /\ \A s \in StageNames : pipeline.stage_counts[s] = blocks
            /\ pipeline.total_processed = 4 * blocks /\ pipeline.failed = 0 /\ pipeline.skipped = 0
        BY DEF PipelineIsLevel
      <3>3. blocks \in Nat
        BY <1>0, <3>2 DEF PipelineStats
      <3>4. /\ run.stats \in PipelineStats
            /\ \A s \in StageNames : run.stats.stage_counts[s] = pipeline.stage_counts[s] + 1
            /\ run.stats.total_processed = pipeline.total_processed + 4
            /\ run.stats.failed = pipeline.failed /\ run.stats.skipped = pipeline.skipped
        BY <3>2, BlockVisitsAllStages
      <3> HIDE DEF run, blocks
      <3>5. /\ pipeline' \in PipelineStats
            /\ \A s \in StageNames : pipeline'.stage_counts[s] = blocks + 1
            /\ pipeline'.total_processed = 4 * (blocks + 1)
            /\ pipeline'.failed = 0 /\ pipeline'.skipped = 0
        BY <3>1, <3>2, <3>3, <3>4
      <3>6. blocks + 1 <= MaxProposals
        BY <3>1, <3>3, EngineConstants
      <3> QED
        BY <1>0, <3>5, <3>6 DEF PipelineIsLevel
    <2> QED
      BY <2>1, <2>2
      DEF Next, vars, Start, Stop, RuntimeStart, RuntimeShutdown, ProcessVote,
          AddNetworkMessage, ProcessPendingMessages, HandleNetworkMessage, Acknowledge
  <1> QED
    BY <1>1, <1>2, PTL DEF Spec

\* Every variable of the engine, its pipeline and its round manager stays in
\* its type.
THEOREM TypeCorrect == Spec => []TypeOK
  <1>1. PipelineIsLevel =>
            pipeline \in [stage_counts : [StageNames -> 0..MaxProposals],
                          total_processed : 0..(4 * MaxProposals),
                          failed : {0}, skipped : {0}]
    <2> SUFFICES ASSUME PipelineIsLevel
                 PROVE  pipeline \in [stage_counts : [StageNames -> 0..MaxProposals],
                                      total_processed : 0..(4 * MaxProposals),
                                      failed : {0}, skipped : {0}]
      OBVIOUS
    <2> DEFINE blocks == pipeline.stage_counts["Receiving"]
    <2>1. /\ pipeline \in PipelineStats /\ \A s \in StageNames : pipeline.stage_counts[s] = blocks
          /\ pipeline.total_processed = 4 * blocks /\ pipeline.failed = 0 /\ pipeline.skipped = 0
          /\ blocks <= MaxProposals
      BY DEF PipelineIsLevel
    <2>2. blocks \in 0..MaxProposals
      BY <2>1, EngineConstants DEF PipelineStats, StageNames
    <2> HIDE DEF blocks
    <2>3. pipeline.total_processed \in 0..(4 * MaxProposals)
      BY <2>1, <2>2, EngineConstants
    <2>4. pipeline.stage_counts \in [StageNames -> 0..MaxProposals]
      BY <2>1, <2>2 DEF PipelineStats
    <2> QED
      BY <2>1, <2>3, <2>4 DEF PipelineStats
  <1>2. ManagerProofs!Spec => []ManagerProofs!IInv
    BY ManagerProofs!IInvHolds, ManagerAssumptions, EngineConstants,
       SafetyConstants, PendingVotesConstants, PTL
  <1>3. ManagerProofs!IInv => Manager!TypeOK
    BY DEF ManagerProofs!IInv, Manager!TypeOK, ManagerProofs!TypeOK, Manager!IsOption,
         ManagerProofs!IsOption, Manager!Keys, ManagerProofs!Keys,
         Manager!Key, ManagerProofs!Key, Manager!SafetyStateData,
         ManagerProofs!SafetyStateData, Manager!U64, ManagerProofs!U64
  <1>4. IInv => RuntimeTypeOK
    BY DEF IInv
  <1>5. PipelineIsLevel /\ Manager!TypeOK /\ RuntimeTypeOK => TypeOK
    BY <1>1 DEF TypeOK
  <1> QED
    BY <1>2, <1>3, <1>4, <1>5, Invariance, ImplementsProvedManager, PipelineStaysLevel, PTL
=============================================================================
