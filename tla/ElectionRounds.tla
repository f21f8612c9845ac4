--------------------------- MODULE ElectionRounds ---------------------------
(***************************************************************************)
(* A host that asks for the proposer of one round after the other, by      *)
(* round-robin and by weight, and reports to the ReputationTracker how the *)
(* proposer did.  The powers and the first round are chosen at the start.  *)
(* ProposerElectionImpl, the wrapper with both, returns what the base      *)
(* election returns: scores never change an election.                      *)
(***************************************************************************)
EXTENDS ProposerElection

CONSTANTS
    Proposers,         \* the validators, in order
    Stranger,          \* an author the tracker was not created with
    MaxPower,          \* bound on a voting power
    InitialRounds,     \* initial_round of ProposerElectionConfig
    Defaults,          \* default reputations, in hundredths
    MaxJudged,         \* bound on the outcomes of the stranger
    LastRound          \* bound on the rounds asked for

Names == {Proposers[i] : i \in DOMAIN Proposers}

Judged == Names \cup {Stranger}

ASSUME ElectionConstants ==
    /\ Proposers \in Seq(Names)
    /\ \A i, j \in DOMAIN Proposers : Proposers[i] = Proposers[j] => i = j
    /\ MaxPower \in Nat
    /\ InitialRounds \subseteq Nat
    /\ Defaults \subseteq 0..100
    /\ MaxJudged \in Nat
    /\ LastRound \in Nat

VARIABLES
    weighted,      \* WeightedProposer::validators
    initialRound,  \* config.initial_round
    default,       \* default_reputation
    reputations,   \* ReputationTrackerImpl::reputations
    round,         \* the next round the host asks for
    turns,         \* history: proposers by round-robin, from initialRound on
    shares,        \* history: proposers by weight, from initialRound on
    wins, losses,  \* history: outcomes recorded since the last reset
    panicked       \* an election divided by zero

electionVars ==
    <<weighted, initialRound, default, reputations, round, turns, shares, wins, losses, panicked>>

config == <<weighted, initialRound, default>>

NoOutcomes == [a \in Judged |-> 0]

\* record_success or record_failure.
Record(a, outcome) ==
    \/ /\ outcome = "success"
       /\ reputations' = RecordSuccess(reputations, default, a)
       /\ wins' = [wins EXCEPT ![a] = @ + 1]
       /\ UNCHANGED losses
    \/ /\ outcome = "failure"
       /\ reputations' = RecordFailure(reputations, default, a)
       /\ losses' = [losses EXCEPT ![a] = @ + 1]
       /\ UNCHANGED wins

ElectionInit ==
    /\ weighted \in [DOMAIN Proposers -> [id : Names, power : 0..MaxPower]]
    /\ \A i \in DOMAIN Proposers : weighted[i].id = Proposers[i]
    /\ initialRound \in InitialRounds
    /\ default \in Defaults
    /\ reputations = [a \in Names |-> default]
    /\ round = 0
    /\ turns = <<>>
    /\ shares = <<>>
    /\ wins = NoOutcomes /\ losses = NoOutcomes
    /\ panicked = FALSE

Extend(log, elected) == IF elected = {} THEN log ELSE log \o <<CHOOSE a \in elected : TRUE>>

\* Both elections of a round; the outcome of the round is the proposer's.
Elect(outcome) ==
    LET proposer == RoundRobinProposer(Proposers, initialRound, round)
    IN  /\ ~panicked
        /\ round < LastRound
        /\ ~WeightedPanics(weighted, initialRound, round)
        /\ round' = round + 1
        /\ turns' = Extend(turns, proposer)
        /\ shares' = Extend(shares, WeightedProposer(weighted, initialRound, round))
        /\ \/ proposer = {} /\ UNCHANGED <<reputations, wins, losses>>
           \/ \E a \in proposer : Record(a, outcome)
        /\ UNCHANGED <<config, panicked>>

\* The tracker is told of somebody it does not know.
JudgeStranger(outcome) ==
    /\ ~panicked
    /\ wins[Stranger] + losses[Stranger] < MaxJudged
    /\ Record(Stranger, outcome)
    /\ UNCHANGED <<config, round, turns, shares, panicked>>

\* A division by zero ends the host.
ElectPanics ==
    /\ ~panicked
    /\ round < LastRound
    /\ WeightedPanics(weighted, initialRound, round)
    /\ panicked' = TRUE
    /\ UNCHANGED <<config, reputations, round, turns, shares, wins, losses>>

\* reset, at a change of epoch.
Reset ==
    /\ ~panicked
    /\ reputations' = ResetReputations(reputations, default)
    /\ wins' = NoOutcomes /\ losses' = NoOutcomes
    /\ UNCHANGED <<config, round, turns, shares, panicked>>

ElectionNext ==
    \/ \E outcome \in {"success", "failure"} : Elect(outcome)
    \/ \E outcome \in {"success", "failure"} : JudgeStranger(outcome)
    \/ ElectPanics
    \/ Reset

ElectionSpec == ElectionInit /\ [][ElectionNext]_electionVars

-----------------------------------------------------------------------------
(***************************************************************************)
(* Properties.                                                             *)
(***************************************************************************)

\* The variables stay in their types.
ElectionTypeOK ==
    /\ weighted \in [DOMAIN Proposers -> [id : Names, power : 0..MaxPower]]
    /\ \A i \in DOMAIN Proposers : weighted[i].id = Proposers[i]
    /\ initialRound \in InitialRounds
    /\ default \in Defaults
    /\ Names \subseteq DOMAIN reputations /\ DOMAIN reputations \subseteq Judged
    /\ \A a \in DOMAIN reputations : reputations[a] \in 0..100
    /\ round \in 0..LastRound
    /\ turns \in Seq(Names) /\ shares \in Seq(Names)
    /\ wins \in [Judged -> Nat] /\ losses \in [Judged -> Nat]
    /\ panicked \in BOOLEAN

Turns(log, from, to, a) == Cardinality({i \in from..to : log[i] = a})

\* Round-robin: at no time has anybody had two turns more than anybody else.
RoundRobinIsFair ==
    \A a, b \in Names :
        Turns(turns, 1, Len(turns), a) <= Turns(turns, 1, Len(turns), b) + 1

\* By weight: of any total-power consecutive rounds, wherever they begin,
\* each validator gets exactly its power, and nobody without power a turn.
WeightedIsProportional ==
    LET total == TotalVotingPower(weighted)
    IN  \A from \in 1..(Len(shares) - total + 1) : \A i \in DOMAIN weighted :
            Turns(shares, from, from + total - 1, weighted[i].id) = weighted[i].power

\* Only a validator set without any power stops the host, and it does so at
\* the first round of the election.
PanicsOnlyWithoutPower ==
    /\ panicked => \A i \in DOMAIN weighted : weighted[i].power = 0
    /\ shares # <<>> => \E i \in DOMAIN weighted : weighted[i].power > 0

\* A score stays between what the failures recorded since the last reset can
\* have taken and what the successes can have added, across the clamping at
\* both ends and the outcomes of others.
ReputationWithinRecord ==
    \A a \in Judged :
        LET score == GetReputation(reputations, default, a)
        IN  /\ score >= default - 10 * losses[a]
            /\ score <= default + wins[a]
            /\ losses[a] = 0 => score = Min({100, default + wins[a]})
            /\ wins[a] = 0 => score = Max({0, default - 10 * losses[a]})

\* The histories hold the elections of the rounds from initialRound on, none
\* missing and none twice.
HistoriesFollowRounds ==
    /\ Len(turns) = IF Proposers = <<>> THEN 0 ELSE Max({0, round - initialRound})
    /\ Len(shares) = Len(turns)
    /\ \A i \in DOMAIN turns :
          {turns[i]} = RoundRobinProposer(Proposers, initialRound, initialRound + i - 1)
    /\ \A i \in DOMAIN shares :
          {shares[i]} = WeightedProposer(weighted, initialRound, initialRound + i - 1)

\* The inductive invariant of ServiceProofs; the fairness of both elections
\* follows from it.
ElectionIInv ==
    /\ ElectionTypeOK
    /\ HistoriesFollowRounds
    /\ PanicsOnlyWithoutPower
    /\ ReputationWithinRecord
=============================================================================
