-------------------------- MODULE ProposerElection --------------------------
(***************************************************************************)
(* The election strategies and the reputation scores of                    *)
(* consensus-core/src/liveness/proposer.rs, with the defaults of the trait *)
(* (consensus-traits/src/proposer.rs).  A proposer is an Option.  Scores   *)
(* are in hundredths; the rounding of f64 is left out.                     *)
(***************************************************************************)
EXTENDS Integers, Sequences, FiniteSets, FiniteSetsExt

\* Mutant: the last validator never gets a turn.
RoundRobinProposer_SkipsLast(validators, initialRound, round) ==
    IF validators = <<>> \/ round < initialRound
    THEN {}
    ELSE {validators[((round - initialRound) % Max({1, Len(validators) - 1})) + 1]}

RoundRobinProposer(validators, initialRound, round) ==
    IF validators = <<>> \/ round < initialRound
    THEN {}
    ELSE {validators[((round - initialRound) % Len(validators)) + 1]}

\* A weighted validator is a record with an id and a power.
Cumulative(validators, i) == MapThenSumSet(LAMBDA j : validators[j].power, 1..i)

\* Mutant: the last validator is left out of the sum.
TotalVotingPower_SkipsLast(validators) == Cumulative(validators, Max({0, Len(validators) - 1}))

TotalVotingPower(validators) == Cumulative(validators, Len(validators))

\* The remainder by a total of zero.
WeightedPanics(validators, initialRound, round) ==
    /\ validators # <<>>
    /\ round >= initialRound
    /\ TotalVotingPower(validators) = 0

\* Mutant: the bound of a share is counted to it.
WeightedProposer_Inclusive(validators, initialRound, round) ==
    IF validators = <<>> \/ round < initialRound
    THEN {}
    ELSE LET target == round % TotalVotingPower(validators)
             first == Min({i \in DOMAIN validators : target <= Cumulative(validators, i)})
         IN  {validators[first].id}

\* The first validator whose cumulated power exceeds the target.  One always
\* does: the fallback to the last validator is never reached.
WeightedProposer(validators, initialRound, round) ==
    IF validators = <<>> \/ round < initialRound
    THEN {}
    ELSE LET target == round % TotalVotingPower(validators)
             first == Min({i \in DOMAIN validators : target < Cumulative(validators, i)})
         IN  {validators[first].id}

IsValidProposer(elected, author) == elected = {author}

(***************************************************************************)
(* Reputation.                                                             *)
(***************************************************************************)
Clamp(x) == Max({0, Min({x, 100})})

\* reputations is a function; authors it does not hold have the default.
GetReputation(reputations, default, author) ==
    IF author \in DOMAIN reputations THEN reputations[author] ELSE default

UpdateReputation(reputations, default, author, delta) ==
    [a \in DOMAIN reputations \cup {author} |->
        IF a = author THEN Clamp(GetReputation(reputations, default, a) + delta)
                      ELSE reputations[a]]

RecordSuccess(reputations, default, author) == UpdateReputation(reputations, default, author, 1)

RecordFailure(reputations, default, author) == UpdateReputation(reputations, default, author, -10)

\* Mutant: the scores stay.
ResetReputations_Keeps(reputations, default) == reputations

ResetReputations(reputations, default) == [a \in DOMAIN reputations |-> default]
=============================================================================
