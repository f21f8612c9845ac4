------------------------ MODULE TimeoutCertificates ------------------------
(***************************************************************************)
(* TwoChainTimeout and TwoChainTimeoutCertificate                          *)
(* (consensus-core/src/timeout/two_chain.rs).  Signatures are left out:    *)
(* verify() does not look at them.                                         *)
(***************************************************************************)
EXTENDS SafetyRules

TwoChainTimeout(epoch, round, hqcRound) ==
    [epoch |-> epoch, round |-> round, hqc_round |-> hqcRound]

DefaultTimeout == TwoChainTimeout(0, 0, 0)

TimeoutVerifyOk(t) == t.hqc_round < t.round

\* TwoChainTimeoutCertificate::new: the rounds are taken as given, whatever
\* the timeout says.
TimeoutCertificate(epoch, round, hqcRound, highestTcRound, timeout) ==
    [epoch |-> epoch, round |-> round, hqc_round |-> hqcRound,
     highest_tc_round |-> highestTcRound, timeout |-> timeout]

TcVerifyOk(tc) ==
    /\ TimeoutVerifyOk(tc.timeout)
    /\ tc.hqc_round < tc.round
    /\ tc.highest_tc_round < tc.round

AllowsAdvance(tc) ==
    \/ tc.round = WrappingAdd(tc.hqc_round, 1)
    \/ tc.round = WrappingAdd(tc.highest_tc_round, 1)

EffectiveHqcRound(tc) == Larger(tc.hqc_round, tc.highest_tc_round)

\* What serde makes of a certificate that is stored or sent and read back:
\* the timeout is skipped and comes back as the default one.
OverTheWire(tc) == [tc EXCEPT !.timeout = DefaultTimeout]
=============================================================================
