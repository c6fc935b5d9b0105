---------------------------- MODULE MCCoinLedger ----------------------------
(* Instances of CoinLedger for TLC.                                        *)
EXTENDS CoinLedger, TLC

CONSTANTS a, b, f1, f2, m, s

Burst == [src |-> "slot", narrow |-> FALSE, close |-> TRUE, node |-> m]

\* Pulses in quick succession are accepted and rejected in turn, as a rejected
\* one clears the remembered time stamp: both kinds of event from one pulse.
BurstPulses == {Burst}

\* Clients are interchangeable, and so are descriptors.
Symmetry == Permutations(Clients) \cup Permutations(Fds)
=============================================================================
