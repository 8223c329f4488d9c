---------------------------- MODULE MCFluxMonitor ----------------------------
(* One checker of the flux monitor, for TLC: one round with two faults, two   *)
(* rounds with one fault or two runs, and changes of flags.                   *)
EXTENDS FluxMonitor

OneRound  == [rounds |-> 1, runs |-> 2, raised |-> 0, flags |-> 0, faults |-> 2]
TwoRounds == [OneRound EXCEPT !.rounds = 2, !.runs = 1, !.faults = 1]
TwoRuns   == [OneRound EXCEPT !.rounds = 2, !.faults = 0]
Flags     == [rounds |-> 0, runs |-> 1, raised |-> 2, flags |-> 4, faults |-> 1]

Instances == {OneRound, TwoRounds, TwoRuns, Flags}

Faultless == {TwoRuns}
=============================================================================
