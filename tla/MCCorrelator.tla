---------------------------- MODULE MCCorrelator ----------------------------
(* Small instances of Correlator for TLC. *)
EXTENDS Correlator, TLC

CONSTANTS a, b

Spike     == [key |-> "spike",     score |-> 90, modality |-> "log",    asked |-> FALSE]
Drift     == [key |-> "drift",     score |-> 90, modality |-> "metric", asked |-> FALSE]
Threshold == [key |-> "threshold", score |-> 99, modality |-> "metric", asked |-> TRUE]

ThreeAndOne == (a :> 3) @@ (b :> 1)
FewObs == [wall |-> ThreeAndOne, event |-> ThreeAndOne]
AllSignals == {Spike, Drift, Threshold}
=============================================================================
