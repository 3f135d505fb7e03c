-------------------------- MODULE MCSignalPipeline --------------------------
(* Small instances of SignalPipeline. *)
EXTENDS SignalPipeline

CONSTANTS g1, g2   \* two strategies

TwoSignals == {1, 2}

OneOwner == [s \in Signals |-> g1]

\* Signal 2 belongs to the other strategy.
Owner == [s \in Signals |-> IF s = 2 THEN g2 ELSE g1]

=============================================================================
