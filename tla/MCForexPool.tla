---------------------------- MODULE MCForexPool ----------------------------
(* Small instances of ForexPool. *)
EXTENDS ForexPool, TLC

CONSTANTS a, b   \* strategies
CONSTANTS eur    \* a pair

\* Strategies are interchangeable.
StrategySymmetry == Permutations(Strategies)

=============================================================================
