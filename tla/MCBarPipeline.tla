--------------------------- MODULE MCBarPipeline ---------------------------
(* Small instances of BarPipeline. *)
EXTENDS BarPipeline, TLC

CONSTANTS s1, s2

SymbolSymmetry == Permutations(Symbols)

=============================================================================
