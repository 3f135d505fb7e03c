---------------------------- MODULE MCCashLedger ----------------------------
(* Small instances of CashLedger. *)
EXTENDS CashLedger, TLC

CONSTANTS equities, pool1          \* scopes
CONSTANTS consumer, jobs, a1, a2   \* sessions
CONSTANT nobody

AdminSymmetry == Permutations(Admins)

=============================================================================
