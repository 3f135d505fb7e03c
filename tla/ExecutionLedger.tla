-------------------------- MODULE ExecutionLedger --------------------------
(***************************************************************************)
(* What the signal pipeline promises, without loops, sessions or races: a  *)
(* signal is decided at most once, only an approved signal is ordered, at  *)
(* most once, and both records are permanent.  risk_decisions and          *)
(* paper_orders carry a UNIQUE constraint on signal_id; this is what the   *)
(* two tables mean together.                                               *)
(***************************************************************************)
CONSTANT Signals

VARIABLES decision, order

Init ==
  /\ decision = [s \in Signals |-> "none"]
  /\ order = [s \in Signals |-> "none"]

\* One evaluation cycle decides some undecided, unordered signals.
Decide ==
  /\ decision' \in [Signals -> {"none", "approved", "modified", "rejected"}]
  /\ \A s \in Signals :
       decision'[s] # decision[s] => decision[s] = "none" /\ order[s] = "none"
  /\ UNCHANGED order

\* One consumer cycle orders some approved signals that have no order yet.
Execute ==
  /\ order' \in [Signals -> {"none", "pending", "filled", "rejected"}]
  /\ \A s \in Signals :
       order'[s] # order[s] =>
         order[s] = "none" /\ decision[s] \in {"approved", "modified"}
  /\ UNCHANGED decision

Next == Decide \/ Execute

Spec == Init /\ [][Next]_<<decision, order>>

=============================================================================
