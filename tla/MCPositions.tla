---------------------------- MODULE MCPositions ----------------------------
(* A small instance of Positions and, as a part of its own, of DailyJobs. *)
EXTENDS Positions, DailyJobs, TLC

CONSTANT option   \* the only key

VARIABLE part

MCInit == Init /\ DInit /\ part \in {"rows", "jobs"}

MCNext == \/ part = "rows" /\ Next     /\ UNCHANGED <<part, dvars>>
          \/ part = "jobs" /\ DNext    /\ UNCHANGED <<part, vars>>

MCSpec == MCInit /\ [][MCNext]_<<part, vars, dvars>>

TheActions == {"dividend", "split"}
TheLots == {2, -2, -4}

Dividend(ex, payable) ==
  [kind |-> "cash", ex |-> ex, payable |-> payable, cash |-> 2, num |-> 1, den |-> 1]
Split(kind, num, den) ==
  [kind |-> kind, ex |-> 2, payable |-> 2, cash |-> 0, num |-> num, den |-> den]

\* The split of day 2 is two for one, three for two or one for two.
TheTerms == [dividend |-> {Dividend(1, 2), Dividend(2, 2), Dividend(2, 3), Dividend(3, 3)},
             split |-> {Split("forward_split", 2, 1), Split("forward_split", 3, 2),
                        Split("reverse_split", 1, 2)}]

=============================================================================
