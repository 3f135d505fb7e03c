---------------------------- MODULE MCKillSwitch ----------------------------
(* Small instances of KillSwitch and of RiskLimits, one at a time. *)
EXTENDS KillSwitch, RiskLimits, TLC

CONSTANTS global, g1  \* scopes
CONSTANTS r1, r2          \* requests

VARIABLE part

SwitchIdle == /\ rows = [sc \in Scopes |-> [i \in Rows |-> "none"]]
              /\ req = [r \in Requests |-> Idle] /\ context = NoContext
              /\ passed = {} /\ armed = {} /\ overlap = {}
LimitsIdle == /\ LInit /\ config = (CHOOSE c \in RiskConfigs : TRUE)
              /\ price = [x \in Symbols |-> CHOOSE p \in Prices : TRUE] /\ peak = <<>>

MCInit == \/ part = "switch" /\ Init /\ LimitsIdle
          \/ part = "limits" /\ LInit /\ SwitchIdle

MCNext == \/ part = "switch" /\ Next /\ UNCHANGED <<part, lvars>>
          \/ part = "limits" /\ LNext /\ UNCHANGED <<part, vars>>

MCSpec == MCInit /\ [][MCNext]_<<part, vars, lvars>>

RequestSymmetry == Permutations(Requests)

Sizing(method, value, own, distance, stop, positions) ==
  [method |-> method, value |-> value, own |-> own, distance |-> distance, stop |-> stop, positions |-> positions]
TheSizings == [s1 |-> Sizing("fixed_qty", 2, 2, 0, 0, <<1>>),
               s2 |-> Sizing("percent_equity", 40, 50, 0, 0, <<>>)]
Limits(symbol, strategy, total, amount) ==
  [size |-> 40, symbol |-> symbol, strategy |-> strategy, total |-> total, drawdown |-> 10, catastrophic |-> 20,
   lossAmount |-> amount, lossPercent |-> 5, minimum |-> 5]
TheRiskConfigs == {Limits(50, 60, 80, <<>>), Limits(60, 50, 70, <<10>>)}
TheTimes == {[weekday |-> 1, hour |-> 15], [weekday |-> 5, hour |-> 15]}

=============================================================================
