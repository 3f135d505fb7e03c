----------------------------- MODULE MCServices -----------------------------
EXTENDS StrategyRunner, StrategyExits, EventEmitter, Alerts

\* The background services are explored one at a time: the runner, the exits it
\* and the safety monitor decide, the event emitter and the alert engine.
VARIABLE part

\* What a part is like while another is explored: none of its tasks has work.
RunnerIdle == /\ rows = [s \in Strategies |-> [status |-> "disabled", errors |-> 0, version |-> 1]]
              /\ configs = [s \in Strategies |-> {[version |-> 1, active |-> TRUE]}]
              /\ editor = [e \in Editors |-> Idle] /\ loaded = Zeros /\ due = {}
              /\ task = [s \in Strategies |-> "none"] /\ signals = Zeros /\ broken = FALSE
              /\ faults = 0 /\ requests = 0 /\ streak = Zeros /\ disturbed = {}
ExitsIdle  == /\ price = 0 /\ config = (CHOOSE c \in Configs : TRUE) /\ status = "disabled"
              /\ position = <<>> /\ overrides = {} /\ trail = <<>> /\ look = NoLook /\ bars = 0
EmitterIdle == /\ queue = <<>> /\ waiting = [p \in Producers |-> <<>>] /\ batch = <<>> /\ writer = "done"
               /\ flushed = <<>> /\ stopper = "running" /\ written = <<>> /\ lost = {}
               /\ emitted = 0 /\ failures = 0
AlertsIdle == /\ now = 0 /\ records = [r \in Rules |-> {}] /\ open = FALSE /\ enabled = {} /\ cooldown = Seeded
              /\ instances = <<>> /\ rest = {} /\ cached = Seeded /\ view = <<>> /\ created = <<>> /\ resolved = {}
              /\ errors = 0 /\ switches = 0

MCInit == \/ part = "runner"  /\ Init    /\ ExitsIdle  /\ EmitterIdle /\ AlertsIdle
          \/ part = "exits"   /\ XInit   /\ RunnerIdle /\ EmitterIdle /\ AlertsIdle
          \/ part = "emitter" /\ EInit   /\ RunnerIdle /\ ExitsIdle   /\ AlertsIdle
          \/ part = "alerts"  /\ AInit  /\ RunnerIdle /\ ExitsIdle   /\ EmitterIdle

MCNext == \/ part = "runner"  /\ Next    /\ UNCHANGED <<part, xvars, evars, avars>>
          \/ part = "exits"   /\ XNext   /\ UNCHANGED <<part, vars, evars, avars>>
          \/ part = "emitter" /\ ENext   /\ UNCHANGED <<part, vars, xvars, avars>>
          \/ part = "alerts"  /\ ANext  /\ UNCHANGED <<part, vars, xvars, evars>>

allvars == <<part, vars, xvars, evars, avars>>

MCSpec == MCInit /\ [][MCNext]_allvars /\ Fairness /\ EFairness /\ AFairness

ExitsSpec == MCInit /\ part = "exits" /\ [][MCNext]_allvars

Percent(n) == <<[type |-> "percent", value |-> n]>>
Fixed(n)   == <<[type |-> "fixed", value |-> n]>>
Rules3(stop, target, trailing) == [stop |-> stop, target |-> target, trailing |-> trailing]
NoRule     == Rules3(<<>>, <<>>, <<>>)
Configured(top, nested, conditions, maxHold) ==
  [stop |-> top.stop, target |-> top.target, trailing |-> top.trailing,
   nested |-> nested, conditions |-> conditions, maxHold |-> maxHold]

ThePrices    == {80, 100, 120}
TheConfigs   == {Configured(Rules3(Percent(10), <<>>, <<>>), NoRule, FALSE, <<2>>),
                 Configured(Rules3(Percent(10), Percent(20), Fixed(5)), NoRule, TRUE, <<>>),
                 Configured(Rules3(<<>>, <<>>, Percent(10)), NoRule, FALSE, <<1>>),
                 Configured(NoRule, Rules3(Fixed(5), <<[type |-> "risk_multiple", value |-> 2]>>, <<>>), FALSE, <<>>),
                 Configured(Rules3(<<[type |-> "atr_multiple", value |-> 2]>>, <<[type |-> "risk_multiple", value |-> 30]>>, <<>>),
                            NoRule, FALSE, <<>>)}
TheOverrides == {[kind |-> "stop", rule |-> [type |-> "fixed", value |-> 5]],
                 [kind |-> "stop", rule |-> [type |-> "atr_multiple", value |-> 2]],
                 [kind |-> "target", rule |-> [type |-> "percent", value |-> 10]],
                 [kind |-> "trailing", rule |-> [type |-> "percent", value |-> 10]]}
TheAtrs      == {<<>>, <<2>>}

TheOrder  == <<"drawdown", "heartbeat", "queue">>
TheRules  == [drawdown  |-> [kind |-> "event_match", window |-> 1, count |-> 1, over |-> 0],
              heartbeat |-> [kind |-> "absence", window |-> 1, count |-> 0, over |-> 0],
              queue     |-> [kind |-> "metric_threshold", window |-> 1, count |-> 0, over |-> 0]]
TheSeeds    == [drawdown |-> 2, heartbeat |-> 1, queue |-> 1]
TheSwitched == {{"drawdown"}, {"heartbeat"}, {"queue"}}
=============================================================================
