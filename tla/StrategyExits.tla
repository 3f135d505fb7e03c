---------------------------- MODULE StrategyExits ----------------------------
(***************************************************************************)
(* How a position is looked after: by the runner while its strategy is     *)
(* enabled, by the safety monitor while it is paused or disabled.  Both    *)
(* compare the latest close with stop, target and trailing level and emit  *)
(* an exit signal.  Prices are positive, percents divide them.             *)
(***************************************************************************)
EXTENDS Integers, Sequences

CONSTANTS Prices, Configs,  \* configurations of the strategy
          Overrides,        \* overrides a request may create, [kind, rule]
          Atrs,             \* average true ranges of the bars at a look, None with too few bars
          MaxBars           \* bound: bars

VARIABLES price, config, status,
          position,   \* None or [side, entry, held]
          overrides,  \* active overrides of the position
          trail,      \* trailing_<symbol> in the strategy's state
          look,       \* the last look: who looked and the reason of the exit
          bars

xvars == <<price, config, status, position, overrides, trail, look, bars>>

None    == <<>>
Some(x) == <<x>>

Kinds  == {"stop", "target", "trailing"}
NoLook == [by |-> "nobody", reason |-> "none"]

Or(a, b) == IF a # None THEN a ELSE b

\* A level on the losing side of a price, and what has reached it.
Away(side, base, d)  == IF side = "long" THEN base - d ELSE base + d
Behind(side, level)  == IF side = "long" THEN price <= level ELSE price >= level
Beyond(side, level)  == IF side = "long" THEN price >= level ELSE price <= level

Known == {"percent", "fixed"}

Distance(rule, base) == IF rule.type = "percent" THEN (base * rule.value) \div 100 ELSE rule.value

First(reasons) == IF \E i \in DOMAIN reasons : reasons[i][2]
                  THEN reasons[CHOOSE i \in DOMAIN reasons : reasons[i][2] /\ \A j \in 1..(i - 1) : ~reasons[j][2]][1]
                  ELSE "none"

-----------------------------------------------------------------------------
(* The trailing level, of both *)

\* The extreme since the entry is taken from the state, or is the close; it is
\* stored only when the close passes it.
Extreme(side) ==
  LET kept == Or(trail, Some(price))[1]
  IN IF side = "long" THEN (IF price > kept THEN price ELSE kept)
     ELSE IF price < kept THEN price ELSE kept

Passed(side) == Some(Extreme(side)) # Or(trail, Some(price))

TrailLevel(rule, side) == Away(side, Extreme(side), Distance(rule, Extreme(side)))

-----------------------------------------------------------------------------
(* The runner *)

\* Both read the key avg_entry of a position that has avg_entry_price only.
AvgEntry(p) == 0

RuleOf(kind) == Or(config[kind], config.nested[kind])

StopDistance(rule, p, atr) ==
  IF rule.type \in Known THEN Some(Distance(rule, AvgEntry(p)))
  ELSE IF atr = None THEN None ELSE Some(atr[1] * rule.value)

\* A multiple of the risk is that many distances to the stop, if there is one.
TargetDistance(rule, stop, p, atr) ==
  CASE rule.type # "risk_multiple" -> StopDistance(rule, p, atr)
    [] rule.type = "risk_multiple" /\ stop = None -> None
    [] OTHER -> LET risk == StopDistance(stop[1], p, atr)
                IN IF risk = None THEN None ELSE Some(risk[1] * rule.value)

\* Conditions first, then stop, target, trailing level and time.
RunnerExit(conditions, atr) ==
  LET p == position[1]
      stop == RuleOf("stop")
      target == RuleOf("target")
      trailing == RuleOf("trailing")
      risk == IF stop = None THEN None ELSE StopDistance(stop[1], p, atr)
      gain == IF target = None THEN None ELSE TargetDistance(target[1], stop, p, atr)
  IN First(<< <<"exit_conditions_met", conditions>>,
              <<"stop_loss", risk # None /\ Behind(p.side, Away(p.side, AvgEntry(p), risk[1]))>>,
              <<"take_profit", gain # None /\ Beyond(p.side, Away(p.side, AvgEntry(p), -gain[1]))>>,
              <<"trailing_stop", trailing # None /\ Behind(p.side, TrailLevel(trailing[1], p.side))>>,
              <<"max_hold", config.maxHold # None /\ p.held >= config.maxHold[1]>> >>)

-----------------------------------------------------------------------------
(* The safety monitor *)

\* Of several overrides of a kind any may be the last one applied.
Applied == {f \in [Kinds -> {None} \cup {Some(o.rule) : o \in overrides}] :
              \A k \in Kinds : LET those == {Some(o.rule) : o \in {x \in overrides : x.kind = k}}
                               IN IF those = {} THEN f[k] = None ELSE f[k] \in those}

\* Mutant: the stop of a short is looked for on the side of a long.
MonitorStopLong(rule, p) == rule.type \in Known /\ price <= Away(p.side, AvgEntry(p), Distance(rule, AvgEntry(p)))

MonitorStop(rule, p) ==
  rule.type \in Known /\ Behind(p.side, Away(p.side, AvgEntry(p), Distance(rule, AvgEntry(p))))

MonitorTarget(rule, p) ==
  rule.type \in Known /\ Beyond(p.side, Away(p.side, AvgEntry(p), -Distance(rule, AvgEntry(p))))

\* The rules of the risk_management section are not looked at.
MonitorExit(applied) ==
  LET p == position[1]
      rule(k) == Or(applied[k], config[k])
  IN First(<< <<"stop_loss", rule("stop") # None /\ MonitorStop(rule("stop")[1], p)>>,
              <<"take_profit", rule("target") # None /\ MonitorTarget(rule("target")[1], p)>>,
              <<"trailing_stop", rule("trailing") # None /\ Behind(p.side, TrailLevel(rule("trailing")[1], p.side))>> >>)

-----------------------------------------------------------------------------
(* Actions *)

XInit ==
  /\ price \in Prices /\ config \in Configs /\ status = "enabled"
  /\ position = None /\ overrides = {} /\ trail = None /\ look = NoLook /\ bars = 0

\* An entry is filled at the close.
Enter(side) ==
  /\ status = "enabled" /\ position = None
  /\ position' = Some([side |-> side, entry |-> price, held |-> 0]) /\ look' = NoLook
  /\ UNCHANGED <<price, config, status, overrides, trail, bars>>

Bar(p) ==
  /\ bars < MaxBars /\ bars' = bars + 1
  /\ price' = p /\ look' = NoLook
  /\ position' = IF position = None THEN None ELSE Some([position[1] EXCEPT !.held = @ + 1])
  /\ UNCHANGED <<config, status, overrides, trail>>

SetStatus(s) ==
  /\ s # status /\ status' = s /\ look' = NoLook
  /\ UNCHANGED <<price, config, position, overrides, trail, bars>>

Override(o) ==
  /\ position # None /\ o \notin overrides
  /\ overrides' = overrides \cup {o} /\ look' = NoLook
  /\ UNCHANGED <<price, config, status, position, trail, bars>>

RemoveOverride(o) ==
  /\ o \in overrides
  /\ overrides' = overrides \ {o} /\ look' = NoLook
  /\ UNCHANGED <<price, config, status, position, trail, bars>>

Looked(who, reason, trailing) ==
  /\ look' = [by |-> who, reason |-> reason]
  /\ trail' = IF reason \in {"none", "trailing_stop", "max_hold"} /\ trailing # None /\ Passed(position[1].side)
              THEN Some(Extreme(position[1].side)) ELSE trail
  /\ UNCHANGED <<price, config, status, position, overrides, bars>>

EvaluateExit(conditions, atr) ==
  /\ status = "enabled" /\ position # None /\ look = NoLook
  /\ conditions => config.conditions
  /\ Looked("runner", RunnerExit(conditions, atr), RuleOf("trailing"))

RunCheck ==
  /\ status # "enabled" /\ position # None /\ look = NoLook
  /\ \E applied \in Applied : Looked("monitor", MonitorExit(applied), Or(applied["trailing"], config.trailing))

\* The exit signal is executed; overrides are of the position, the state of the
\* strategy is not touched.
Leave ==
  /\ look.reason # "none" /\ position # None
  /\ position' = None /\ overrides' = {} /\ look' = NoLook
  /\ UNCHANGED <<price, config, status, trail, bars>>

XNext ==
  \/ \E side \in {"long", "short"} : Enter(side)
  \/ \E p \in Prices : Bar(p)
  \/ \E s \in {"enabled", "paused"} : SetStatus(s)
  \/ \E o \in Overrides : Override(o) \/ RemoveOverride(o)
  \/ \E c \in BOOLEAN, atr \in Atrs : EvaluateExit(c, atr)
  \/ RunCheck \/ Leave

XSpec == XInit /\ [][XNext]_xvars

-----------------------------------------------------------------------------
(* Properties *)

\* A position is not worse off for losing its runner: as long as the rules stand
\* at the top of the configuration, in percents or fixed distances, and no
\* override or condition intervenes, the monitor and the runner, which are written
\* separately, see the same exit.
MonitorAgrees ==
  position # None /\ overrides = {}
    /\ (\A k \in Kinds : config.nested[k] = None /\ (config[k] = None \/ config[k][1].type \in Known))
  => \A applied \in Applied, atr \in Atrs :
       LET seen == RunnerExit(FALSE, atr)
       IN MonitorExit(applied) = IF seen = "max_hold" THEN "none" ELSE seen

\* What the specification of the module promises of every evaluation: a position
\* that is kept is on the good side of its stop.
StopsProtect ==
  look.by # "nobody" /\ look.reason = "none" /\ RuleOf("stop") # None /\ RuleOf("stop")[1].type \in Known =>
    LET p == position[1] IN ~Behind(p.side, Away(p.side, p.entry, Distance(RuleOf("stop")[1], p.entry)))
=============================================================================
