------------------------------ MODULE Validation ------------------------------
(***************************************************************************)
(* The validator of a strategy's configuration.  Its keys are in one case. *)
(*                                                                         *)
(* A configuration is a record of entry and exit (groups or None),         *)
(* stop_loss, take_profit, nested_stop and nested_take ([type, value] or   *)
(* None, the nested ones from risk_management), sizing ([method, value,    *)
(* max_positions] or None), symbols ([mode, some, filters] or None, a      *)
(* plain list having the mode "list"), market, timeframe and lookback.     *)
(* The errors are the fields complained about.                             *)
(***************************************************************************)
EXTENDS Conditions

ValidTimeframes == {"1m", "5m", "15m", "1h", "4h"}
ValidOperators  == {"greater_than", "less_than", "greater_than_or_equal", "less_than_or_equal",
                    "equal"} \cup Crossings \cup RangeTests
OperandTypes    == {"indicator", "formula", "value"}
SizingMethods   == {"fixed_qty", "fixed_dollar", "percent_equity", "risk_based"}
SymbolModes     == {"explicit", "watchlist", "filtered"}

\* The range of an integer parameter, and of a real one in tenths.
Bounds(key, param) ==
  CASE param \in {"fast", "signal"}      -> <<2, 100>>
    [] param \in {"d_period", "slowing"} -> <<IF param = "slowing" THEN 1 ELSE 2, 50>>
    [] param \in {"std_dev", "atr_multiplier"} -> <<1, 50>>
    [] param = "period" /\ key \in {"sma", "ema", "wma", "volume_sma"} -> <<2, 500>>
    [] OTHER -> <<2, 200>>

RECURSIVE Leaves(_)

\* The conditions of a group and of the groups in it.
Leaves(item) ==
  IF ~IsGroup(item) THEN {item} ELSE UNION {Leaves(i) : i \in ToSet(item.conditions)}

RECURSIVE Groups(_)

Groups(item) ==
  IF ~IsGroup(item) THEN {} ELSE {item} \cup UNION {Groups(i) : i \in ToSet(item.conditions)}

Given(option) == IF option = None THEN {} ELSE {option[1]}

Conditions(config) == UNION {Leaves(g) : g \in Given(config.entry) \cup Given(config.exit)}

OperandsOf(config) == UNION {{c.left, c.right} : c \in Conditions(config)}

IndicatorsOf(config) == {o \in OperandsOf(config) : TypeOrNone(o) = "indicator"}

\* The largest period named in the conditions.
MaxPeriod(config) ==
  LET periods == UNION {{o.params[n] : n \in DOMAIN o.params \cap {"period", "slow", "k_period"}} :
                        o \in IndicatorsOf(config)} \ {Null}
  IN CHOOSE m \in periods \cup {0} : \A p \in periods : p <= m

\* A value of 0 counts as none.
HasValue(rule) == rule # None /\ rule[1].value \notin {None, Some(0)}

StopLoss(config)   == IF config.stop_loss # None THEN config.stop_loss ELSE config.nested_stop
TakeProfit(config) == IF config.take_profit # None THEN config.take_profit ELSE config.nested_take

HasExit(config) ==
  \/ \E g \in Given(config.exit) : g.conditions # <<>>
  \/ HasValue(StopLoss(config))
  \/ HasValue(TakeProfit(config))

Completeness(config) ==
  {f \in {"entry_conditions", "exit", "position_sizing", "position_sizing.method", "symbols",
          "symbols.list", "timeframe"} :
     CASE f = "entry_conditions" -> \A g \in Given(config.entry) : g.conditions = <<>>
       [] f = "exit"             -> ~HasExit(config)
       [] f = "position_sizing"  -> config.sizing = None
       [] f = "position_sizing.method" -> \E s \in Given(config.sizing) : s.method \notin SizingMethods
       [] f = "symbols"          -> config.symbols = None
       [] f = "symbols.list"     -> \E s \in Given(config.symbols) :
                                      s.mode \in {"list", "explicit", "specific"} /\ ~s.some
       [] OTHER                  -> config.timeframe \notin ValidTimeframes}

LookbackWarning(config) == config.lookback < MaxPeriod(config)

SingleIndicator(o) ==
  IF o.indicator \notin DOMAIN Registry THEN {"indicator"}
  ELSE LET def == Registry[o.indicator]
           bad(p) == /\ p.name \in DOMAIN o.params
                     /\ LET v == o.params[p.name]
                            b == Bounds(o.indicator, p.name)
                        IN CASE p.type = "int"   -> v # Null /\ v \notin b[1]..b[2]
                             [] p.type = "float" -> Less(v, Q(b[1], 10)) \/ Less(Q(b[2], 10), v)
                             [] OTHER            -> v \notin Sources
       IN {p.name : p \in {p \in ToSet(def.params) : bad(p)}}
          \cup (IF Len(def.outputs) > 1 /\ o.output \notin ToSet(def.outputs) THEN {"output"} ELSE {})

IndicatorErrors(config) == UNION {SingleIndicator(o) : o \in IndicatorsOf(config)}

FormulaErrors(config) ==
  IF \E o \in OperandsOf(config) : TypeOrNone(o) = "formula" /\ Validate(o.expression) # "valid"
  THEN {"expression"} ELSE {}

SymbolErrors(config) ==
  {f \in {"symbols.mode", "symbols.filters"} : \E s \in Given(config.symbols) :
     IF f = "symbols.mode" THEN s.mode \notin SymbolModes \cup {"list"}
                           ELSE s.mode = "filtered" /\ ~s.filters}

SymbolWarning(config) == \E s \in Given(config.symbols) : s.mode = "watchlist" /\ ~config.market

\* In tenths of a percent.
StopErrors(config) ==
  IF \E s \in Given(StopLoss(config)) :
       s.type = "percent" /\ s.value # None /\ (s.value[1] < 1 \/ s.value[1] > 500)
  THEN {"stop_loss.value"} ELSE {}

StopWarning(config) ==
  \E s \in Given(StopLoss(config)) : s.type = "percent" /\ s.value # None /\ s.value[1] \in 101..500

SizingErrors(config) ==
  {f \in {"position_sizing.value", "position_sizing.max_positions"} : \E s \in Given(config.sizing) :
     IF f = "position_sizing.value" THEN s.method = "percent_equity" /\ s.value > 100
                                    ELSE s.max_positions < 1}

SizingWarning(config) ==
  \E s \in Given(config.sizing) : s.method = "percent_equity" /\ s.value \in 26..100

WrongTypes(operands) == {TypeOrNone(o) : o \in operands} \ (OperandTypes \cup {""}) # {}


\* A type may be missing, and that of the right side of a range is not looked at.
BadTypes(c) == WrongTypes(IF c.operator \in RangeTests THEN {c.left} ELSE {c.left, c.right})

ConditionErrors(config) ==
  {f \in {"logic", "operator", "type"} :
     CASE f = "logic" -> \E g \in UNION {Groups(h) : h \in Given(config.entry) \cup Given(config.exit)} :
                           g.logic \notin {"and", "or"}
       [] f = "operator" -> \E c \in Conditions(config) : c.operator \notin ValidOperators
       [] OTHER          -> \E c \in Conditions(config) : BadTypes(c)}

Errors(config) ==
  Completeness(config) \cup IndicatorErrors(config) \cup FormulaErrors(config)
  \cup SymbolErrors(config) \cup StopErrors(config) \cup SizingErrors(config)
  \cup ConditionErrors(config)

Warnings(config) ==
  {w \in {"lookback_bars", "symbols.market", "stop_loss.value", "position_sizing.value"} :
     CASE w = "lookback_bars"   -> LookbackWarning(config)
       [] w = "symbols.market"  -> SymbolWarning(config)
       [] w = "stop_loss.value" -> StopWarning(config)
       [] OTHER                 -> SizingWarning(config)}

=============================================================================
