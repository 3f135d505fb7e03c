---------------------------- MODULE MCAlgorithms ----------------------------
(***************************************************************************)
(* The indicators, formulas, conditions and the validator over their       *)
(* bounded inputs: bars that arrive one by one, sentences that are typed   *)
(* token by token, configurations that are edited field by field.          *)
(***************************************************************************)
EXTENDS Validation

CONSTANTS MaxBars, MaxTokens

VARIABLES part, bars, tokens, config

vars == <<part, bars, tokens, config>>

-----------------------------------------------------------------------------
(* Inputs *)

Bar(o, h, l, c, v) == [open |-> o, high |-> h, low |-> l, close |-> c, volume |-> v]

Shapes == {Bar(2, 2, 2, 2, 1), Bar(1, 3, 1, 3, 2), Bar(3, 3, 1, 1, 1), Bar(2, 4, 2, 4, 1)}

\* Prices turned upside down.
Mirror(bs) == [i \in 1..Len(bs) |->
                 Bar(5 - bs[i].open, 5 - bs[i].low, 5 - bs[i].high, 5 - bs[i].close, bs[i].volume)]

Vocabulary == {"1", "rsi", "and", "not", "-", "*", "(", ")", ",", "1.2.3"}

V(n)            == [type |-> "value", value |-> n]
I(key, par, out) == [type |-> "indicator", indicator |-> key, params |-> par, output |-> out]
F(ts)           == [type |-> "formula", expression |-> ts]
C(l, op, r)     == [left |-> l, operator |-> op, right |-> r]
G(logic, items) == [logic |-> logic, conditions |-> items]
Between(a, b)   == [type |-> "range", min |-> a, max |-> b]
Macds(f, s)     == I("macd", [fast |-> f, slow |-> s, signal |-> 2], "signal_line")

Two    == [period |-> 2]
Short  == [fast |-> 2, slow |-> 3, signal |-> 2]
Slow   == [k_period |-> 2, d_period |-> 2, slowing |-> 1]

SourceOperands == {I(k, [period |-> 2, source |-> s], "") : k \in {"sma", "ema", "wma", "rsi"},
                                                           s \in {"close", "hl2"}}
PlainOperands  == {I(k, Two, "") : k \in {"cci", "mfi", "williams_r", "atr", "volume_sma",
                                          "adx", "plus_di", "minus_di"}}
OtherOperands  == {I(k, Empty, "") : k \in {"vwap", "obv", "volume", "prev_low"} \cup BarFields}
BandOperands   == {I("bbands", Two, "upper"), I("keltner", Two, "lower")}
SplitOperands  == {I("macd", Short, o) : o \in {"macd_line", "histogram"}}
                  \cup {I("stochastic", Slow, o) : o \in {"k", "d"}}
WrongOperands  == {I("rsi", [period |-> 1], ""), I("smi", Two, ""), I("macd", Short, ""),
                   I("stochastic", Slow, "histogram"), I("sma", [period |-> 2, source |-> "bid"], "")}

\* What a request may leave out, exchange or misname.
Untyped     == [value |-> 2]
Valueless   == [type |-> "value"]
Misnamed    == [type |-> "price"]
OddOperands == {Untyped, Valueless, Misnamed, Between(1, 3), I("sma", [period |-> Null], ""),
                Macds(2, 3), Macds(3, 2), Macds(4, 2)}
OddRanges   == {Between(3, 1), [type |-> "range", min |-> 1], [type |-> "range"], [min |-> 1, max |-> 3],
                [type |-> "span", min |-> 1, max |-> 3], V(2)}

Expressions == {<<"close", "-", "1">>, <<"prev", "(", "rsi", "(", "2", ")", ")">>, <<"1", "/", "obv">>,
                <<"foo">>, <<"not", "foo">>, <<"close", "+", "foo">>, <<"min", "(", "foo", ",", "close", ")">>,
                <<"max", "(", "foo", ")">>, <<"abs", "(", ")">>, <<"crosses_above", "(", "close", ")">>,
                <<"crosses_below", "(", "close", ",", "2", ")">>, <<"prev", "(", ")">>,
                <<"smo", "(", "2", ")">>, <<"close", "-">>, <<"1.2.3">>}

Indicated == SourceOperands \cup PlainOperands \cup OtherOperands \cup BandOperands \cup SplitOperands

Close   == I("close", Empty, "")
Average == I("sma", [period |-> 2], "")
Line    == I("macd", Short, "macd_line")
Signal  == I("macd", Short, "signal_line")

\* Pairs of operands that cross.
Pairs == {<<Close, Average>>, <<Close, V(2)>>, <<I("rsi", Two, ""), V(50)>>}

\* The same operands as sentences.
Sentences == {<<Close, <<"close">>>>, <<Average, <<"sma", "(", "2", ",", "close", ")">>>>,
              <<V(2), <<"2">>>>, <<V(50), <<"50">>>>, <<I("rsi", Two, ""), <<"rsi", "(", "2", ")">>>>}

SentenceOf(o) == (CHOOSE s \in Sentences : s[1] = o)[2]

Groupings == {G("and", <<C(Line, "greater_than", Signal), C(Signal, "less_than", V(0))>>),
              G("or", <<C(Line, "crosses_above", Signal),
                        G("and", <<C(Signal, "crosses_below", Line), C(Close, "outside", Between(2, 3))>>),
                        C(I("macd", Short, "histogram"), "equal", Line)>>),
              G("and", <<G("or", <<>>), C(Average, "between", Between(2, 3)),
                         C(Average, "crosses_above", Close)>>)}

EntryGroups == {None, Some(G("and", <<>>)), Some(G("and", <<C(Close, "crosses_above", Average)>>)),
                Some(G("or", <<C(Line, "greater_than", V(0)), G("and", <<C(Close, "between", Between(1, 2))>>)>>)),
                Some(G("xor", <<C(Close, "greater_than", V(1))>>))}
               \cup {Some(G("and", <<C(o, "greater_than", V(1))>>)) : o \in WrongOperands}
               \cup {Some(G("and", <<C(F(<<"close", "-", "1">>), "less_than", F(<<"rsi", "(", "2", ")">>))>>)),
                     Some(G("and", <<C(F(<<"close", "-">>), "less_than", V(2))>>)),
                     Some(G("and", <<C(F(<<"foo">>), "less_than", V(2))>>)),
                     Some(G("and", <<C(Macds(4, 2), "less_than", V(2))>>)),
                     Some(G("and", <<C(Close, "near", V(2))>>))}

Rule(t, v) == [type |-> t, value |-> v]

ExitGroups == {None, Some(G("and", <<C(Close, "less_than", Average)>>)), Some(G("and", <<>>)),
               Some(G("or", <<G("and", <<>>)>>)), Some(G("and", <<C(Close, "outside", V(2))>>))}

Fields == [entry       |-> EntryGroups,
           exit        |-> ExitGroups,
           stop_loss   |-> {None, Some(Rule("percent", Some(20))), Some(Rule("percent", Some(501))),
                            Some(Rule("fixed", None)), Some(Rule("fixed", Some(0))),
                            Some(Rule("trail", Some(20)))},
           nested_stop |-> {None, Some(Rule("percent", Some(150)))},
           take_profit |-> {None, Some(Rule("risk_multiple", Some(20)))},
           nested_take |-> {None},
           sizing      |-> {None, Some([method |-> "percent_equity", value |-> 30, max_positions |-> 1]),
                            Some([method |-> "martingale", value |-> 1, max_positions |-> 0])},
           symbols     |-> {None, Some([mode |-> "list", some |-> TRUE, filters |-> FALSE]),
                            Some([mode |-> "filtered", some |-> FALSE, filters |-> FALSE])},
           market      |-> {FALSE},
           timeframe   |-> {"1m", "2m"},
           lookback    |-> {2, 6}]

Configs == [entry : Fields.entry, exit : Fields.exit, stop_loss : Fields.stop_loss,
            nested_stop : Fields.nested_stop, take_profit : Fields.take_profit,
            nested_take : Fields.nested_take, sizing : Fields.sizing, symbols : Fields.symbols,
            market : Fields.market, timeframe : Fields.timeframe, lookback : Fields.lookback]

Blank == [entry |-> None, exit |-> None, stop_loss |-> None, nested_stop |-> None,
          take_profit |-> None, nested_take |-> None, sizing |-> None, symbols |-> None,
          market |-> FALSE, timeframe |-> "1m", lookback |-> 2]

\* A configuration that lacks an entry condition only, and the conditions the
\* validator accepts in it.
Complete == [Blank EXCEPT !.stop_loss = Some(Rule("percent", Some(20))),
                          !.sizing    = Some([method |-> "fixed_qty", value |-> 1, max_positions |-> 1]),
                          !.symbols   = Some([mode |-> "list", some |-> TRUE, filters |-> FALSE])]

Tried == LET odd == OddOperands \cup {F(e) : e \in Expressions} IN
         {C(o, "greater_than", V(1)) : o \in WrongOperands \cup odd}
         \cup {C(Close, "less_than", o) : o \in OddOperands}
         \cup {C(Close, d, o) : d \in Crossings, o \in {Average, Line, Untyped, Misnamed}}
         \cup {C(o, op, r) : o \in {Close, V(2), F(<<"foo">>), Misnamed}, op \in RangeTests,
                            r \in OddRanges \cup {Between(1, 3)}}

Accepted == {c \in Tried : Errors([Complete EXCEPT !.entry = Some(G("and", <<c>>))]) = {}}

\* Six bars whose indicators all have values.
Sample == <<Bar(1, 3, 1, 3, 2), Bar(3, 3, 1, 1, 1), Bar(2, 3, 1, 2, 1), Bar(1, 3, 1, 3, 2),
            Bar(1, 2, 1, 2, 3), Bar(3, 3, 1, 1, 1)>>

-----------------------------------------------------------------------------

Init ==
  /\ part \in {"bars", "tokens", "config"}
  /\ bars = <<>> /\ tokens = <<>> /\ config = Blank

NewBar ==
  /\ part = "bars" /\ Len(bars) < MaxBars
  /\ \E b \in Shapes : bars' = Append(bars, b)
  /\ UNCHANGED <<part, tokens, config>>

Type ==
  /\ part = "tokens" /\ Len(tokens) < MaxTokens
  /\ \E t \in Vocabulary : tokens' = Append(tokens, t)
  /\ UNCHANGED <<part, bars, config>>

Edit ==
  /\ part = "config"
  /\ \E f \in DOMAIN Fields : \E v \in Fields[f] : config' = [config EXCEPT ![f] = v]
  /\ UNCHANGED <<part, bars, tokens>>

\* The bars, or the configuration, are put to use.
Use ==
  /\ part \in {"bars", "config"} /\ part' = "done"
  /\ UNCHANGED <<bars, tokens, config>>

Next == NewBar \/ Type \/ Edit \/ Use

Spec == Init /\ [][Next]_vars

-----------------------------------------------------------------------------
(* Properties *)

Between0And100(x) == x = None \/ (AtMost(Zero, x[1]) /\ AtMost(x[1], Hundred))

Within(x, s) == x = None \/ (AtMost(Lowest(s), x[1]) /\ AtMost(x[1], Highest(s)))

\* The oscillators stay on their scale, the averages among the prices they are
\* taken from and the bands around their middle, whatever the bars (the
\* smoothing and the divisions of compute.py).
IndicatorsOnScale ==
  part = "bars" /\ bars # <<>> =>
    LET closes == Series(bars, "close")
        st == Stochastic(bars, 2, 2, 2)
        wr == WilliamsR(bars, 2)
    IN /\ \A x \in {Rsi(bars, 2, "close"), Rsi(bars, 3, "hlc3"), Mfi(bars, 2), PlusDi(bars, 2),
                    MinusDi(bars, 2), Adx(bars, 2)} : Between0And100(x)
       /\ st # None => Between0And100(Some(st[1].k)) /\ Between0And100(Some(st[1].d))
       /\ wr # None => Between0And100(Some(Minus(Zero, wr[1])))
       /\ \A x \in {Sma(bars, 3, "close"), Ema(bars, 2, "close"), Wma(bars, 3, "close")} : Within(x, closes)
       /\ Within(Vwap(bars), Series(bars, "hlc3"))
       /\ Within(Atr(bars, 2), IF Len(bars) > 1 THEN TrueRanges(bars) ELSE <<Zero>>)
       /\ \A x \in {Bbands(bars, 2, Whole(2)), Keltner(bars, 2, Q(3, 2))} :
            x = None \/ (AtMost(x[1].lower, x[1].middle) /\ AtMost(x[1].middle, x[1].upper))

Shift(x, y, f(_, _)) == (x = None <=> y = None) /\ (x # None => f(x[1], y[1]))

\* Turned upside down, rises are falls: an average is turned with the prices,
\* the relative strength, %R and the channel index are reflected, volume
\* flows are negated, the two directional indexes change places and the
\* ranges stay.  Only a market without losses (100) or without a range breaks
\* the symmetry.
MirrorSymmetry ==
  part = "bars" /\ bars # <<>> =>
    LET m == Mirror(bars)
        turned(x, y)  == Plus(x, y) = Whole(5)
        negated(x, y) == Plus(x, y) = Zero
        same(x, y)    == x = y
        reflected(x, y) == Plus(x, y) = Hundred \/ (x = Hundred /\ y = Hundred)
        opposite(x, y)  == Plus(x, y) = Whole(-100) \/ (x = Zero /\ y = Zero)
    IN /\ Shift(Sma(bars, 2, "close"), Sma(m, 2, "close"), turned)
       /\ Shift(Ema(bars, 2, "hl2"), Ema(m, 2, "hl2"), turned)
       /\ Shift(Wma(bars, 3, "ohlc4"), Wma(m, 3, "ohlc4"), turned)
       /\ Shift(Vwap(bars), Vwap(m), turned)
       /\ Shift(Rsi(bars, 2, "close"), Rsi(m, 2, "close"), reflected)
       /\ Shift(Mfi(bars, 2), Mfi(m, 2), LAMBDA x, y : (x = Hundred) => (y \in {Zero, Hundred}))
       /\ Shift(WilliamsR(bars, 2), WilliamsR(m, 2), opposite)
       /\ Shift(Cci(bars, 3), Cci(m, 3), negated)
       /\ Shift(Obv(bars), Obv(m), negated)
       /\ Shift(Macd(bars, 2, 3, 2), Macd(m, 2, 3, 2),
                LAMBDA x, y : negated(x.macd_line, y.macd_line) /\ negated(x.histogram, y.histogram))
       /\ Shift(Stochastic(bars, 2, 2, 1), Stochastic(m, 2, 2, 1), LAMBDA x, y : reflected(x.d, y.d))
       /\ Shift(PlusDi(bars, 2), MinusDi(m, 2), same)
       /\ Shift(Adx(bars, 2), Adx(m, 2), same)
       /\ Shift(Atr(bars, 2), Atr(m, 2), same)

\* The number of bars an indicator needs.
Required(o) ==
  LET par == Kwargs(o.indicator, o.params) IN
  CASE o.indicator \in {"sma", "ema", "wma", "cci", "williams_r", "volume_sma", "bbands"} -> par.period
    [] o.indicator \in {"rsi", "mfi", "atr", "keltner", "plus_di", "minus_di"} -> par.period + 1
    [] o.indicator = "adx"  -> par.period + 2
    [] o.indicator = "macd" -> Max({par.slow + par.signal - 1, 2 * par.fast - par.slow - 1})
    [] o.indicator = "stochastic" -> par.k_period + par.slowing + par.d_period - 2
    [] o.indicator \in {"obv", "prev_close", "prev_high", "prev_low"} -> 2
    [] OTHER -> 1

\* Whatever the bars, the indicators stay on their scales and treat rises and falls
\* alike.
IndicatorsAreFair == [][Use => IndicatorsOnScale /\ MirrorSymmetry]_vars

\* Bars whose range is nil, of which no direction is known.
Still(o) == o.indicator \in {"plus_di", "minus_di"} /\ Len(bars) = 3
            /\ \A i \in 1..2 : TrueRanges(bars)[i] = Zero

\* An indicator that the validator accepts, without a null parameter, has a value
\* from its number of bars on, never before, and it is the value of the output it
\* names.
AcceptedOperandsResolve ==
  part = "bars" =>
    \A o \in {o \in Indicated \cup WrongOperands \cup OddOperands : TypeOrNone(o) = "indicator"} :
      SingleIndicator(o) = {} =>
      LET outputs == Registry[o.indicator].outputs
          all     == Compute(o.indicator, bars, Kwargs(o.indicator, o.params))
      IN /\ (Value(o, bars) # None) <=> (Len(bars) >= Required(o) /\ ~Still(o) /\ ~NullGiven(o))
         /\ Len(outputs) > 1 /\ all # None =>
              \E i \in 1..Len(outputs) : outputs[i] = o.output /\ Value(o, bars) = Some(all[1][outputs[i]])

\* The crossing of strategy_module_spec.md: strictly on the other side before, and
\* not on it any more, which a tie is enough for.
SpecifiedCrossing(dir, l, r) ==
  /\ None \notin {l[1], l[2], r[1], r[2]}
  /\ IF dir = "crosses_above" THEN Less(l[2][1], r[2][1]) /\ AtMost(r[1][1], l[1][1])
                              ELSE Less(r[2][1], l[2][1]) /\ AtMost(l[1][1], r[1][1])

\* A formula's crosses_above and crosses_below agree with the condition of the
\* same name on the same operands, and no crossing is missed: between a bar
\* where one operand is below the other and one where it is above, some bar
\* announces a crossing, ties in between or not.  In the code a tie belongs to
\* the side before it (engine.py, parser.py), in the specification to the side
\* after it: they announce different bars exactly where one of the two is a tie.
CrossingsAgree ==
  part = "bars" =>
    \A p \in Pairs, dir \in Crossings :
      LET fires(bs) == EvaluateGroup(G("and", <<C(p[1], dir, p[2])>>), bs)
          vs(i)     == <<Value(p[1], First(bars, i)), Value(p[2], First(bars, i))>>
          defined(i) == None \notin {vs(i)[1], vs(i)[2]}
          side(i)   == Minus(vs(i)[1][1], vs(i)[2][1])
          n         == Len(bars)
          both(o)   == <<Value(o, bars), Value(o, First(bars, n - 1))>>
          tie(i)    == side(i) = Zero
          sign      == IF dir = "crosses_above" THEN 1 ELSE -1
      IN /\ fires(bars) = (Evaluate(<<dir, "(">> \o SentenceOf(p[1]) \o <<",">>
                                    \o SentenceOf(p[2]) \o <<")">>, bars) = Some(Whole(1)))
         /\ defined(n) /\ sign * side(n)[1] > 0 =>
              \A i \in 1..(n - 1) :
                (\A j \in i..(n - 1) : defined(j)) /\ sign * side(i)[1] < 0
                  => \E j \in (i + 1)..n : fires(First(bars, j))
         /\ n > 1 => (fires(bars) # SpecifiedCrossing(dir, both(p[1]), both(p[2]))
                        <=> /\ defined(n) /\ defined(n - 1) /\ tie(n) # tie(n - 1)
                            /\ sign * side(n)[1] >= 0 /\ sign * side(n - 1)[1] <= 0)

\* The cache of an evaluation never shows: a group holds exactly if it does with
\* every operand computed afresh.
CacheIsTransparent ==
  part = "bars" => \A g \in Groupings : EvaluateGroup(g, bars) = Holds(g, bars)

\* Whatever the bars, a condition means the same wherever and with whatever else it
\* is evaluated.
OneMeaning == [][Use => CrossingsAgree /\ CacheIsTransparent]_vars

\* The parser accepts exactly the sentences of the grammar, each of which has one
\* tree, and finds that tree; a malformed number apart, it refuses the others by
\* a parse error.
ParserMatchesGrammar ==
  part = "tokens" =>
    LET trees == Trees(tokens, 0)
        r     == Parse(tokens)
    IN IF ToSet(tokens) \cap Malformed = {}
       THEN /\ Failed(r) => r.error = "ValueError"
            /\ trees = IF Failed(r) THEN {} ELSE {r.tree[1]}
       ELSE Failed(r)

\* A tree that has no value on any bars: an unknown name, or a function with too
\* few or too many arguments, that all of it depends on.
RECURSIVE Hole(_)

Hole(t) ==
  LET holes == {i \in DOMAIN t[3] : Hole(t[3][i])}
      n     == Len(t[3])
  IN CASE t[1] = "id"  -> t[2] \notin BarFields \cup DOMAIN Registry
       [] t[1] = "un"  -> Hole(t[3])
       [] t[1] = "bin" -> Hole(t[3]) \/ Hole(t[4])
       [] t[1] = "call" /\ t[2] \in {"min", "max"} -> holes = 1..n
       [] t[1] = "call" /\ t[2] = "prev"     -> n = 0 \/ 1 \in holes
       [] t[1] = "call" /\ t[2] = "abs"      -> n # 1 \/ 1 \in holes
       [] t[1] = "call" /\ t[2] \in Crossings -> n # 2 \/ holes # {}
       [] OTHER -> FALSE

\* The operands that the validator accepts and the evaluator cannot compute.
HollowOperand(o) ==
  CASE TypeOrNone(o) = "value"     -> "value" \notin DOMAIN o
    [] TypeOrNone(o) = "indicator" -> NullGiven(o)
    [] TypeOrNone(o) = "formula"   -> Hole(Parse(o.expression).tree[1])
    [] OTHER                       -> TypeOrNone(o) = ""

Sides(c) == IF c.operator \in RangeTests THEN {c.left} ELSE {c.left, c.right}

Hollow(c)   == (\E o \in Sides(c) : HollowOperand(o)) \/ (c.operator \in RangeTests /\ ~HasBounds(c.right))
Reversed(c) == c.operator \in RangeTests /\ c.right.min > c.right.max
Divides(c)  == \E o \in Sides(c) : TypeOrNone(o) = "formula" /\ ToSet(o.expression) \cap {"/", "%"} # {}

\* The formulas above need at most MaxBars bars.
Needed(c) ==
  LET bars_of(o) == CASE TypeOrNone(o) = "indicator" -> Required(o)
                      [] TypeOrNone(o) = "formula"   -> MaxBars
                      [] OTHER                       -> 1
  IN Max({bars_of(o) : o \in Sides(c)}) + (IF c.operator \in Crossings THEN 1 ELSE 0)

Decided(c, bs) ==
  \A o \in Sides(c) : Value(o, bs) # None /\ (c.operator \in Crossings => Value(o, First(bs, Len(bs) - 1)) # None)

\* A condition that the validator accepts has its values from its number of bars
\* on, whatever the bars, unless it divides.  The exceptions are the hollow ones,
\* which never hold: an operand without type or value, a null parameter, a
\* formula with a hole, a range test without both bounds; and a range that is
\* the wrong way round, of which everything is outside and nothing between.
AcceptedConditionsDecide ==
  part = "bars" =>
    \A c \in Accepted :
      LET holds == EvaluateGroup(G("and", <<c>>), bars) IN
      IF Hollow(c) THEN ~holds
      ELSE IF Reversed(c) THEN holds = (c.operator = "outside" /\ Value(c.left, bars) # None)
      ELSE /\ Len(bars) >= Needed(c) /\ ~Divides(c)
           /\ \A o \in Sides(c) : TypeOrNone(o) = "indicator" => ~Still(o)
           => Decided(c, bars)

\* The price rules that the runner acts on (_evaluate_exit, _compute_stop_price,
\* _compute_take_profit): the validator accepts any type.
PriceTypes == {"percent", "fixed", "atr_multiple"}

Effective(rule) == rule.value \notin {None, Some(0)}

PricesOf(conf) == {r \in Given(StopLoss(conf)) \cup Given(TakeProfit(conf)) : Effective(r)}

PriceExits(conf) ==
  \E r \in PricesOf(conf) :
    \/ r.type \in PriceTypes
    \/ /\ r.type = "risk_multiple" /\ TakeProfit(conf) = Some(r)
       /\ \E s \in Given(StopLoss(conf)) : s.type \in PriceTypes

IdleExit(conf) ==
  \/ \E g \in Given(conf.exit) : \E c \in Leaves(g) : Hollow(c)
  \/ \E r \in PricesOf(conf) : r.type \notin PriceTypes

\* A configuration without an error can be run: on the bars of a lookback that is
\* long enough for it every condition that is not hollow has its values, and a
\* condition or a price exits, unless an exit condition is hollow or a price rule
\* of a type the runner does not act on.  An exit group without a condition is a
\* way out on every bar.
AcceptedConfigsRun ==
  part = "config" /\ Errors(config) = {} =>
    /\ \A c \in Conditions(config) :
         ~Hollow(c) /\ Needed(c) <= config.lookback => Decided(c, LastOf(Sample, config.lookback))
    /\ \A g \in Given(config.exit) : Leaves(g) = {} => EvaluateGroup(g, Sample)
    /\ ~IdleExit(config) =>
         \/ \E g \in Given(config.exit) : \A c \in Leaves(g) : ~Hollow(c)
         \/ PriceExits(config)


=============================================================================
