------------------------------- MODULE Formula -------------------------------
(***************************************************************************)
(* The registry of indicators, and the formulas of a strategy: a sentence  *)
(* of tokens is parsed into a tree, and the tree evaluated on the bars.    *)
(*                                                                         *)
(* A token is its text.  A tree is <<"num", text>>, <<"bool", text>>,      *)
(* <<"id", name>>, <<"un", op, tree>>, <<"bin", op, left, right>> or       *)
(* <<"call", name, trees>>.                                                *)
(***************************************************************************)
EXTENDS Indicators

-----------------------------------------------------------------------------
(* The registry *)

Param(name, type, default) == [name |-> name, type |-> type, default |-> default]

Period(default) == Param("period", "int", default)

Sources == {"close", "open", "high", "low", "hl2", "hlc3", "ohlc4"}

SourceParam == Param("source", "select", "close")

Number == <<"number">>

Trend ==
  [sma  |-> [params |-> <<Period(20), SourceParam>>, outputs |-> Number],
   ema  |-> [params |-> <<Period(20), SourceParam>>, outputs |-> Number],
   wma  |-> [params |-> <<Period(20), SourceParam>>, outputs |-> Number],
   vwap |-> [params |-> <<>>, outputs |-> Number]]

Momentum ==
  [rsi  |-> [params |-> <<Period(14), SourceParam>>, outputs |-> Number],
   macd |-> [params |-> <<Param("fast", "int", 12), Param("slow", "int", 26),
                          Param("signal", "int", 9)>>,
             outputs |-> <<"macd_line", "signal_line", "histogram">>],
   stochastic |-> [params |-> <<Param("k_period", "int", 14), Param("d_period", "int", 3),
                                Param("slowing", "int", 3)>>,
                   outputs |-> <<"k", "d">>],
   cci  |-> [params |-> <<Period(20)>>, outputs |-> Number],
   mfi  |-> [params |-> <<Period(14)>>, outputs |-> Number],
   williams_r |-> [params |-> <<Period(14)>>, outputs |-> Number]]

Bands == <<"upper", "middle", "lower">>

Volatility ==
  [bbands  |-> [params |-> <<Period(20), Param("std_dev", "float", Whole(2))>>, outputs |-> Bands],
   atr     |-> [params |-> <<Period(14)>>, outputs |-> Number],
   keltner |-> [params |-> <<Period(20), Param("atr_multiplier", "float", Q(3, 2))>>,
                outputs |-> Bands]]

VolumeAndStrength ==
  [volume     |-> [params |-> <<>>, outputs |-> Number],
   volume_sma |-> [params |-> <<Period(20)>>, outputs |-> Number],
   obv        |-> [params |-> <<>>, outputs |-> Number],
   adx        |-> [params |-> <<Period(14)>>, outputs |-> Number],
   plus_di    |-> [params |-> <<Period(14)>>, outputs |-> Number],
   minus_di   |-> [params |-> <<Period(14)>>, outputs |-> Number]]

PriceNames == {"close", "open", "high", "low", "prev_close", "prev_high", "prev_low"}

Prices == [n \in PriceNames |-> [params |-> <<>>, outputs |-> Number]]

Registry == Trend @@ Momentum @@ Volatility @@ VolumeAndStrength @@ Prices

\* The value of an indicator; a record of them when it has several outputs.
Compute(key, bars, par) ==
  CASE key = "sma"  -> Sma(bars, par.period, par.source)
    [] key = "ema"  -> Ema(bars, par.period, par.source)
    [] key = "wma"  -> Wma(bars, par.period, par.source)
    [] key = "vwap" -> Vwap(bars)
    [] key = "rsi"  -> Rsi(bars, par.period, par.source)
    [] key = "macd" -> Macd(bars, par.fast, par.slow, par.signal)
    [] key = "stochastic" -> Stochastic(bars, par.k_period, par.d_period, par.slowing)
    [] key = "cci"  -> Cci(bars, par.period)
    [] key = "mfi"  -> Mfi(bars, par.period)
    [] key = "williams_r" -> WilliamsR(bars, par.period)
    [] key = "bbands"     -> Bbands(bars, par.period, par.std_dev)
    [] key = "atr"        -> Atr(bars, par.period)
    [] key = "keltner"    -> Keltner(bars, par.period, par.atr_multiplier)
    [] key = "volume"     -> Volume(bars)
    [] key = "volume_sma" -> VolumeSma(bars, par.period)
    [] key = "obv"        -> Obv(bars)
    [] key = "adx"        -> Adx(bars, par.period)
    [] key = "plus_di"    -> PlusDi(bars, par.period)
    [] key = "minus_di"   -> MinusDi(bars, par.period)
    [] key = "prev_close" -> PreviousPrice(bars, "close")
    [] key = "prev_high"  -> PreviousPrice(bars, "high")
    [] key = "prev_low"   -> PreviousPrice(bars, "low")
    [] OTHER              -> Price(bars, key)

\* One output: the one asked for if there is one of that name, else the first.
Output(key, value, output) ==
  LET outputs == Registry[key].outputs IN
  CASE value = None \/ outputs = Number -> value
    [] outputs # Number /\ output \in ToSet(outputs) -> Some(value[1][output])
    [] OTHER -> Some(value[1][outputs[1]])

-----------------------------------------------------------------------------
(* Tokens *)

Operators == {"+", "-", "*", "/", "%", ">", "<", ">=", "<=", "==", "!="}

Values == [t \in {"1", "2", "3", "50"} |->
             CASE t = "1" -> 1 [] t = "2" -> 2 [] t = "3" -> 3 [] OTHER -> 50]

Malformed == {"1.2.3"}

BarFields == {"open", "high", "low", "close", "volume"}

TypeOf(t) ==
  CASE t \in DOMAIN Values \cup Malformed -> "NUMBER"
    [] t \in Operators -> "OPERATOR"
    [] t = "(" -> "LPAREN"
    [] t = ")" -> "RPAREN"
    [] t = "," -> "COMMA"
    [] t = ""  -> "EOF"
    [] OTHER   -> "IDENTIFIER"

AllowedFunctions ==
  DOMAIN Registry \cup {"abs", "min", "max"} \cup {"prev", "crosses_above", "crosses_below"}

-----------------------------------------------------------------------------
(* The parser.  A result is the tree and the position after it, or, without *)
(* a tree, how the parse ends: a "ValueError" for a parse error, an         *)
(* "InvalidOperation" for a number that is none.                            *)

Precedence ==
  [op \in {"or", "and"} \cup Operators |->
     CASE op = "or" -> 1
       [] op = "and" -> 2
       [] op \in {"==", "!="} -> 3
       [] op \in {">", "<", ">=", "<="} -> 4
       [] op \in {"+", "-"} -> 5
       [] OTHER -> 6]

At(ts, i) == IF i > Len(ts) THEN "" ELSE ts[i]

Parsed(tree, next) == [tree |-> Some(tree), next |-> next, error |-> ""]
Raised(error)      == [tree |-> None, next |-> 0, error |-> error]
Unexpected         == Raised("ValueError")
Failed(r)          == r.tree = None

RECURSIVE ParseExpression(_, _, _), ParseOperators(_, _, _), ParseUnary(_, _), ParseArgs(_, _, _)

\* The token at i must be the given one: the tree then ends behind it.
Expect(ts, i, token, tree) == IF At(ts, i) = token THEN Parsed(tree, i + 1) ELSE Unexpected

ParsePrimary(ts, i) ==
  LET t == At(ts, i)
      group == ParseExpression(ts, i + 1, 0)
      args  == ParseArgs(ts, i + 2, <<>>)
  IN CASE t \in Malformed -> Raised("InvalidOperation")
       [] TypeOf(t) = "NUMBER" /\ t \notin Malformed -> Parsed(<<"num", t>>, i + 1)
       [] t \in {"true", "false"} -> Parsed(<<"bool", t>>, i + 1)
       [] TypeOf(t) = "IDENTIFIER" /\ t \notin {"true", "false"} ->
            CASE At(ts, i + 1) # "(" -> Parsed(<<"id", t>>, i + 1)
              [] At(ts, i + 1) = "(" /\ t \notin AllowedFunctions -> Unexpected
              [] OTHER -> IF Failed(args) THEN args
                          ELSE Expect(ts, args.next, ")", <<"call", t, args.tree[1]>>)
       [] t = "(" -> IF Failed(group) THEN group ELSE Expect(ts, group.next, ")", group.tree[1])
       [] OTHER -> Unexpected

ParseArgs(ts, i, before) ==
  LET arg  == ParseExpression(ts, i, 0)
      args == Append(before, arg.tree[1])
  IN CASE before = <<>> /\ At(ts, i) = ")" -> Parsed(<<>>, i)
       [] Failed(arg) -> arg
       [] At(ts, arg.next) = "," -> ParseArgs(ts, arg.next + 1, args)
       [] OTHER -> Parsed(args, arg.next)

ParseUnary(ts, i) ==
  LET operand == ParseUnary(ts, i + 1) IN
  IF At(ts, i) \notin {"-", "not"} THEN ParsePrimary(ts, i)
  ELSE IF Failed(operand) THEN operand
  ELSE Parsed(<<"un", At(ts, i), operand.tree[1]>>, operand.next)

\* Mutant: an operator of the same precedence binds to the right.
ParseOperatorsRight(ts, left, minPrec) ==
  LET op    == At(ts, left.next)
      right == ParseExpression(ts, left.next + 1, Precedence[op])
  IN IF op \notin DOMAIN Precedence THEN left
     ELSE IF Precedence[op] < minPrec THEN left
     ELSE IF Failed(right) THEN right
     ELSE ParseOperators(ts, Parsed(<<"bin", op, left.tree[1], right.tree[1]>>, right.next), minPrec)

\* The operators that follow a left operand and bind at least as tightly.
ParseOperators(ts, left, minPrec) ==
  LET op    == At(ts, left.next)
      right == ParseExpression(ts, left.next + 1, Precedence[op] + 1)
  IN IF op \notin DOMAIN Precedence THEN left
     ELSE IF Precedence[op] < minPrec THEN left
     ELSE IF Failed(right) THEN right
     ELSE ParseOperators(ts, Parsed(<<"bin", op, left.tree[1], right.tree[1]>>, right.next), minPrec)

ParseExpression(ts, i, minPrec) ==
  LET left == ParseUnary(ts, i) IN
  IF Failed(left) THEN left ELSE ParseOperators(ts, left, minPrec)

Parse(ts) ==
  LET r == ParseExpression(ts, 1, 0) IN
  IF Failed(r) \/ At(ts, r.next) = "" THEN r ELSE Unexpected

\* The outcome of validate: no error, a list of errors, or an exception.
Validate(ts) ==
  CASE ts = <<>> -> "errors"
    [] ts # <<>> /\ ToSet(ts) \cap {"import", "eval", "lambda", "for", "if"} # {} -> "errors"
    [] OTHER -> CASE ~Failed(Parse(ts)) -> "valid"
                  [] Parse(ts).error = "ValueError" -> "errors"
                  [] OTHER -> "raises"

-----------------------------------------------------------------------------
(* The evaluator *)

Truth(b) == Some(IF b THEN Whole(1) ELSE Zero)

\* The whole part of a quotient, towards zero.
Truncated(x) == IF x[1] < 0 THEN -((-x[1]) \div x[2]) ELSE x[1] \div x[2]

Binary(op, x, y) ==
  CASE op = "+" -> Some(Plus(x, y))
    [] op = "-" -> Some(Minus(x, y))
    [] op = "*" -> Some(Times(x, y))
    [] op \in {"/", "%"} /\ y = Zero -> None
    [] op = "/" /\ y # Zero -> Some(Over(x, y))
    [] op = "%" /\ y # Zero -> Some(Minus(x, Times(y, Whole(Truncated(Over(x, y))))))
    [] op = ">"  -> Truth(Less(y, x))
    [] op = "<"  -> Truth(Less(x, y))
    [] op = ">=" -> Truth(AtMost(y, x))
    [] op = "<=" -> Truth(AtMost(x, y))
    [] op = "==" -> Truth(x = y)
    [] op = "!=" -> Truth(x # y)
    [] op = "and" -> Truth(x # Zero /\ y # Zero)
    [] OTHER      -> Truth(x # Zero \/ y # Zero)

\* A name alone: a field of the last bar (volume is read as the close), or an
\* indicator with its defaults.
Resolve(name, bars) ==
  CASE bars = <<>> -> None
    [] bars # <<>> /\ name \in BarFields -> Price(bars, name)
    [] bars # <<>> /\ name \in DOMAIN Registry \ BarFields ->
         LET ps == Registry[name].params IN
         Output(name, Compute(name, bars,
                  [n \in {p.name : p \in ToSet(ps)} |->
                     (CHOOSE p \in ToSet(ps) : p.name = n).default]), "")
    [] OTHER -> None

\* Whether x went from at most y to above it.
Rose(x0, y0, x1, y1) == AtMost(x0, y0) /\ Less(y1, x1)

\* The parameters of a call: a name that is an option of a select parameter
\* sets it, the other arguments that have a value set the numeric ones in order.
Params(key, args, values) ==
  LET ps       == Registry[key].params
      chosen   == SelectSeq([i \in 1..Len(args) |-> IF args[i][1] = "id" THEN args[i][2] ELSE ""],
                            LAMBDA n : n \in Sources)
      hasSelect == \E p \in ToSet(ps) : p.type = "select"
      isSource(i) == /\ hasSelect /\ args[i][1] = "id" /\ args[i][2] \in Sources
                     /\ \A j \in 1..(i - 1) : ~(args[j][1] = "id" /\ args[j][2] \in Sources)
      numbers  == FlattenSeq([i \in 1..Len(args) |-> IF isSource(i) THEN <<>> ELSE values[i]])
      numeric  == SelectSeq(ps, LAMBDA p : p.type # "select")
      nth(n)   == CHOOSE i \in 1..Len(numeric) : numeric[i].name = n
  IN [n \in {p.name : p \in ToSet(ps)} |->
        LET p == CHOOSE q \in ToSet(ps) : q.name = n IN
        CASE p.type = "select" -> IF chosen # <<>> THEN chosen[1] ELSE p.default
          [] p.type = "int" /\ nth(n) <= Len(numbers) -> Truncated(numbers[nth(n)])
          [] p.type = "float" /\ nth(n) <= Len(numbers) -> numbers[nth(n)]
          [] OTHER -> p.default]

\* bars[:-n]
Before(bars, n) ==
  CASE n > 0 -> First(bars, Len(bars) - n)
    [] n = 0 -> <<>>
    [] OTHER -> First(bars, IF -n < Len(bars) THEN -n ELSE Len(bars))

RECURSIVE Eval(_, _)

\* crosses_above, or crosses_below with the operands exchanged.
Crosses(a, b, bars) ==
  LET then == First(bars, Len(bars) - 1)
      vs   == <<Eval(a, then), Eval(b, then), Eval(a, bars), Eval(b, bars)>>
  IN IF Len(bars) < 2 THEN None
     ELSE IF \E i \in 1..4 : vs[i] = None THEN None
     ELSE Truth(Rose(vs[1][1], vs[2][1], vs[3][1], vs[4][1]))

EvalPrev(args, bars) ==
  LET n == IF Len(args) > 1 /\ Eval(args[2], bars) # None THEN Truncated(Eval(args[2], bars)[1]) ELSE 1
  IN IF args = <<>> \/ Len(bars) < 2 \/ n >= Len(bars) THEN None
     ELSE Eval(args[1], Before(bars, n))

EvalFunction(name, args, bars) ==
  LET values == [i \in 1..Len(args) |-> Eval(args[i], bars)]
      known  == FlattenSeq(values)
  IN CASE name = "abs" -> IF Len(args) # 1 \/ known = <<>> THEN None ELSE Some(AbsQ(known[1]))
       [] name = "min" -> IF known = <<>> THEN None ELSE Some(Lowest(known))
       [] name = "max" -> IF known = <<>> THEN None ELSE Some(Highest(known))
       [] name = "prev" -> EvalPrev(args, bars)
       [] name = "crosses_above" -> IF Len(args) # 2 THEN None ELSE Crosses(args[1], args[2], bars)
       [] name = "crosses_below" -> IF Len(args) # 2 THEN None ELSE Crosses(args[2], args[1], bars)
       [] OTHER -> Output(name, Compute(name, bars, Params(name, args, values)), "")

Eval(node, bars) ==
  CASE node[1] = "num"  -> Some(Whole(Values[node[2]]))
    [] node[1] = "bool" -> Truth(node[2] = "true")
    [] node[1] = "id"   -> Resolve(node[2], bars)
    [] node[1] = "un"   ->
         LET v == Eval(node[3], bars) IN
         IF v = None THEN None
         ELSE IF node[2] = "-" THEN Some(Minus(Zero, v[1])) ELSE Truth(v[1] = Zero)
    [] node[1] = "bin"  ->
         LET l == Eval(node[3], bars)
             r == Eval(node[4], bars)
         IN IF l = None \/ r = None THEN None ELSE Binary(node[2], l[1], r[1])
    [] OTHER -> EvalFunction(node[2], node[3], bars)

Evaluate(ts, bars) == IF Failed(Parse(ts)) THEN None ELSE Eval(Parse(ts).tree[1], bars)

-----------------------------------------------------------------------------
(* The grammar the parser is checked against: the trees of a sentence whose *)
(* outermost operator binds at least as tightly as p.                       *)

RECURSIVE Trees(_, _)

Primaries(ts) ==
  LET n == Len(ts)
      inner == SubSeq(ts, 3, n - 1)
      cut(s) == LET at == SetToSortSeq({0, Len(inner) + 1} \cup s, <) IN
                [i \in 1..(Len(at) - 1) |-> SubSeq(inner, at[i] + 1, at[i + 1] - 1)]
      argLists == {cut(s) : s \in SUBSET {i \in 1..Len(inner) : inner[i] = ","}}
  IN {<<"num", t>> : t \in {x \in ToSet(ts) : n = 1 /\ TypeOf(x) = "NUMBER"}}
     \cup {<<"bool", t>> : t \in {x \in ToSet(ts) : n = 1 /\ x \in {"true", "false"}}}
     \cup {<<"id", t>> : t \in {x \in ToSet(ts) : /\ n = 1 /\ TypeOf(x) = "IDENTIFIER"
                                                  /\ x \notin {"true", "false", "not"}}}
     \cup (IF n >= 2 /\ ts[1] = "(" /\ ts[n] = ")" THEN Trees(SubSeq(ts, 2, n - 1), 0) ELSE {})
     \cup (IF n >= 3 /\ ts[1] \in AllowedFunctions /\ ts[2] = "(" /\ ts[n] = ")"
           THEN (IF inner = <<>> THEN {<<"call", ts[1], <<>>>>} ELSE {})
                \cup UNION {{<<"call", ts[1], a>> : a \in
                               {f \in [1..Len(l) -> UNION {Trees(l[i], 0) : i \in 1..Len(l)}] :
                                  \A i \in 1..Len(l) : f[i] \in Trees(l[i], 0)}} : l \in argLists}
           ELSE {})

Unaries(ts) ==
  Primaries(ts)
  \cup (IF Len(ts) >= 2 /\ ts[1] \in {"-", "not"}
        THEN {<<"un", ts[1], t>> : t \in Trees(Tail(ts), 7)} ELSE {})

Trees(ts, p) ==
  Unaries(ts)
  \cup UNION {{<<"bin", ts[k], l, r>> : l \in Trees(SubSeq(ts, 1, k - 1), Precedence[ts[k]]),
                                       r \in Trees(SubSeq(ts, k + 1, Len(ts)), Precedence[ts[k]] + 1)} :
              k \in {k \in 2..(Len(ts) - 1) : /\ ts[k] \in DOMAIN Precedence
                                              /\ Precedence[ts[k]] >= p}}

=============================================================================
