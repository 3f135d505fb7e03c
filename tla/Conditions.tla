------------------------------ MODULE Conditions ------------------------------
(***************************************************************************)
(* The condition engine: a group of conditions evaluated on the bars, each *)
(* indicator computed once and kept in a cache for the evaluation.         *)
(*                                                                         *)
(* An operand is [type, value], [type, indicator, params, output] or       *)
(* [type, expression]; the right side of a range is [type, min, max].  The *)
(* type, the value and the bounds may be missing.  A condition is          *)
(* [left, operator, right], a group [logic, conditions], the members of a  *)
(* group are conditions and groups.                                        *)
(***************************************************************************)
EXTENDS Formula

Empty == [k \in {} |-> None]

IsGroup(item) == "logic" \in DOMAIN item

TypeOrNone(o) == IF "type" \in DOMAIN o THEN o.type ELSE ""

\* An integer parameter given as null.
Null == -1

NullGiven(o) == \E p \in ToSet(Registry[o.indicator].params) :
                  p.type = "int" /\ p.name \in DOMAIN o.params /\ o.params[p.name] = Null

\* The parameters given, the defaults for the others.
Kwargs(key, params) ==
  LET ps == Registry[key].params IN
  [n \in {p.name : p \in ToSet(ps)} |->
     IF n \in DOMAIN params THEN params[n]
     ELSE (CHOOSE p \in ToSet(ps) : p.name = n).default]

ComputeWithDefaults(o, bars) ==
  IF o.indicator \notin DOMAIN Registry \/ NullGiven(o) THEN None
  ELSE Output(o.indicator, Compute(o.indicator, bars, Kwargs(o.indicator, o.params)), o.output)

CacheKey(o, bars) == <<o.indicator, o.params, o.output, Len(bars)>>

\* The value of an indicator and the cache after it.  A null parameter raises and
\* makes the condition false, as does an indicator without a value.
ComputeIndicator(o, bars, cache) ==
  LET key   == CacheKey(o, bars)
      value == ComputeWithDefaults(o, bars)
  IN CASE key \in DOMAIN cache -> [value |-> cache[key], cache |-> cache]
       [] key \notin DOMAIN cache /\ o.indicator \in DOMAIN Registry /\ ~NullGiven(o) ->
            [value |-> value, cache |-> (key :> value) @@ cache]
       [] OTHER -> [value |-> None, cache |-> cache]

ResolveOperand(o, bars, cache) ==
  CASE TypeOrNone(o) = "value" /\ "value" \in DOMAIN o ->
         [value |-> Some(Whole(o.value)), cache |-> cache]
    [] TypeOrNone(o) = "indicator" -> ComputeIndicator(o, bars, cache)
    [] TypeOrNone(o) = "formula"   -> [value |-> Evaluate(o.expression, bars), cache |-> cache]
    [] OTHER                -> [value |-> None, cache |-> cache]

\* The value now and on the bars but the last, which has a cache of its own.
ResolveSeries(o, bars, cache) ==
  IF Len(bars) < 2 THEN [values |-> <<None, None>>, cache |-> cache]
  ELSE LET current  == ResolveOperand(o, bars, cache)
           previous == ResolveOperand(o, First(bars, Len(bars) - 1), Empty)
       IN [values |-> <<current.value, previous.value>>, cache |-> current.cache]

Crossings  == {"crosses_above", "crosses_below"}
RangeTests == {"between", "outside"}

\* Mutant: a crossing must start strictly on the other side.
CrossedStrictly(operator, l, r) ==
  /\ None \notin {l[1], l[2], r[1], r[2]}
  /\ IF operator = "crosses_above" THEN Less(l[2][1], r[2][1]) /\ Less(r[1][1], l[1][1])
                                   ELSE Less(r[2][1], l[2][1]) /\ Less(l[1][1], r[1][1])

\* A tie belongs to the side before it: the crossing is when it is left.
Crossed(operator, l, r) ==
  /\ None \notin {l[1], l[2], r[1], r[2]}
  /\ IF operator = "crosses_above" THEN AtMost(l[2][1], r[2][1]) /\ Less(r[1][1], l[1][1])
                                   ELSE AtMost(r[2][1], l[2][1]) /\ Less(l[1][1], r[1][1])

\* The bounds count, not the type.
HasBounds(r) == {"min", "max"} \subseteq DOMAIN r

InRange(operator, x, r) ==
  /\ x # None /\ HasBounds(r)
  /\ LET inside == AtMost(Whole(r.min), x[1]) /\ AtMost(x[1], Whole(r.max)) IN
     IF operator = "between" THEN inside ELSE ~inside

Compared(operator, x, y) ==
  /\ x # None /\ y # None
  /\ CASE operator = "greater_than"          -> Less(y[1], x[1])
       [] operator = "less_than"             -> Less(x[1], y[1])
       [] operator = "greater_than_or_equal" -> AtMost(y[1], x[1])
       [] operator = "less_than_or_equal"    -> AtMost(x[1], y[1])
       [] operator = "equal"                 -> x[1] = y[1]
       [] OTHER                              -> FALSE

\* A condition's verdict and the cache after it.
EvaluateCondition(c, bars, cache) ==
  CASE c.operator \in Crossings ->
         LET l == ResolveSeries(c.left, bars, cache)
             r == ResolveSeries(c.right, bars, l.cache)
         IN [holds |-> Crossed(c.operator, l.values, r.values), cache |-> r.cache]
    [] c.operator \in RangeTests ->
         LET l == ResolveOperand(c.left, bars, cache) IN
         [holds |-> InRange(c.operator, l.value, c.right), cache |-> l.cache]
    [] OTHER ->
         LET l == ResolveOperand(c.left, bars, cache)
             r == ResolveOperand(c.right, bars, l.cache)
         IN [holds |-> Compared(c.operator, l.value, r.value), cache |-> r.cache]

RECURSIVE EvaluateItems(_, _, _)

\* The verdicts of the members in order, the cache handed on.
EvaluateItems(items, bars, cache) ==
  IF items = <<>> THEN [results |-> <<>>, cache |-> cache]
  ELSE LET item   == Head(items)
           inner  == EvaluateItems(item.conditions, bars, cache)
           head   == IF IsGroup(item)
                     THEN [holds |-> CASE item.conditions = <<>> -> TRUE
                                       [] item.logic = "and" -> FALSE \notin ToSet(inner.results)
                                       [] item.logic = "or"  -> TRUE \in ToSet(inner.results)
                                       [] OTHER -> FALSE,
                           cache |-> inner.cache]
                     ELSE EvaluateCondition(item, bars, cache)
           rest   == EvaluateItems(Tail(items), bars, head.cache)
       IN [results |-> <<head.holds>> \o rest.results, cache |-> rest.cache]

\* A group is evaluated with an empty cache.
EvaluateGroup(group, bars) == EvaluateItems(<<group>>, bars, Empty).results[1]

-----------------------------------------------------------------------------
(* What a group means, with every operand computed afresh *)

Value(o, bars) == ResolveOperand(o, bars, Empty).value

RECURSIVE Holds(_, _)

Holds(item, bars) ==
  LET earlier == First(bars, Len(bars) - 1)
      both(o) == IF Len(bars) < 2 THEN <<None, None>> ELSE <<Value(o, bars), Value(o, earlier)>>
      members == {Holds(i, bars) : i \in ToSet(item.conditions)}
  IN IF IsGroup(item)
     THEN \/ item.conditions = <<>>
          \/ item.logic = "and" /\ FALSE \notin members
          \/ item.logic = "or" /\ TRUE \in members
     ELSE CASE item.operator \in Crossings -> Crossed(item.operator, both(item.left), both(item.right))
            [] item.operator \in RangeTests -> InRange(item.operator, Value(item.left, bars), item.right)
            [] OTHER -> Compared(item.operator, Value(item.left, bars), Value(item.right, bars))

=============================================================================
