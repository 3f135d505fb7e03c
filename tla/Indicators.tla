------------------------------ MODULE Indicators ------------------------------
(***************************************************************************)
(* The technical indicators of a strategy, as functions of the bars seen   *)
(* so far, oldest first.  Numbers are exact fractions, as the code's are   *)
(* decimals; a value that cannot be computed is None.                      *)
(*                                                                         *)
(* A bar is [open, high, low, close, volume].  Periods are positive.       *)
(***************************************************************************)
EXTENDS Integers, SequencesExt

None    == <<>>
Some(x) == <<x>>

-----------------------------------------------------------------------------
(* Fractions in lowest terms *)

Gcd[a \in Nat, b \in Nat] == IF b = 0 THEN a ELSE Gcd[b, a % b]

Magnitude(n) == IF n < 0 THEN -n ELSE n

Q(n, d) == LET s == IF d < 0 THEN -1 ELSE 1
               g == Gcd[Magnitude(n), Magnitude(d)]
           IN <<(s * n) \div g, (s * d) \div g>>

Whole(n) == <<n, 1>>

Plus(x, y)  == Q(x[1] * y[2] + y[1] * x[2], x[2] * y[2])
Minus(x, y) == Q(x[1] * y[2] - y[1] * x[2], x[2] * y[2])
Times(x, y) == Q(x[1] * y[1], x[2] * y[2])
Over(x, y)  == Q(x[1] * y[2], x[2] * y[1])
Less(x, y)  == x[1] * y[2] < y[1] * x[2]
AtMost(x, y) == x[1] * y[2] <= y[1] * x[2]
Zero        == Whole(0)
Hundred     == Whole(100)
AbsQ(x)     == <<Magnitude(x[1]), x[2]>>
Least(x, y)    == IF Less(y, x) THEN y ELSE x
Greatest(x, y) == IF Less(x, y) THEN y ELSE x

-----------------------------------------------------------------------------
(* Sequences of fractions *)

Map(f(_), s) == [i \in 1..Len(s) |-> f(s[i])]
First(s, n)  == SubSeq(s, 1, n)
LastOf(s, n) == SubSeq(s, Len(s) - n + 1, Len(s))
Beyond(s, n) == SubSeq(s, n + 1, Len(s))
Total(s)     == FoldLeft(Plus, Zero, s)
Mean(s)      == Over(Total(s), Whole(Len(s)))
Lowest(s)    == FoldLeft(Least, s[1], s)
Highest(s)   == FoldLeft(Greatest, s[1], s)

\* The differences of neighbours.
Changes(s) == [i \in 1..(Len(s) - 1) |-> Minus(s[i + 1], s[i])]

\* Exponential smoothing, from the mean of the first values.
Smooth(s, p) ==
  FoldLeft(LAMBDA e, v : Plus(Times(Minus(v, e), Q(2, p + 1)), e),
           Mean(First(s, p)), Beyond(s, p))

SmoothSeries(s, p) == [i \in 1..(Len(s) - p + 1) |-> Smooth(First(s, p + i - 1), p)]

\* Wilder's smoothing of the values after the first p.
WilderFrom(start, rest, p) ==
  FoldLeft(LAMBDA a, v : Over(Plus(Times(a, Whole(p - 1)), v), Whole(p)), start, rest)

Wilder(s, p) == WilderFrom(Mean(First(s, p)), Beyond(s, p), p)

\* The mean of each window of n values.
MovingMeans(s, n) == [i \in 1..(Len(s) - n + 1) |-> Mean(SubSeq(s, i, i + n - 1))]

-----------------------------------------------------------------------------
(* Prices of a bar *)

Source(bar, source) ==
  CASE source = "open"  -> Whole(bar.open)
    [] source = "high"  -> Whole(bar.high)
    [] source = "low"   -> Whole(bar.low)
    [] source = "hl2"   -> Q(bar.high + bar.low, 2)
    [] source = "hlc3"  -> Q(bar.high + bar.low + bar.close, 3)
    [] source = "ohlc4" -> Q(bar.open + bar.high + bar.low + bar.close, 4)
    [] OTHER            -> Whole(bar.close)

Series(bars, source) == Map(LAMBDA b : Source(b, source), bars)

Volumes(bars) == Map(LAMBDA b : Whole(b.volume), bars)

-----------------------------------------------------------------------------
(* Trend *)

Sma(bars, p, source) ==
  IF Len(bars) < p THEN None ELSE Some(Mean(Series(LastOf(bars, p), source)))

Ema(bars, p, source) ==
  IF Len(bars) < p THEN None ELSE Some(Smooth(Series(bars, source), p))

Wma(bars, p, source) ==
  LET s == Series(LastOf(bars, p), source) IN
  IF Len(bars) < p THEN None
  ELSE Some(Over(Total([i \in 1..p |-> Times(Whole(i), s[i])]), Whole((p * (p + 1)) \div 2)))

Vwap(bars) ==
  LET weights == Total(Volumes(bars)) IN
  IF weights = Zero THEN None
  ELSE Some(Over(Total([i \in 1..Len(bars) |->
              Times(Source(bars[i], "hlc3"), Whole(bars[i].volume))]), weights))

-----------------------------------------------------------------------------
(* Momentum *)

\* 0 to 100 by the share of the rises.
Share(up, down) ==
  IF down = Zero THEN Hundred
  ELSE Minus(Hundred, Over(Hundred, Plus(Whole(1), Over(up, down))))

Gain(c) == Greatest(c, Zero)
Loss(c) == Greatest(Minus(Zero, c), Zero)

\* Mutant: a loss is smoothed with its sign.
RsiSigned(bars, p, source) ==
  LET changes == Changes(Series(bars, source)) IN
  IF Len(bars) < p + 1 THEN None
  ELSE Some(Share(Wilder(Map(Gain, changes), p),
                  WilderFrom(Mean(Map(Loss, First(changes, p))),
                             Map(LAMBDA c : Least(c, Zero), Beyond(changes, p)), p)))

Rsi(bars, p, source) ==
  LET changes == Changes(Series(bars, source)) IN
  IF Len(bars) < p + 1 THEN None
  ELSE Some(Share(Wilder(Map(Gain, changes), p), Wilder(Map(Loss, changes), p)))

\* Of too few values there is one smoothed value, their sum over the period.
EmaSeries(s, p) == IF Len(s) < p THEN <<Over(Total(s), Whole(p))>> ELSE SmoothSeries(s, p)

\* With fast above slow the first places of the quick series are negative: they
\* count from its end, and there is no value if they are not in it.
Macd(bars, fast, slow, signal) ==
  LET closes == Series(bars, "close")
      quick  == EmaSeries(closes, fast)
      slowly == EmaSeries(closes, slow)
      place(i) == IF slow - fast + i > 0 THEN slow - fast + i ELSE slow - fast + i + Len(quick)
      line   == [i \in 1..Len(slowly) |-> Minus(quick[place(i)], slowly[i])]
  IN IF \/ Len(bars) < slow + signal - 1
        \/ \E i \in 1..Len(slowly) : place(i) \notin 1..Len(quick) THEN None
     ELSE Some([macd_line |-> Last(line), signal_line |-> Smooth(line, signal),
                histogram |-> Minus(Last(line), Smooth(line, signal))])

\* Where the close lies in the range of the window, 50 if there is no range.
RawK(window) ==
  LET high == Highest(Series(window, "high"))
      low  == Lowest(Series(window, "low"))
  IN IF high = low THEN Whole(50)
     ELSE Times(Over(Minus(Source(Last(window), "close"), low), Minus(high, low)), Hundred)

Stochastic(bars, k, d, slowing) ==
  IF Len(bars) < k + slowing + d - 2 THEN None
  ELSE LET raw  == [i \in 1..(Len(bars) - k + 1) |-> RawK(SubSeq(bars, i, i + k - 1))]
           slow == MovingMeans(raw, slowing)
       IN Some([k |-> Last(slow), d |-> Mean(LastOf(slow, d))])

Cci(bars, p) ==
  IF Len(bars) < p THEN None
  ELSE LET typical == Series(LastOf(bars, p), "hlc3")
           mean    == Mean(typical)
           spread  == Mean(Map(LAMBDA t : AbsQ(Minus(t, mean)), typical))
       IN IF spread = Zero THEN Some(Zero)
          ELSE Some(Over(Minus(Last(typical), mean), Times(Q(15, 1000), spread)))

Mfi(bars, p) ==
  IF Len(bars) < p + 1 THEN None
  ELSE LET window  == LastOf(bars, p + 1)
           typical == Series(window, "hlc3")
           flow(i) == Times(typical[i], Whole(window[i].volume))
           sum(cond(_)) == Total([i \in 1..p |-> IF cond(i + 1) THEN flow(i + 1) ELSE Zero])
       IN Some(Share(sum(LAMBDA i : Less(typical[i - 1], typical[i])),
                     sum(LAMBDA i : Less(typical[i], typical[i - 1]))))

WilliamsR(bars, p) ==
  IF Len(bars) < p THEN None
  ELSE LET window == LastOf(bars, p)
           high   == Highest(Series(window, "high"))
           low    == Lowest(Series(window, "low"))
       IN IF high = low THEN Some(Zero)
          ELSE Some(Times(Over(Minus(high, Source(Last(window), "close")), Minus(high, low)),
                          Whole(-100)))

-----------------------------------------------------------------------------
(* Volatility and volume *)

\* The square root to a hundredth.
Root(x) == Q(CHOOSE n \in 0..(100 * x[1] + 100) :
               /\ n * n * x[2] <= 10000 * x[1]
               /\ (n + 1) * (n + 1) * x[2] > 10000 * x[1], 100)

Bbands(bars, p, width) ==
  IF Len(bars) < p THEN None
  ELSE LET s == Series(LastOf(bars, p), "close")
           m == Mean(s)
           w == Times(width, Root(Mean(Map(LAMBDA v : Times(Minus(v, m), Minus(v, m)), s))))
       IN Some([upper |-> Plus(m, w), middle |-> m, lower |-> Minus(m, w)])

\* The true range of each bar but the first.
TrueRanges(bars) ==
  [i \in 1..(Len(bars) - 1) |->
     LET bar == bars[i + 1]
         pc  == Source(bars[i], "close")
     IN Greatest(Minus(Whole(bar.high), Whole(bar.low)),
                 Greatest(AbsQ(Minus(Whole(bar.high), pc)), AbsQ(Minus(Whole(bar.low), pc))))]

Atr(bars, p) ==
  IF Len(bars) < p + 1 THEN None ELSE Some(Wilder(TrueRanges(bars), p))

Keltner(bars, p, multiplier) ==
  IF Len(bars) < p + 1 THEN None
  ELSE LET m == Ema(bars, p, "close")[1]
           w == Times(multiplier, Atr(bars, p)[1])
       IN Some([upper |-> Plus(m, w), middle |-> m, lower |-> Minus(m, w)])

Volume(bars) == IF bars = <<>> THEN None ELSE Some(Whole(Last(bars).volume))

VolumeSma(bars, p) == IF Len(bars) < p THEN None ELSE Some(Mean(LastOf(Volumes(bars), p)))

Obv(bars) ==
  LET signed(i) == CASE bars[i + 1].close > bars[i].close -> Whole(bars[i + 1].volume)
                     [] bars[i + 1].close < bars[i].close -> Whole(-bars[i + 1].volume)
                     [] OTHER -> Zero
  IN IF Len(bars) < 2 THEN None
     ELSE Some(Total([i \in 1..(Len(bars) - 1) |-> signed(i)]))

-----------------------------------------------------------------------------
(* Trend strength *)

\* The upward and the downward movement of each bar but the first.
PlusMoves(bars) ==
  [i \in 1..(Len(bars) - 1) |->
     LET up   == bars[i + 1].high - bars[i].high
         down == bars[i].low - bars[i + 1].low
     IN IF up > down /\ up > 0 THEN Whole(up) ELSE Zero]

MinusMoves(bars) ==
  [i \in 1..(Len(bars) - 1) |->
     LET up   == bars[i + 1].high - bars[i].high
         down == bars[i].low - bars[i + 1].low
     IN IF down > up /\ down > 0 THEN Whole(down) ELSE Zero]

\* The smoothed sum of the first n values, of which the first p are the seed.
WilderSum(s, p, n) ==
  FoldLeft(LAMBDA a, v : Plus(Minus(a, Over(a, Whole(p))), v),
           Total(First(s, p)), SubSeq(s, p + 1, n))

Percent(x, of) == IF of = Zero THEN Zero ELSE Times(Over(x, of), Hundred)

\* The directional indexes after n moves.
Directions(bars, p, n) ==
  LET range == WilderSum(TrueRanges(bars), p, n) IN
  [plus  |-> Percent(WilderSum(PlusMoves(bars), p, n), range),
   minus |-> Percent(WilderSum(MinusMoves(bars), p, n), range)]

Dx(d) == Percent(AbsQ(Minus(d.plus, d.minus)), Plus(d.plus, d.minus))

\* The values of the last bar are replaced by those of the first p moves
\* whenever the smoothed range is what it was then.
DirectionalMovement(bars, p) ==
  LET n     == Len(bars) - 1
      range == WilderSum(TrueRanges(bars), p, n)
      seed  == Directions(bars, p, p)
      back  == range = WilderSum(TrueRanges(bars), p, p) /\ range # Zero
      d     == IF back THEN seed ELSE Directions(bars, p, n)
      dx    == [i \in 1..(n - p) |-> Dx(Directions(bars, p, p + i))]
  IN CASE Len(bars) < p + 1 -> None
       [] n = p /\ ~back -> None
       [] n = p /\ back -> Some([plus |-> d.plus, minus |-> d.minus, adx |-> None])
       [] OTHER -> Some([plus |-> d.plus, minus |-> d.minus,
                         adx |-> Some(IF n - p < p THEN Mean(dx) ELSE Wilder(dx, p))])

Adx(bars, p) ==
  LET m == DirectionalMovement(bars, p) IN IF m = None THEN None ELSE m[1].adx

PlusDi(bars, p) ==
  LET m == DirectionalMovement(bars, p) IN IF m = None THEN None ELSE Some(m[1].plus)

MinusDi(bars, p) ==
  LET m == DirectionalMovement(bars, p) IN IF m = None THEN None ELSE Some(m[1].minus)

-----------------------------------------------------------------------------
(* Prices *)

Price(bars, source) == IF bars = <<>> THEN None ELSE Some(Source(Last(bars), source))

PreviousPrice(bars, source) ==
  IF Len(bars) < 2 THEN None ELSE Some(Source(bars[Len(bars) - 1], source))

=============================================================================
