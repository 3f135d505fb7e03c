------------------------------ MODULE Backtest ------------------------------
(***************************************************************************)
(* A backtest: bars are replayed symbol by symbol through one of the two   *)
(* engines, for condition strategies and for Python strategies.  Whether   *)
(* conditions hold, and which signals a Python strategy returns, is a      *)
(* choice.  Money is in whole units, Slip and Fee stand for the slippage   *)
(* of half a pip and the fee of two basis points; a distance or a number   *)
(* of bars that is 0 is not configured.                                    *)
(***************************************************************************)
EXTENDS Integers, SequencesExt

CONSTANTS Symbols,       \* the symbols of the run, in order
          MaxBars,       \* bound: bars of each symbol, in the same order
          Bars,          \* the bars to choose from, [high, low, close]
          Sizings,       \* position sizing configurations, [type, amount, stop]
          Signals,       \* signals of a Python strategy, [symbol, side, quantity, stop, target]
          MaxGiven,      \* bound: signals a Python strategy returns at one bar
          Capital, Warmup, Stop, Target, MaxHold, Slip, Fee,
          Interval       \* bars between points of the equity curve

None    == <<>>
Some(x) == <<x>>

Sides  == {"long", "short"}
OptionalLevels == {None} \cup [1..1 -> Int]

ASSUME BacktestAssumption ==
  /\ Symbols \in Seq(Range(Symbols))
  /\ Bars \subseteq [high : Int, low : Int, close : Int]
  /\ \A z \in Sizings : z.amount \in Int /\ z.stop \in Int
  /\ \A z \in Signals : /\ z.side \in Sides /\ z.quantity \in Int
                        /\ z.stop \in OptionalLevels /\ z.target \in OptionalLevels
  /\ {Capital, Slip, Fee} \subseteq Int
  /\ MaxBars \in [DOMAIN Symbols -> Nat]
  /\ {MaxGiven, Warmup, Stop, Target, MaxHold} \subseteq Nat
  /\ Interval \in Nat \ {0}

VARIABLES engine,   \* "conditions" or "python"
          side,     \* the entry side of a condition strategy
          sizing,
          at,       \* the position in Symbols of the symbol replayed
          index,    \* its next bar
          warm,     \* warmup_complete
          book,     \* cash, open positions, closed trades, whether a trade occurred
          first,    \* last bar of the first symbol that has bars, with its index
          curve,    \* the last point of the equity curve, the peak, the deepest drop
          done

bvars == <<engine, side, sizing, at, index, warm, book, first, curve, done>>

Sum(f(_), s)   == SumFunctionOnSet([i \in DOMAIN s |-> f(s[i])], DOMAIN s)
Greater(a, b)  == IF a < b THEN b ELSE a
Lesser(a, b)   == IF a < b THEN a ELSE b
Nearest(a, b)  == (2 * a + b) \div (2 * b)

Cost(p)   == p.entry * p.quantity
Gain(p, price) == (IF p.side = "long" THEN price - p.entry ELSE p.entry - price) * p.quantity

\* All positions are valued at the close of the bar being replayed.
EquityOf(b, bar) == b.cash + Sum(LAMBDA p : Gain(p, bar.close), b.open)

Size(equity, price) ==
  CASE sizing.type = "fixed"          -> sizing.amount
    [] sizing.type = "fixed_cash"     -> IF price <= 0 THEN 0 ELSE Nearest(sizing.amount, price)
    [] sizing.type = "percent_equity" -> IF price <= 0 THEN 0 ELSE Nearest(equity * sizing.amount, 100 * price)
    [] sizing.type = "percent_risk"   -> IF sizing.stop <= 0 THEN 0
                                         ELSE Nearest(equity * sizing.amount, 100 * sizing.stop)
    [] OTHER                          -> 0

-----------------------------------------------------------------------------
(* Trades *)

\* seen, least and most are history: the extremes of the symbol's bars after the entry.
Trade(symbol, s, quantity, price, stop, target) ==
  [symbol |-> symbol, side |-> s, quantity |-> quantity, entry |-> price, at |-> index,
   stop |-> stop, target |-> target, favorable |-> 0, adverse |-> 0,
   seen |-> FALSE, least |-> price, most |-> price]

FillPrice(s, bar) == IF s = "long" THEN bar.close + Slip ELSE bar.close - Slip

Open(b, symbol, s, quantity, bar, stop, target) ==
  LET price == FillPrice(s, bar) IN
  [b EXCEPT !.open = Append(@, Trade(symbol, s, quantity, price, stop, target)),
            !.cash = @ - Fee - (IF s = "long" THEN price * quantity ELSE 0),
            !.traded = TRUE]

\* An exit is a price and a reason, i the bar it happens at.
Exit(price, reason) == Some([price |-> price, reason |-> reason])

ClosedTrade(p, exit, i) ==
  [trade |-> p, pnl |-> Gain(p, exit.price), held |-> i - p.at, reason |-> exit.reason]

\* Mutant: a closed long is credited what it cost.
CloseAtCost(b, p, exit, i) ==
  [b EXCEPT !.open = RemoveFirst(@, p),
            !.cash = @ + Cost(p),
            !.closed = Append(@, ClosedTrade(p, exit, i)),
            !.traded = TRUE]

\* A closed short is credited its entry value, which was not deducted.
Close(b, p, exit, i) ==
  [b EXCEPT !.open = RemoveFirst(@, p),
            !.cash = @ + (IF p.side = "long" THEN exit.price * p.quantity
                          ELSE Cost(p) + Gain(p, exit.price)),
            !.closed = Append(@, ClosedTrade(p, exit, i)),
            !.traded = TRUE]

\* The positions there are, one after the other: those that have an exit are closed.
CloseEach(b, exits, i) ==
  FoldLeft(LAMBDA a, p : IF exits[p] = None THEN a ELSE Close(a, p, exits[p][1], i), b, b.open)

Has(b, symbol, s) == \E i \in 1..Len(b.open) : b.open[i].symbol = symbol /\ b.open[i].side = s

Below(p, distance) == IF p.side = "long" THEN p.entry - distance ELSE p.entry + distance

\* Whether a bar reaches a level against, or for, a position.
Hurts(p, level, bar) == IF p.side = "long" THEN bar.low <= level ELSE bar.high >= level
Helps(p, level, bar) == IF p.side = "long" THEN bar.high >= level ELSE bar.low <= level

\* Mutant: the target is looked at before the stop.
ConditionExitTargetFirst(p, bar) ==
  CASE Target # 0 /\ Helps(p, Below(p, -Target), bar) -> Exit(Below(p, -Target), "take_profit")
    [] Stop # 0 /\ Hurts(p, Below(p, Stop), bar) -> Exit(Below(p, Stop), "stop_loss")
    [] MaxHold # 0 /\ index - p.at >= MaxHold -> Exit(bar.close, "time_exit")
    [] OTHER -> None

\* The stop before the target, the target before the time.
ConditionExit(p, bar) ==
  IF Stop # 0 /\ Hurts(p, Below(p, Stop), bar) THEN Exit(Below(p, Stop), "stop_loss")
  ELSE IF Target # 0 /\ Helps(p, Below(p, -Target), bar) THEN Exit(Below(p, -Target), "take_profit")
  ELSE IF MaxHold # 0 /\ index - p.at >= MaxHold THEN Exit(bar.close, "time_exit")
  ELSE None

PythonExit(p, bar) ==
  IF p.stop # None /\ Hurts(p, p.stop[1], bar) THEN Exit(p.stop[1], "stop_loss")
  ELSE IF p.target # None /\ Helps(p, p.target[1], bar) THEN Exit(p.target[1], "take_profit")
  ELSE None

\* The exits of a bar.  The Python engine looks at the positions of every symbol.
ExitOf(p, symbol, bar) ==
  IF engine = "python" THEN PythonExit(p, bar)
  ELSE IF p.symbol = symbol THEN ConditionExit(p, bar) ELSE None

CheckExits(b, symbol, bar) ==
  CloseEach(b, [p \in Range(b.open) |-> ExitOf(p, symbol, bar)], index)

\* Positions of a symbol that are closed at the close of the bar.
BySignal(b, closing, bar) ==
  CloseEach(b, [p \in Range(b.open) |-> IF p \in closing THEN Exit(bar.close, "signal") ELSE None], index)

\* Closed first where signal_exit is set.  The setting makes no difference here: a
\* condition engine has one side for the whole replay, so this is empty (OneSided).
Opposite(b, symbol) == {p \in Range(b.open) : p.symbol = symbol /\ p.side # side}

ProcessEntry(b, symbol, bar) ==
  LET c        == BySignal(b, Opposite(b, symbol), bar)
      quantity == Size(EquityOf(c, bar), bar.close)
  IN IF Has(c, symbol, side) \/ quantity <= 0 \/ bar.close * quantity > c.cash THEN c
     ELSE Open(c, symbol, side, quantity, bar, None, None)

\* A signal may name any symbol; it is filled at the bar being replayed.
ProcessSignal(b, signal, bar) ==
  LET quantity == IF signal.quantity > 0 THEN signal.quantity ELSE Size(EquityOf(b, bar), bar.close)
  IN IF \/ Has(b, signal.symbol, signal.side)
        \/ quantity <= 0
        \/ signal.side = "long" /\ bar.close * quantity > b.cash
     THEN b
     ELSE Open(b, signal.symbol, signal.side, quantity, bar, signal.stop, signal.target)

\* The signals of a bar, in the order the strategy returned them: a later one finds
\* the positions and the cash the earlier ones have left.
ProcessSignals(b, given, bar) == FoldLeft(LAMBDA a, signal : ProcessSignal(a, signal, bar), b, given)

ConditionExits(b, symbol, bar) == BySignal(b, {p \in Range(b.open) : p.symbol = symbol}, bar)

\* The excursions of the positions of a symbol.
Excursion(b, symbol, bar) ==
  [b EXCEPT !.open = [i \in 1..Len(@) |->
     LET p == @[i]
         up == bar.high - p.entry
         down == p.entry - bar.low
     IN IF p.symbol # symbol THEN p
        ELSE [p EXCEPT !.favorable = Greater(@, IF p.side = "long" THEN up ELSE down),
                       !.adverse   = Greater(@, IF p.side = "long" THEN down ELSE up)]]]

\* History: the bar is seen by the positions opened before it.
Seen(b, symbol, bar) ==
  [b EXCEPT !.open = [i \in 1..Len(@) |->
     IF @[i].symbol # symbol THEN @[i]
     ELSE LET p == @[i] IN
          [p EXCEPT !.seen = TRUE,
                    !.least = IF p.seen THEN Lesser(@, bar.low) ELSE bar.low,
                    !.most = IF p.seen THEN Greater(@, bar.high) ELSE bar.high]]]

RecordEquity(b, bar, i) ==
  IF i % Interval = 0 \/ b.traded
  THEN LET e == EquityOf(b, bar)
           peak == Greater(curve.peak, e)
       IN [equity |-> e, peak |-> peak, drop |-> Greater(curve.drop, peak - e)]
  ELSE curve

\* A recorded point resets _trade_occurred.
Recorded(b) == [b EXCEPT !.traded = FALSE]

-----------------------------------------------------------------------------

BInit ==
  /\ engine \in {"conditions", "python"} /\ side \in Sides
  /\ engine = "python" => side = "long"
  /\ sizing \in Sizings
  /\ at = 1 /\ index = 0 /\ warm = FALSE
  /\ book = [cash |-> Capital, open |-> <<>>, closed |-> <<>>, traded |-> FALSE]
  /\ first = None
  /\ curve = [equity |-> Capital, peak |-> Capital, drop |-> 0]
  /\ done = FALSE

\* A bar begins with the exits of the symbol's positions.
Exited(bar) == CheckExits(Seen(book, Symbols[at], bar), Symbols[at], bar)

IsWarm == warm \/ index >= Warmup

\* Once the engine is warm the bar is played; the excursions and the equity
\* curve follow in any case.
Walk(bar, played) ==
  /\ ~done /\ at <= Len(Symbols) /\ index < MaxBars[at]
  /\ warm' = IsWarm
  /\ LET after == Excursion(IF IsWarm THEN played ELSE Exited(bar), Symbols[at], bar)
     IN curve' = RecordEquity(after, bar, index) /\ book' = Recorded(after)
  /\ first' = IF first = None \/ first[1].at = at
              THEN Some([at |-> at, bar |-> bar, index |-> index]) ELSE first
  /\ index' = index + 1
  /\ UNCHANGED <<engine, side, sizing, at, done>>

Replay(bar) ==
  /\ engine = "conditions" /\ at <= Len(Symbols)
  /\ \E entry, exit \in BOOLEAN :
       LET symbol  == Symbols[at]
           entered == IF entry THEN ProcessEntry(Exited(bar), symbol, bar) ELSE Exited(bar)
       IN Walk(bar, IF exit THEN ConditionExits(entered, symbol, bar) ELSE entered)

\* Any signals, or none.  Where processing one raises, the ones before it are processed.
ReplayPython(bar) ==
  /\ engine = "python" /\ at <= Len(Symbols)
  /\ \E given \in SeqOf(Signals, MaxGiven) : Walk(bar, ProcessSignals(Exited(bar), given, bar))

NextSymbol ==
  /\ ~done /\ at <= Len(Symbols)
  /\ at' = at + 1 /\ index' = 0
  /\ UNCHANGED <<engine, side, sizing, warm, book, first, curve, done>>

\* What is still open is closed at the last bar of the first symbol, whatever its
\* own symbol, and without a point of the equity curve.
Finish ==
  /\ ~done /\ at > Len(Symbols)
  /\ done' = TRUE
  /\ book' = IF first = None THEN book
             ELSE CloseEach(book, [p \in Range(book.open) |-> Exit(first[1].bar.close, "end_of_data")],
                            first[1].index)
  /\ UNCHANGED <<engine, side, sizing, at, index, warm, first, curve>>

BNext == (\E bar \in Bars : Replay(bar) \/ ReplayPython(bar)) \/ NextSymbol \/ Finish

BSpec == BInit /\ [][BNext]_bvars

-----------------------------------------------------------------------------
(* Metrics of the closed trades *)

Pnls == [i \in DOMAIN book.closed |-> book.closed[i].pnl]

TotalFees == Fee * Len(book.closed)

NetPnl == Sum(LAMBDA c : c.pnl, book.closed) - TotalFees

Streak(winning, s, p) ==
  IF (p > 0) = winning THEN [now |-> s.now + 1, max |-> Greater(s.max, s.now + 1)]
  ELSE [s EXCEPT !.now = 0]

MaxStreak(winning) ==
  FoldLeft(LAMBDA s, p : Streak(winning, s, p), [now |-> 0, max |-> 0], Pnls).max

GrossProfit == Sum(LAMBDA c : IF c.pnl > 0 THEN c.pnl ELSE 0, book.closed)
GrossLoss   == -Sum(LAMBDA c : IF c.pnl <= 0 THEN c.pnl ELSE 0, book.closed)

-----------------------------------------------------------------------------
(* Properties *)

\* What the cash of a book lacks for its open longs, and what it has too much
\* since a short was closed.
Invested(p)   == IF p.side = "long" THEN Cost(p) ELSE 0
LeftBehind(c) == IF c.trade.side = "short" THEN Cost(c.trade) ELSE 0

\* The cash is the capital and the profits less the fees and what is invested in
\* open longs; each closed short has left its entry value on top, which is how
\* _close_position and _process_entry treat shorts.
Balanced(b) ==
  b.cash = Capital + Sum(LAMBDA c : c.pnl, b.closed) - Fee * (Len(b.closed) + Len(b.open))
           - Sum(Invested, b.open) + Sum(LeftBehind, b.closed)

\* The runs of wins, or of losses, among the trades.
Streaks(winning) ==
  {r \in (DOMAIN Pnls) \X (DOMAIN Pnls) : r[1] <= r[2] /\ \A k \in r[1]..r[2] : (Pnls[k] > 0) = winning}

StreakLength(r) == r[2] - r[1] + 1

\* The streaks of compute_metrics are the longest runs of wins and of losses.
StreaksAgree ==
  \A w \in BOOLEAN :
    /\ \A r \in Streaks(w) : StreakLength(r) <= MaxStreak(w)
    /\ MaxStreak(w) = 0 \/ \E r \in Streaks(w) : StreakLength(r) = MaxStreak(w)

\* The profit is what was won less what was lost, and a finished run of longs
\* ends with the capital and the net profit it reports.
ProfitAgrees ==
  /\ NetPnl + TotalFees = GrossProfit - GrossLoss
  /\ done /\ engine = "conditions" /\ side = "long" => book.open = <<>> /\ book.cash = Capital + NetPnl

\* Cash, trades and metrics tell one story.
BooksAgree == Balanced(book) /\ StreaksAgree /\ ProfitAgrees

\* What a position is held against, and whether the bars it has seen met it.
StopOf(p)   == IF engine = "python" THEN p.stop ELSE IF Stop = 0 THEN None ELSE Some(Below(p, Stop))
TargetOf(p) == IF engine = "python" THEN p.target ELSE IF Target = 0 THEN None ELSE Some(Below(p, -Target))
Stretch(p)  == [low |-> p.least, high |-> p.most]
Stopped(p)  == p.seen /\ StopOf(p) # None /\ Hurts(p, StopOf(p)[1], Stretch(p))
Reached(p)  == p.seen /\ TargetOf(p) # None /\ Helps(p, TargetOf(p)[1], Stretch(p))

\* A Python position is judged while only bars of its symbol are replayed.
Judged(p) == engine = "conditions" \/ (at = 1 /\ p.symbol = Symbols[1])

\* An open position has not met its stop, its target or its last bar.
KeptInTime(p) ==
  /\ ~Stopped(p) /\ ~Reached(p)
  /\ engine = "conditions" /\ MaxHold # 0 /\ at <= Len(Symbols) /\ p.symbol = Symbols[at]
       => index - 1 - p.at < MaxHold

\* A trade that took its profit had not met its stop, not even in the same bar,
\* and one that was stopped had.
ClosedInTime(c) ==
  /\ c.reason = "take_profit" => Reached(c.trade) /\ ~Stopped(c.trade)
  /\ c.reason = "stop_loss" => Stopped(c.trade)
  /\ c.reason \notin {"stop_loss", "end_of_data"} => ~Stopped(c.trade)

\* No exit is late and none is flattering, after each bar.
ExitsOnTime ==
  /\ \A i \in DOMAIN book.open : Judged(book.open[i]) => KeptInTime(book.open[i])
  /\ \A i \in DOMAIN book.closed : Judged(book.closed[i].trade) => ClosedInTime(book.closed[i])

-----------------------------------------------------------------------------
(* The invariant behind them *)

AllSymbols == Range(Symbols) \cup {s.symbol : s \in Signals}
Reasons    == {"stop_loss", "take_profit", "time_exit", "signal", "end_of_data"}

Trades  == [symbol : AllSymbols, side : Sides, quantity : Int, entry : Int, at : Nat, stop : OptionalLevels,
            target : OptionalLevels, favorable : Int, adverse : Int, seen : BOOLEAN, least : Int, most : Int]
Records == [trade : Trades, pnl : Int, held : Int, reason : Reasons]
Books   == [cash : Int, open : Seq(Trades), closed : Seq(Records), traded : BOOLEAN]

BTypeOK ==
  /\ engine \in {"conditions", "python"} /\ side \in Sides /\ sizing \in Sizings
  /\ at \in 1..Len(Symbols) + 1 /\ index \in Nat /\ warm \in BOOLEAN /\ done \in BOOLEAN
  /\ book \in Books
  /\ first \in {None} \cup [1..1 -> [at : Nat, bar : Bars, index : Nat]]
  /\ curve \in [equity : Int, peak : Int, drop : Int]

\* There is one position of a symbol on a side.
OnePerSide(b) ==
  \A i, j \in DOMAIN b.open :
    i # j => b.open[i].symbol # b.open[j].symbol \/ b.open[i].side # b.open[j].side

\* A condition strategy takes its own side.
OneSided(b) ==
  engine = "conditions" => /\ \A i \in DOMAIN b.open : b.open[i].side = side
                           /\ \A i \in DOMAIN b.closed : b.closed[i].trade.side = side

BacktestInv ==
  /\ BTypeOK
  /\ Balanced(book) /\ OnePerSide(book) /\ OneSided(book)
  /\ first = None \/ done => book.open = <<>>

=============================================================================
