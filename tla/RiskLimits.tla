----------------------------- MODULE RiskLimits -----------------------------
(***************************************************************************)
(* What the risk checks measure and what becomes of an approval: entries   *)
(* are checked against the exposures, the drawdown and the losses of the   *)
(* moment, their orders are sized later and on their own, and the books    *)
(* move in between.  Positions are long and shares whole, fills cost what  *)
(* the price says (no slippage, no fee), and there is one market.  The     *)
(* statuses of signals, duplicates and the deactivation of the kill switch *)
(* are the matter of SignalPipeline and KillSwitch.                        *)
(***************************************************************************)
EXTENDS Integers, FiniteSets, Functions, SequencesExt

CONSTANTS Traders,        \* the strategies
          Symbols, Prices,
          SizingOf,       \* position_sizing of each of them
          RiskConfigs,    \* what an administrator may set, limits in percent
          InitialCash, DefaultEquity,
          Times,          \* [weekday, hour] at which signals are evaluated
          MaxSignals, MaxChanges

ASSUME LimitsAssumption ==
  /\ IsFiniteSet(Traders) /\ IsFiniteSet(Symbols)
  /\ Prices \subseteq Nat \ {0}
  /\ \A s \in Traders : SizingOf[s].value \in Nat /\ SizingOf[s].own \in Nat /\ SizingOf[s].stop \in Nat
  /\ \A c \in RiskConfigs : c.symbol \in Nat /\ c.strategy \in Nat /\ c.total \in Nat /\ c.minimum \in Nat
  /\ InitialCash \in Nat /\ DefaultEquity \in Nat
  /\ MaxSignals \in Nat /\ MaxChanges \in Nat

VARIABLES ready,    \* the portfolio service has been started
          config,   \* the row of risk_config
          price,    \* the latest close of each symbol
          books,     \* the open position of a strategy in a symbol
          cash, peak, loss,
          halted,   \* the global kill switch
          orders,   \* approved signals that have no order yet, the oldest first
          signals, changes

lvars == <<ready, config, price, books, cash, peak, loss, halted, orders, signals, changes>>

None    == <<>>
Some(x) == <<x>>

NoPosition == [qty |-> 0, mark |-> 0, cost |-> 0, realized |-> 0]
Position   == [qty : Nat, mark : Nat, cost : Int, realized : Int]

-----------------------------------------------------------------------------
(* The monitors *)

ValueOf(row) == row.qty * row.mark

SymbolExposure(x)   == SumFunctionOnSet([s \in Traders |-> ValueOf(books[s][x])], Traders)
StrategyExposure(s) == SumFunctionOnSet([x \in Symbols |-> ValueOf(books[s][x])], Symbols)
TotalExposure       == SumFunctionOnSet([x \in Symbols |-> SymbolExposure(x)], Symbols)
Equity              == cash + TotalExposure
PositionsOf(s)      == Cardinality({x \in Symbols : books[s][x].qty > 0})

\* Nothing is known of the equity without the portfolio service; a peak that
\* was never written is taken to be the equity.
CurrentEquity == IF ready THEN Some(Equity) ELSE None
PeakEquity    == IF peak = None THEN CurrentEquity ELSE peak

Drawdown ==
  IF CurrentEquity = None THEN [available |-> FALSE, peak |-> DefaultEquity, equity |-> DefaultEquity]
  ELSE [available |-> TRUE, peak |-> PeakEquity[1], equity |-> CurrentEquity[1]]

\* Whether the drawdown reaches a number of tenths of a percent.
Reaches(d, tenths) ==
  IF ~d.available \/ d.peak <= 0 THEN tenths <= 0 ELSE (d.peak - d.equity) * 1000 >= tenths * d.peak

ThresholdStatus(d, c) ==
  IF ~d.available THEN "degraded"
  ELSE IF Reaches(d, 10 * c.catastrophic) THEN "catastrophic"
  ELSE IF Reaches(d, 10 * c.drawdown) THEN "breach"
  ELSE IF Reaches(d, 7 * c.drawdown) THEN "warning" ELSE "normal"

TodaysLoss == IF ready THEN loss ELSE 0

LossLimit(c, equity) ==
  IF c.lossAmount # None THEN c.lossAmount[1] ELSE (c.lossPercent * equity) \div 100

\* What the checks of one signal share.  The exposures of a service that has
\* not been started are empty, and its equity is the default one.
RiskContext ==
  [equity    |-> IF ready THEN Equity ELSE DefaultEquity,
   symbol    |-> [x \in Symbols |-> IF ready THEN SymbolExposure(x) ELSE 0],
   strategy  |-> [s \in Traders |-> IF ready THEN StrategyExposure(s) ELSE 0],
   total     |-> IF ready THEN TotalExposure ELSE 0,
   positions |-> [s \in Traders |-> IF ready THEN PositionsOf(s) ELSE 0],
   drawdown  |-> Drawdown,
   loss      |-> TodaysLoss,
   config    |-> config, price |-> price, halted |-> halted]

Contexts ==
  [equity : Int, symbol : [Symbols -> Int], strategy : [Traders -> Int], total : Int,
   positions : [Traders -> Nat], drawdown : [available : BOOLEAN, peak : Int, equity : Int],
   loss : Int, config : RiskConfigs, price : [Symbols -> Prices], halted : BOOLEAN]

\* The value the exposure checks add to what is held: the key "value" of the
\* sizing, whatever the method calls for.
ProposedValue(sizing, equity, at) ==
  CASE sizing.method = "fixed_dollar"   -> sizing.value
    [] sizing.method = "percent_equity" -> (equity * sizing.value) \div 100
    [] OTHER                            -> sizing.value * at

-----------------------------------------------------------------------------
(* The checks *)

MarketOpen(market, time) ==
  IF market = "forex"
  THEN CASE time.weekday = 5 -> FALSE
         [] time.weekday = 6 -> time.hour >= 22
         [] time.weekday = 4 -> time.hour < 22
         [] OTHER            -> TRUE
  ELSE time.weekday < 5 /\ 13 <= time.hour /\ time.hour < 21

\* An exit on a closed market is noted, not held back.
MarketHoursVerdict(type, time) ==
  IF MarketOpen("equities", time) THEN "pass" ELSE IF type = "exit" THEN "modify" ELSE "reject"

\* The sizing check reads a key of its own for every method ("qty", "amount",
\* "percent"), 0 when it is missing.
RequestedValue(sizing, equity, at) ==
  CASE sizing.method = "fixed_qty"      -> Some(sizing.own * at)
    [] sizing.method = "fixed_dollar"   -> Some(sizing.own)
    [] sizing.method = "percent_equity" -> Some((equity * sizing.own) \div 100)
    [] sizing.method = "risk_based"     -> IF sizing.distance <= 0 THEN None
                                           ELSE Some(((equity * sizing.own * at) \div 100) \div sizing.distance)
    [] OTHER                            -> None

Share(percent, equity) == (percent * equity) \div 100

SizingVerdict(c, s, x) ==
  LET requested == RequestedValue(SizingOf[s], c.equity, c.price[x])
      most      == Share(c.config.size, c.equity) IN
  IF c.equity <= 0 \/ requested = None THEN "reject"
  ELSE IF requested[1] <= 0 THEN "reject"
  ELSE IF requested[1] > most THEN (IF most >= c.config.minimum THEN "modify" ELSE "reject")
  ELSE IF requested[1] < c.config.minimum THEN "reject" ELSE "pass"

\* Mutant: what is already held is forgotten.
SymbolVerdictAlone(c, x, proposed) ==
  IF c.equity <= 0 \/ proposed <= Share(c.config.symbol, c.equity) THEN "pass" ELSE "reject"

SymbolVerdict(c, x, proposed) ==
  LET most == Share(c.config.symbol, c.equity) IN
  IF c.equity <= 0 \/ c.symbol[x] + proposed <= most THEN "pass"
  ELSE IF most - c.symbol[x] >= c.config.minimum THEN "modify" ELSE "reject"

StrategyVerdict(c, s, proposed) ==
  IF c.equity > 0 /\ c.strategy[s] + proposed > Share(c.config.strategy, c.equity) THEN "reject" ELSE "pass"

PortfolioVerdict(c, proposed) ==
  IF c.equity > 0 /\ c.total + proposed > Share(c.config.total, c.equity) THEN "reject" ELSE "pass"

DrawdownVerdict(c) == IF Reaches(c.drawdown, 10 * c.config.drawdown) THEN "reject" ELSE "pass"

DailyLossVerdict(c) ==
  LET limit == LossLimit(c.config, c.equity) IN
  IF (c.config.lossAmount # None \/ c.equity > 0) /\ limit > 0 /\ c.loss >= limit THEN "reject" ELSE "pass"

LimitVerdict(c, s) ==
  IF SizingOf[s].positions # None /\ c.positions[s] >= SizingOf[s].positions[1] THEN "reject" ELSE "pass"

\* A modification is noted and the checks go on with the value proposed first.
Decision(c, s, x, time) ==
  LET proposed == ProposedValue(SizingOf[s], c.equity, c.price[x])
      verdicts == {IF c.halted THEN "reject" ELSE "pass",
                   MarketHoursVerdict("entry", time),
                   LimitVerdict(c, s), SizingVerdict(c, s, x), SymbolVerdict(c, x, proposed),
                   StrategyVerdict(c, s, proposed), PortfolioVerdict(c, proposed),
                   DrawdownVerdict(c), DailyLossVerdict(c)}
  IN IF "reject" \in verdicts THEN "rejected" ELSE IF "modify" \in verdicts THEN "modified" ELSE "approved"

-----------------------------------------------------------------------------
(* Signals and orders *)

Approval == [type : {"entry", "exit"}, strategy : Traders, symbol : Symbols,
             status : {"approved", "modified"}, context : Contexts, proposed : Int]

LTypeOK ==
  /\ ready \in BOOLEAN /\ halted \in BOOLEAN /\ config \in RiskConfigs
  /\ price \in [Symbols -> Prices] /\ books \in [Traders -> [Symbols -> Position]]
  /\ cash \in Nat /\ loss \in Int /\ peak \in Seq(Int) /\ Len(peak) <= 1
  /\ orders \in Seq(Approval)
  /\ signals \in 0..MaxSignals /\ changes \in 0..MaxChanges

\* The cash accounts exist; the peak may have never been written.
LInit ==
  /\ ready = FALSE /\ config \in RiskConfigs /\ price \in [Symbols -> Prices]
  /\ books = [s \in Traders |-> [x \in Symbols |-> NoPosition]]
  /\ cash = InitialCash /\ peak \in {None, Some(InitialCash)} /\ loss = 0 /\ halted = FALSE
  /\ orders = <<>> /\ signals = 0 /\ changes = 0

Queue(type, s, x, status) ==
  /\ signals < MaxSignals /\ signals' = signals + 1
  /\ orders' = IF status = "rejected" THEN orders
               ELSE Append(orders, [type |-> type, strategy |-> s, symbol |-> x, status |-> status,
                                    context |-> RiskContext,
                                    proposed |-> ProposedValue(SizingOf[s], RiskContext.equity, price[x])])
  /\ UNCHANGED <<ready, config, price, books, cash, peak, loss, halted, changes>>

EvaluateEntry(s, x) == \E time \in Times : Queue("entry", s, x, Decision(RiskContext, s, x, time))

\* Exits take the fast path.  That the market is closed is noted as a
\* modification, which nobody reads.  Positions are long: what a second exit
\* in flight would do to the row, turn it over, is the matter of ForexPool.
EvaluateExit(s, x) ==
  /\ books[s][x].qty > 0
  /\ ~\E i \in DOMAIN orders : orders[i].type = "exit" /\ orders[i].strategy = s /\ orders[i].symbol = x
  /\ \E time \in Times : Queue("exit", s, x, IF MarketHoursVerdict("exit", time) = "modify" THEN "modified" ELSE "approved")

\* Sized again from the configuration, with the cash the account began with for
\* its equity; what the checks modified is not looked at.
OrderQty(sizing, at) ==
  CASE sizing.method = "fixed_dollar"   -> sizing.value \div at
    [] sizing.method = "percent_equity" -> ((InitialCash * sizing.value) \div 100) \div at
    [] sizing.method = "risk_based"     -> IF sizing.stop = at THEN 0
                                           ELSE ((InitialCash * sizing.own) \div 100)
                                                \div (IF at > sizing.stop THEN at - sizing.stop ELSE sizing.stop - at)
    [] OTHER                            -> sizing.value

\* A row keeps the mark it has until the next mark to market.
Bought(row, qty, at) ==
  IF row.qty = 0 THEN [qty |-> qty, mark |-> at, cost |-> qty * at, realized |-> 0]
  ELSE [row EXCEPT !.qty = @ + qty, !.cost = @ + qty * at]

Sold(row, qty, at) ==
  LET cost == (row.cost * qty) \div row.qty
  IN [row EXCEPT !.qty = @ - qty, !.cost = @ - cost, !.realized = @ + qty * at - cost]

\* The loss of a day is that of the rows it closed.
Settle(s, x, row) ==
  /\ loss' = IF row.qty = 0 /\ row.realized < 0 THEN loss - row.realized ELSE loss
  /\ books' = [books EXCEPT ![s][x] = IF row.qty = 0 THEN NoPosition ELSE row]

\* The fill of an order reaches the portfolio only when its service is there.
Execute ==
  /\ orders # <<>> /\ orders' = Tail(orders)
  /\ LET o == Head(orders)  at == price[o.symbol]
         row == books[o.strategy][o.symbol]
         qty == OrderQty(SizingOf[o.strategy], at)
         sold == IF qty < row.qty THEN qty ELSE row.qty
     IN IF ~ready \/ qty <= 0 \/ (o.type = "entry" /\ qty * at > cash)
        THEN UNCHANGED <<books, cash, loss>>
        ELSE IF o.type = "entry"
        THEN /\ cash' = cash - qty * at /\ Settle(o.strategy, o.symbol, Bought(row, qty, at))
        ELSE /\ cash' = cash + sold * at /\ Settle(o.strategy, o.symbol, Sold(row, sold, at))
  /\ UNCHANGED <<ready, config, price, peak, halted, signals, changes>>

-----------------------------------------------------------------------------
(* What moves in between *)

Change == changes < MaxChanges /\ changes' = changes + 1

\* The service is there before its tables are: a start that fails in between is
\* not fatal, and leaves the peak as it was, be it unwritten.
Start ==
  /\ ~ready /\ ready' = TRUE
  /\ peak' \in {peak, IF peak = None THEN Some(cash) ELSE peak}
  /\ UNCHANGED <<config, price, books, cash, loss, halted, orders, signals, changes>>

\* Signals, rows, cash and peak are in the database; the service is not.
Restart ==
  /\ ready /\ ready' = FALSE /\ Change
  /\ UNCHANGED <<config, price, books, cash, peak, loss, halted, orders, signals>>

NewPrice(x, p) ==
  /\ price[x] # p /\ price' = [price EXCEPT ![x] = p] /\ Change
  /\ UNCHANGED <<ready, config, books, cash, peak, loss, halted, orders, signals>>

Marked(row, at) == IF row.qty = 0 THEN row ELSE [row EXCEPT !.mark = at]

MarkToMarket ==
  /\ ready
  /\ books' = [s \in Traders |-> [x \in Symbols |-> Marked(books[s][x], price[x])]]
  /\ UNCHANGED <<ready, config, price, cash, loss, halted, orders, signals, changes>>
  /\ peak' = IF TotalExposure > 0 /\ peak # None /\ Equity' > peak[1] THEN Some(Equity') ELSE peak

UpdateRiskConfig ==
  /\ config' \in RiskConfigs \ {config} /\ Change
  /\ UNCHANGED <<ready, price, books, cash, peak, loss, halted, orders, signals>>

ResetPeakEquity ==
  /\ ready /\ peak' = Some(Equity) /\ peak' # peak
  /\ UNCHANGED <<ready, config, price, books, cash, loss, halted, orders, signals, changes>>

\* Only a request for the drawdown arms the kill switch, the checks do not.
GetDrawdown ==
  /\ ThresholdStatus(Drawdown, config) = "catastrophic" /\ ~halted /\ halted' = TRUE
  /\ UNCHANGED <<ready, config, price, books, cash, peak, loss, orders, signals, changes>>

Midnight ==
  /\ loss > 0 /\ loss' = 0
  /\ UNCHANGED <<ready, config, price, books, cash, peak, halted, orders, signals, changes>>

LNext ==
  \/ \E s \in Traders, x \in Symbols : EvaluateEntry(s, x) \/ EvaluateExit(s, x)
  \/ \E x \in Symbols, p \in Prices : NewPrice(x, p)
  \/ Execute \/ Start \/ Restart \/ MarkToMarket \/ UpdateRiskConfig
  \/ ResetPeakEquity \/ GetDrawdown \/ Midnight

LSpec == LInit /\ [][LNext]_lvars

-----------------------------------------------------------------------------
(* Properties *)

Measured == Symbols \cup Traders \cup {"portfolio"}

Exposure(k) == IF k \in Symbols THEN SymbolExposure(k)
               ELSE IF k \in Traders THEN StrategyExposure(k) ELSE TotalExposure
Limit(k) == Share(IF k \in Symbols THEN config.symbol
                  ELSE IF k \in Traders THEN config.strategy ELSE config.total, Equity)

Over == {k \in Measured : Exposure(k) > Limit(k)}

Quantities == [s \in Traders |-> [x \in Symbols |-> books[s][x].qty]]

\* The order was checked against other books than it is filled on, or at
\* another value: two approvals of one cycle, a restart, a move of the price.
Drifted(o) ==
  \/ o.context # RiskContext
  \/ price[o.symbol] * OrderQty(SizingOf[o.strategy], price[o.symbol]) > o.proposed
  \/ books[o.strategy][o.symbol].qty > 0 /\ books[o.strategy][o.symbol].mark # price[o.symbol]

\* The symbol's limit capped the value of the order, and the order was sized
\* as if it had not.
CapIgnored(o, k) == o.status = "modified" /\ k = o.symbol

\* An exposure passes its limit only because the limit or the marks moved, or
\* by the fill of an order that had drifted from what was checked or whose cap
\* was ignored: an entry filled as it was approved breaks no limit, and an exit
\* breaks one only on rows that wait to be marked.
LimitsHold ==
  [][\A k \in Over' \ Over :
       \/ config' # config
       \/ Quantities' = Quantities
       \/ /\ orders # <<>> /\ orders' = Tail(orders)
          /\ \/ Drifted(Head(orders))
             \/ CapIgnored(Head(orders), k)]_lvars

-----------------------------------------------------------------------------
(* What the limits rest on *)

\* An exit that waits has a row to close, as long as none other waits for it.
ExitsHaveRows ==
  \A i \in DOMAIN orders : orders[i].type = "exit" =>
    /\ books[orders[i].strategy][orders[i].symbol].qty > 0
    /\ \A j \in DOMAIN orders : orders[j].type = "exit" /\ orders[j].strategy = orders[i].strategy
                                /\ orders[j].symbol = orders[i].symbol => j = i

\* An entry that waits has passed the checks, in the books of that moment.
Approved(o) ==
  /\ \E time \in Times : o.status = Decision(o.context, o.strategy, o.symbol, time)
  /\ o.proposed = ProposedValue(SizingOf[o.strategy], o.context.equity, o.context.price[o.symbol])

EntriesStand == \A i \in DOMAIN orders : orders[i].type = "entry" => Approved(orders[i])

LimitsInv == LTypeOK /\ ExitsHaveRows /\ EntriesStand

=============================================================================
