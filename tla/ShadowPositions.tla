--------------------------- MODULE ShadowPositions ---------------------------
(***************************************************************************)
(* Fill simulation and shadow tracking: an entry the forex pool had no     *)
(* account for is filled on paper of its own, and every cycle of the       *)
(* strategy runner looks at the exits of the shadow positions.  Slippage   *)
(* and forex fees are basis points, exit rules whole percents, and the     *)
(* prices of an instance are chosen so that all of them come out whole.    *)
(***************************************************************************)
EXTENDS Integers, SequencesExt

CONSTANTS Prices, Quantity,
          Rules,          \* exit rules, [stop, target, trailing] in percent, a stop or a target 0
                          \* when disabled, trails: whether the trailing stop is enabled
          SlippageBps,    \* by kind of order: forex, equities, options
          FeeBpsForex, FeePerTrade,
          Tracking,       \* [enabled, forexOnly]
          MaxShadows, MaxTicks

OrderSides == {"buy", "sell"}
Markets    == {"forex", "equities"}

-----------------------------------------------------------------------------
(* Fill simulation *)

Percent(x, p) == (x * (100 + p)) \div 100

SlippageOf(order) ==
  IF order.option THEN SlippageBps.options
  ELSE IF order.market = "forex" THEN SlippageBps.forex ELSE SlippageBps.equities

FeeOf(gross, market) == IF market = "forex" THEN (gross * FeeBpsForex) \div 10000 ELSE FeePerTrade[market]

ExecutionPrice(reference, side, bps) ==
  (reference * (10000 + (IF side = "buy" THEN bps ELSE -bps))) \div 10000

\* What a fill moves: paid for a buy, received for a sell.
NetOf(side, gross, fee) == IF side = "buy" THEN gross + fee ELSE gross - fee

Simulate(order, reference) ==
  LET paid  == ExecutionPrice(reference, order.side, SlippageOf(order))
      gross == order.quantity * paid * order.multiplier
      fee   == FeeOf(gross, order.market)
  IN [side |-> order.side, price |-> paid, quantity |-> order.quantity, fee |-> fee,
      net |-> NetOf(order.side, gross, fee)]

-----------------------------------------------------------------------------

\* The price at which an instance enters.
EntryPrice(reference, side, market) ==
  ExecutionPrice(reference, side, SlippageOf([option |-> FALSE, market |-> market]))

\* The code computes in decimals: the stops of an instance come out whole.
ASSUME ShadowAssumption ==
  /\ Prices \subseteq Nat \ {0}
  /\ Quantity \in Nat \ {0}
  /\ Rules \subseteq [stop : Nat, target : Nat, trailing : Nat, trails : BOOLEAN]
  /\ {SlippageBps.forex, SlippageBps.equities, FeeBpsForex, FeePerTrade.equities} \subseteq Nat
  /\ \A p \in Prices, s \in OrderSides, m \in Markets :
       EntryPrice(p, s, m) > 0 /\ \A r \in Rules : (EntryPrice(p, s, m) * r.stop) % 100 = 0

VARIABLES price,      \* the latest close
          rules,      \* exit_rules of the active configuration
          positions,  \* sequence of shadow positions, the oldest first
          fills,      \* sequence of shadow fills
          judged,     \* history: nothing happened since the evaluator looked
          ticks

svars == <<price, rules, positions, fills, judged, ticks>>

NoLevel == <<>>

-----------------------------------------------------------------------------
(* Shadow entries *)

ShouldTrack(market) == Tracking.enabled /\ (Tracking.forexOnly => market = "forex")

ExitLevel(side, base, percent) ==
  IF percent = 0 THEN NoLevel ELSE <<Percent(base, IF side = "long" THEN percent ELSE -percent)>>

\* The rules are read from the configuration at the time of the entry.
Entered(fill) ==
  LET side == IF fill.side = "buy" THEN "long" ELSE "short" IN
  [side |-> side, quantity |-> fill.quantity, entry |-> fill.price, entryFee |-> fill.fee,
   stop |-> ExitLevel(side, fill.price, -rules.stop),
   target |-> ExitLevel(side, fill.price, rules.target),
   trailing |-> IF rules.trails THEN ExitLevel(side, fill.price, -rules.trailing) ELSE NoLevel,
   highest |-> fill.price, status |-> "open", reason |-> "none", realized |-> 0,
   fills |-> <<Len(fills) + 1>>]

SInit ==
  /\ price \in Prices /\ rules \in Rules
  /\ positions = <<>> /\ fills = <<>> /\ judged = FALSE /\ ticks = 0

\* An order is rejected because no account is available.  It is no option, so
\* that its contract_multiplier is 1.
Block(side, market) ==
  /\ Len(positions) < MaxShadows
  /\ IF ShouldTrack(market)
     THEN LET fill == Simulate([side |-> side, market |-> market, option |-> FALSE,
                                quantity |-> Quantity, multiplier |-> 1], price)
          IN positions' = Append(positions, Entered(fill)) /\ fills' = Append(fills, fill)
     ELSE UNCHANGED <<positions, fills>>
  /\ judged' = FALSE
  /\ UNCHANGED <<price, rules, ticks>>

Tick(p) ==
  /\ ticks < MaxTicks /\ ticks' = ticks + 1
  /\ price' = p /\ judged' = FALSE
  /\ UNCHANGED <<rules, positions, fills>>

Reconfigure(r) ==
  /\ r # rules /\ ticks < MaxTicks /\ ticks' = ticks + 1
  /\ rules' = r /\ judged' = FALSE
  /\ UNCHANGED <<price, positions, fills>>

-----------------------------------------------------------------------------
(* Shadow exits *)

Against(p, level) == IF p.side = "long" THEN price <= level ELSE price >= level
Past(p, level)    == IF p.side = "long" THEN price >= level ELSE price <= level

Peaked(p) == [p EXCEPT !.highest = IF price > @ THEN price ELSE @]

\* The level of a short follows the highest price too.  The percent counts
\* whether or not the trailing stop is enabled now.
Trailed(p) ==
  LET level   == Percent(p.highest, IF p.side = "long" THEN -rules.trailing ELSE rules.trailing)
      tighter == IF p.side = "long" THEN level > p.trailing[1] ELSE level < p.trailing[1]
  IN IF tighter THEN [p EXCEPT !.trailing = <<level>>] ELSE p

Gross(p) == (IF p.side = "long" THEN price - p.entry ELSE p.entry - price) * p.quantity

\* An exit is filled at the latest close, without slippage and with the fee of
\* forex; the fee of the entry is in no profit.
CloseShadow(p, reason) ==
  [p EXCEPT !.status = "closed", !.reason = reason,
            !.realized = Gross(p) - FeeOf(price * p.quantity, "forex")]

ExitFill(p) ==
  LET side == IF p.side = "long" THEN "sell" ELSE "buy"
      fee  == FeeOf(price * p.quantity, "forex")
  IN [side |-> side, price |-> price, quantity |-> p.quantity, fee |-> fee,
      net |-> NetOf(side, price * p.quantity, fee)]

\* Mutant: a position that has a target is not held against its stop.
EvaluatedTargetOnly(p) ==
  LET seen == Peaked(p) IN
  CASE p.target # NoLevel /\ Past(seen, p.target[1]) -> CloseShadow(seen, "take_profit")
    [] OTHER -> seen

\* Stop, then target, then the trailing level, which is not moved when one of
\* the others closes the position.
Evaluated(p) ==
  LET seen  == Peaked(p)
      moved == Trailed(seen)
  IN CASE p.stop # NoLevel /\ Against(seen, p.stop[1]) -> CloseShadow(seen, "stop_loss")
       [] ~(p.stop # NoLevel /\ Against(seen, p.stop[1])) /\ p.target # NoLevel /\ Past(seen, p.target[1]) ->
            CloseShadow(seen, "take_profit")
       [] OTHER -> IF p.trailing = NoLevel \/ rules.trailing = 0 THEN seen
                   ELSE IF Against(moved, moved.trailing[1]) THEN CloseShadow(moved, "trailing_stop")
                   ELSE moved

EvaluatePosition(s, i) ==
  LET p == s.positions[i]
      q == Evaluated(p)
  IN IF p.status # "open" THEN s
     ELSE IF q.status = "open" THEN [s EXCEPT !.positions[i] = q]
     ELSE [positions |-> [s.positions EXCEPT ![i] = [q EXCEPT !.fills = Append(@, Len(s.fills) + 1)]],
           fills |-> Append(s.fills, ExitFill(p))]

Evaluate ==
  /\ ~judged /\ judged' = TRUE
  /\ LET s == FoldLeftDomain(EvaluatePosition, [positions |-> positions, fills |-> fills], positions)
     IN positions' = s.positions /\ fills' = s.fills
  /\ UNCHANGED <<price, rules, ticks>>

SNext ==
  \/ \E side \in OrderSides, market \in Markets : Block(side, market)
  \/ \E p \in Prices : Tick(p)
  \/ \E r \in Rules : Reconfigure(r)
  \/ Evaluate

SSpec == SInit /\ [][SNext]_svars

-----------------------------------------------------------------------------
(* Properties *)

OpenShadows == {i \in DOMAIN positions : positions[i].status = "open"}

\* The price is on the good side of a stop and short of a target, and where the
\* rules have a trailing stop not below what the highest price of a long demands.
Inside(p) ==
  /\ p.stop # NoLevel => ~Against(p, p.stop[1])
  /\ p.target # NoLevel => ~Past(p, p.target[1])
  /\ p.trailing # NoLevel /\ rules.trailing > 0 =>
       /\ ~Against(p, p.trailing[1])
       /\ p.side = "long" => price > Percent(p.highest, -rules.trailing)

\* After a cycle no shadow position is kept past one of its exits.
KeptInside == judged => \A i \in OpenShadows : Inside(positions[i])

\* A trailing stop never gives way, whatever the price and the configuration do.
TrailGivesWay(p, q) ==
  IF p.trailing = NoLevel THEN q.trailing # NoLevel
  ELSE IF p.side = "long" THEN q.trailing[1] < p.trailing[1] ELSE q.trailing[1] > p.trailing[1]

Flow(fill) == IF fill.side = "sell" THEN fill.net ELSE -fill.net

\* The books of a closed shadow position: its two fills explain its profit but
\* for the entry fee, which close_shadow_position leaves out, a stop has always
\* cost money and a target never more than the exit fee.
ShadowBooks ==
  \A i \in DOMAIN positions :
    LET p == positions[i] IN
    /\ Len(p.fills) = (IF p.status = "open" THEN 1 ELSE 2)
    /\ p.status = "closed" =>
         /\ p.realized = Flow(fills[p.fills[1]]) + Flow(fills[p.fills[2]]) + p.entryFee
         /\ p.reason = "stop_loss" => p.realized < 0
         /\ p.reason = "take_profit" => p.realized >= -fills[p.fills[2]].fee

\* The exits of shadow positions hold from cycle to cycle: no position is left past
\* its stop or its target, no trailing stop gives way, and what an exit has booked
\* is explained by its fills.
ExitsHold ==
  [][/\ KeptInside' /\ ShadowBooks'
     /\ \A i \in DOMAIN positions : ~TrailGivesWay(positions[i], positions'[i])]_svars

=============================================================================
