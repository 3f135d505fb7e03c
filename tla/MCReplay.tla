------------------------------ MODULE MCReplay ------------------------------
(* Backtests and shadow positions, one part at a time. *)
EXTENDS Backtest, ShadowPositions

VARIABLE part

BacktestIdle == /\ engine = "python" /\ side = "long" /\ sizing = CHOOSE s \in Sizings : TRUE
                /\ at = 1 /\ index = 0 /\ warm = FALSE /\ first = None /\ done = TRUE
                /\ book = [cash |-> Capital, open |-> <<>>, closed |-> <<>>, traded |-> FALSE]
                /\ curve = [equity |-> Capital, peak |-> Capital, drop |-> 0]
ShadowsIdle  == /\ price = 0 /\ rules = CHOOSE r \in Rules : TRUE
                /\ positions = <<>> /\ fills = <<>> /\ judged = FALSE /\ ticks = 0

MCInit == \/ part = "backtest" /\ BInit /\ ShadowsIdle
          \/ part = "shadow"   /\ SInit /\ BacktestIdle

MCNext == \/ part = "backtest" /\ BNext /\ UNCHANGED <<part, svars>>
          \/ part = "shadow"   /\ SNext /\ UNCHANGED <<part, bvars>>

MCSpec == MCInit /\ [][MCNext]_<<part, bvars, svars>>

TheSymbols == <<"A", "B">>
TheMaxBars == <<3, 2>>
TheBars == {[high |-> 13, low |-> 7, close |-> 11],
            [high |-> 15, low |-> 9, close |-> 14], [high |-> 9, low |-> 6, close |-> 7]}
TheSizings == {[type |-> "fixed", amount |-> 1, stop |-> 2],
               [type |-> "percent_equity", amount |-> 50, stop |-> 2]}
TheSignals == {[symbol |-> "A", side |-> "long", quantity |-> 0, stop |-> Some(8), target |-> Some(14)],
               [symbol |-> "B", side |-> "short", quantity |-> 1, stop |-> None, target |-> Some(8)]}
ThePrices == {8000, 10000, 12000, 13000}
TheRules == {[stop |-> 10, target |-> 10, trailing |-> 10, trails |-> FALSE],
             [stop |-> 20, target |-> 0, trailing |-> 10, trails |-> TRUE],
             [stop |-> 0, target |-> 20, trailing |-> 20, trails |-> TRUE]}
TheSlippage == [forex |-> 1000, equities |-> 500, options |-> 2000]
TheFees == [equities |-> 1, options |-> 2]
TheTracking == [enabled |-> TRUE, forexOnly |-> TRUE]
=============================================================================
