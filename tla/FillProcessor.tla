---------------------------- MODULE FillProcessor ----------------------------
(***************************************************************************)
(* How a fill changes the open position of its strategy and symbol         *)
(* (portfolio/fill_processor.py), as far as quantity and direction go.  A  *)
(* position is its signed quantity: positive when long, negative when      *)
(* short, 0 when there is no open row.  A fill is signed the same way:     *)
(* positive when it bought, negative when it sold.                         *)
(***************************************************************************)
EXTENDS Integers

Abs(x) == IF x < 0 THEN -x ELSE x

\* A filled quantity with the sign of its side.
Signed(side, qty) == IF side = "buy" THEN qty ELSE -qty

\* The side of the order that closes a position.
Closing(net) == IF net > 0 THEN "sell" ELSE "buy"

SameSide(net, fill) == (net > 0) <=> (fill > 0)

\* Which of the four cases of process_fill applies.  The signal's type plays
\* no part: an exit that finds no position is processed as an entry.
Scenario(net, fill) ==
  IF net = 0 THEN "entry"
  ELSE IF SameSide(net, fill) THEN "scale_in"
  ELSE IF Abs(fill) >= Abs(net) THEN "full_exit"
  ELSE "scale_out"

\* The position after the fill.  A full exit closes the position and drops
\* whatever the fill has in excess of it.
NetAfter(net, fill) ==
  IF Scenario(net, fill) = "full_exit" THEN 0 ELSE net + fill

=============================================================================
