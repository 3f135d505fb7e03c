------------------------------ MODULE Positions ------------------------------
(***************************************************************************)
(* The rows of the positions table and the three sessions that change      *)
(* them: the order consumer books fills, mark-to-market revalues every     *)
(* open row, and the daily jobs close option positions at expiration.      *)
(* Cash moves with the fills.                                              *)
(*                                                                         *)
(* A session computes a row's new columns in Python, from what it loaded.  *)
(* A flush then updates the columns that have changed since the load, by   *)
(* primary key and without looking at the others, and keeps the row locked *)
(* until the session ends.                                                 *)
(*                                                                         *)
(* `value` is market_value; the profit columns, which are computed in the  *)
(* same places from the same columns, are left out, and so are fees.       *)
(***************************************************************************)
EXTENDS FillProcessor, FiniteSets, Functions

CONSTANTS
  Keys,      \* a strategy and a symbol
  Options,   \* the keys whose symbol is an option contract
  Prices,    \* closes of one-minute bars, and prices of fills
  Sizes,     \* quantities of fills
  Opening,   \* the cash to begin with
  MaxRows,   \* bound: positions per key, one after the other
  MaxQty,    \* bound: quantity of a position
  MaxCash    \* bound: cash

ASSUME PositionsAssumption ==
  /\ IsFiniteSet(Keys)
  /\ Options \subseteq Keys
  /\ Prices \subseteq Nat \ {0}
  /\ Sizes \subseteq Nat \ {0}
  /\ Opening \in Nat
  /\ MaxRows \in Nat
  /\ MaxQty \in Nat
  /\ MaxCash \in Nat

VARIABLES
  rows,       \* positions, as committed
  drafts,     \* the uncommitted version of a locked row
  holder,     \* the session that has locked a row
  seen,       \* the rows a session has loaded and not yet dealt with
  cash,       \* as committed
  moved,      \* what the consumer's session has added to it
  order,      \* the fill that the consumer is booking
  booked,     \* history: quantity of a row by its committed fills
  pending,    \* history: the same with the fills of the consumer's session
  stale,      \* history: rows written by a session that had not seen the last version
  marked,     \* history: rows that this cycle has written from the last version
  odd         \* history: the consumer's session has booked a fill that moves equity

tables == <<rows, cash>>
locks  == <<drafts, holder>>
books  == <<moved, order, booked, pending, odd>>
vars   == <<tables, locks, seen, books, stale, marked>>

Sessions == {"consumer", "mtm", "jobs"}
Nobody   == "nobody"

Ids == Keys \X (1..MaxRows)

\* net is the quantity, negative for a short position.
Row == [status : {"none", "open", "closed"}, net : Int, price : Nat, value : Nat,
        high : Nat, low : Nat]
NoRow == [status |-> "none", net |-> 0, price |-> 0, value |-> 0, high |-> 0, low |-> 0]

NoOrder == [id |-> "none"]
Order   == [id : Ids, fill : Int]

TypeOK ==
  /\ rows \in [Ids -> Row]
  /\ drafts \in [Ids -> Row]
  /\ holder \in [Ids -> Sessions \cup {Nobody}]
  /\ seen \in [Sessions -> [Ids -> Row]]
  /\ cash \in Int /\ moved \in Int
  /\ order \in Order \cup {NoOrder}
  /\ booked \in [Ids -> Int] /\ pending \in [Ids -> Int]
  /\ stale \subseteq Ids /\ marked \subseteq Ids
  /\ odd \in BOOLEAN

Nothing == [id \in Ids |-> NoRow]

Init ==
  /\ rows = Nothing
  /\ drafts = Nothing
  /\ holder = [id \in Ids |-> Nobody]
  /\ seen = [s \in Sessions |-> Nothing]
  /\ cash = Opening /\ moved = 0
  /\ order = NoOrder
  /\ booked = [id \in Ids |-> 0] /\ pending = [id \in Ids |-> 0]
  /\ stale = {} /\ marked = {}
  /\ odd = FALSE

-----------------------------------------------------------------------------
(* Rows *)

\* What session s sees of a row: its own version, or the committed one.
View(s, id) == IF holder[id] = s THEN drafts[id] ELSE rows[id]

Open(s) == {id \in Ids : View(s, id).status = "open"}

\* The market value of the open rows of a table.
Total(table) == SumFunctionOnSet([id \in Ids |-> table[id].value],
                                 {id \in Ids : table[id].status = "open"})

Equity == cash + Total(rows)

\* Session s loads the rows of the set.
Load(s, ids) ==
  seen' = [seen EXCEPT ![s] = [id \in Ids |-> IF id \in ids THEN View(s, id) ELSE @[id]]]

Loaded(s) == {id \in Ids : seen[s][id] # NoRow}

Drop(s, id) == seen' = [seen EXCEPT ![s][id] = NoRow]

\* The UPDATE waits for the row's lock, and sets the columns in which the new
\* version differs from the loaded one.  With no such column there is none.
Flush(s, id, new) ==
  LET old == seen[s][id] IN
  IF new = old THEN UNCHANGED <<locks, stale>>
  ELSE /\ holder[id] \in {Nobody, s}
       /\ holder' = [holder EXCEPT ![id] = s]
       /\ drafts' = [drafts EXCEPT ![id] =
            [c \in DOMAIN old |-> IF new[c] # old[c] THEN new[c] ELSE View(s, id)[c]]]
       /\ stale' = IF old # View(s, id) THEN stale \cup {id} ELSE stale

Locked(s) == {id \in Ids : holder[id] = s}

\* The end of a session, with and without its changes.
Release(s) ==
  /\ holder' = [id \in Ids |-> IF id \in Locked(s) THEN Nobody ELSE holder[id]]
  /\ drafts' = [id \in Ids |-> IF id \in Locked(s) THEN NoRow ELSE drafts[id]]
  /\ seen' = [seen EXCEPT ![s] = Nothing]

Publish(s) ==
  /\ Release(s)
  /\ rows' = [id \in Ids |-> View(s, id)]

-----------------------------------------------------------------------------
(* Fills.  The consumer's session books any number of them before it commits. *)

\* The open row of the key is loaded; if there is none, the fill is an entry.
LoadPosition(k, fill) ==
  /\ order = NoOrder
  /\ \E id \in Ids :
       /\ id[1] = k
       /\ \/ id \in Open("consumer")
          \/ /\ \A other \in Open("consumer") : other[1] # k
             /\ View("consumer", id) = NoRow
             /\ \A n \in 1..MaxRows : View("consumer", <<k, n>>) = NoRow => id[2] <= n
       /\ order' = [id |-> id, fill |-> fill]
       /\ Load("consumer", {id})
  /\ UNCHANGED <<tables, locks, moved, booked, pending, odd, stale, marked>>

\* Mutant: a scale-out values the quantity before the fill.
AfterFillOldValue(row, fill, p) ==
  CASE Scenario(row.net, fill) = "entry" ->
         [status |-> "open", net |-> fill, price |-> p, value |-> Abs(fill) * p,
          high |-> p, low |-> p]
    [] Scenario(row.net, fill) = "scale_in" ->
         [row EXCEPT !.net = @ + fill, !.value = Abs(row.net + fill) * row.price]
    [] Scenario(row.net, fill) = "scale_out" ->
         [row EXCEPT !.net = @ + fill, !.value = Abs(row.net) * row.price]
    [] OTHER -> [row EXCEPT !.status = "closed", !.net = 0, !.value = 0, !.price = p]

\* The row after a fill at price p.  A scale-in or scale-out is valued at the
\* row's price, and a full exit leaves the fill's price.
AfterFill(row, fill, p) ==
  CASE Scenario(row.net, fill) = "entry" ->
         [status |-> "open", net |-> fill, price |-> p, value |-> Abs(fill) * p,
          high |-> p, low |-> p]
    [] Scenario(row.net, fill) \in {"scale_in", "scale_out"} ->
         [row EXCEPT !.net = @ + fill, !.value = Abs(row.net + fill) * row.price]
    [] OTHER -> [row EXCEPT !.status = "closed", !.net = 0, !.value = 0, !.price = p]

\* A fill that moves equity: at another price than the row's, of a short
\* position (which is worth more the more has been sold), or in excess of it.
Odd(row, fill, p) ==
  \/ row.net + fill < 0
  \/ row.net < 0
  \/ row.status = "open" /\ p # row.price

\* Mutant: every fill costs cash.
CashDeltaUnsigned(fill, p) == -Abs(fill) * p

\* A buy costs cash, a sell brings it.
CashDelta(fill, p) == -fill * p

\* The row is inserted or updated, and cash adjusted.
BookFill(p) ==
  LET id  == order.id
      row == seen["consumer"][id]
      new == AfterFill(row, order.fill, p)
  IN
  /\ order # NoOrder
  /\ Abs(new.net) <= MaxQty
  /\ cash + moved + CashDelta(order.fill, p) \in 0..MaxCash
  /\ Flush("consumer", id, new)
  /\ moved' = moved + CashDelta(order.fill, p)
  /\ pending' = [pending EXCEPT ![id] = NetAfter(@, order.fill)]
  /\ odd' = (odd \/ Odd(row, order.fill, p))
  /\ order' = NoOrder
  /\ Drop("consumer", id)
  /\ UNCHANGED <<tables, booked, marked>>

CommitFills ==
  /\ order = NoOrder
  /\ Locked("consumer") # {}
  /\ Publish("consumer")
  /\ cash' = cash + moved /\ moved' = 0
  /\ booked' = pending
  /\ odd' = FALSE
  /\ UNCHANGED <<order, pending, stale, marked>>

\* The batch fails, is chosen as the victim of a deadlock, or is cut short.
AbortFills ==
  /\ order # NoOrder \/ Locked("consumer") # {}
  /\ Release("consumer")
  /\ moved' = 0 /\ pending' = booked /\ odd' = FALSE /\ order' = NoOrder
  /\ UNCHANGED <<tables, booked, stale, marked>>

-----------------------------------------------------------------------------
(* Mark-to-market *)

BeginMark ==
  /\ Loaded("mtm") = {} /\ Locked("mtm") = {}
  /\ Load("mtm", Open("mtm"))
  /\ UNCHANGED <<tables, locks, books, stale, marked>>

\* Mutant: the lowest price is never lowered.
MarkedOneSided(row, p) ==
  [row EXCEPT !.price = p, !.value = Abs(row.net) * p,
              !.high = IF p > @ THEN p ELSE @]

Marked(row, p) ==
  [row EXCEPT !.price = p, !.value = Abs(row.net) * p,
              !.high = IF p > @ THEN p ELSE @,
              !.low  = IF p < @ THEN p ELSE @]

\* A row is revalued from what was loaded.
MarkRow(id, p) ==
  LET row == seen["mtm"][id] IN
  /\ row # NoRow
  /\ Flush("mtm", id, Marked(row, p))
  /\ marked' = IF row = View("mtm", id) /\ Marked(row, p) # row THEN marked \cup {id} ELSE marked
  /\ Drop("mtm", id)
  /\ UNCHANGED <<tables, books>>

\* The market is closed, or there is no price.
SkipRow(id) ==
  /\ seen["mtm"][id] # NoRow
  /\ Drop("mtm", id)
  /\ UNCHANGED <<tables, locks, books, stale, marked>>

CommitMark ==
  /\ Loaded("mtm") = {}
  /\ Locked("mtm") # {}
  /\ Publish("mtm")
  /\ stale' = stale \ marked
  /\ marked' = {}
  /\ UNCHANGED <<cash, books>>

AbortMark ==
  /\ Loaded("mtm") # {} \/ Locked("mtm") # {}
  /\ Release("mtm")
  /\ marked' = {}
  /\ UNCHANGED <<tables, books, stale>>

-----------------------------------------------------------------------------
(* Expiration of options, in the session of the daily jobs *)

BeginExpirations ==
  /\ Loaded("jobs") = {} /\ Locked("jobs") = {}
  /\ Load("jobs", {id \in Open("jobs") : id[1] \in Options})
  /\ UNCHANGED <<tables, locks, books, stale, marked>>

\* The row is closed at the contract's intrinsic value.  Cash is left alone.
Expire(id, intrinsic) ==
  LET row == seen["jobs"][id] IN
  /\ row # NoRow
  /\ Flush("jobs", id, [row EXCEPT !.status = "closed", !.net = 0, !.value = 0,
                                    !.price = intrinsic])
  /\ Drop("jobs", id)
  /\ UNCHANGED <<tables, books, marked>>

\* The underlying has no price.
KeepOption(id) ==
  /\ seen["jobs"][id] # NoRow
  /\ Drop("jobs", id)
  /\ UNCHANGED <<tables, locks, books, stale, marked>>

CommitExpirations ==
  /\ Loaded("jobs") = {}
  /\ Locked("jobs") # {}
  /\ Publish("jobs")
  /\ UNCHANGED <<cash, books, stale, marked>>

AbortExpirations ==
  /\ Loaded("jobs") # {} \/ Locked("jobs") # {}
  /\ Release("jobs")
  /\ UNCHANGED <<tables, books, stale, marked>>

-----------------------------------------------------------------------------
(* Specification *)

Next ==
  \/ \E k \in Keys, side \in {"buy", "sell"}, qty \in Sizes : LoadPosition(k, Signed(side, qty))
  \/ \E p \in Prices : BookFill(p)
  \/ CommitFills \/ AbortFills
  \/ BeginMark
  \/ \E id \in Ids : SkipRow(id) \/ \E p \in Prices : MarkRow(id, p)
  \/ CommitMark \/ AbortMark
  \/ BeginExpirations
  \/ \E id \in Ids : KeepOption(id) \/ \E v \in Prices \cup {0} : Expire(id, v)
  \/ CommitExpirations \/ AbortExpirations

Spec == Init /\ [][Next]_vars

-----------------------------------------------------------------------------
(* Properties *)

\* A row that every session has written from its last version agrees with
\* itself: an open one has a quantity and is valued at its price, a closed one
\* has neither.  The next cycle of mark-to-market repairs an open row that
\* was written from an older version; a closed row stays as it is.
RowsAgreeUnlessStale ==
  \A id \in Ids \ stale :
    /\ rows[id].status = "open" =>
         rows[id].net # 0 /\ rows[id].value = Abs(rows[id].net) * rows[id].price
    /\ rows[id].status = "closed" => rows[id].net = 0 /\ rows[id].value = 0

\* Whatever overlaps, an open row has the quantity of its fills, of which no
\* revaluation loses any, and its price is between the lowest and the highest,
\* from which trailing stops are computed.
OpenRowsKeepTheirFills ==
  \A id \in Ids :
    rows[id].status = "open" =>
      /\ rows[id].net = booked[id]
      /\ rows[id].low <= rows[id].price /\ rows[id].price <= rows[id].high

\* A closed position is never opened again, nor does a row disappear.
ClosedStands ==
  [][\A id \in Ids : rows[id].status = "closed" => rows'[id].status = "closed"]_rows

\* Fills at the price of the row move value between cash and the position
\* and make none, as long as the position is long and the fill fits it.
FillsConserveEquity ==
  [][booked' # booked /\ ~odd /\ Locked("consumer") \cap stale = {} => Equity' = Equity]_vars

-----------------------------------------------------------------------------
(* The inductive invariant of RowsAgreeUnlessStale and OpenRowsKeepTheirFills *)

SamePrices(r, q) == r.price = q.price /\ r.high = q.high /\ r.low = q.low

\* A version of a row against the quantity of its fills.
Sound(r, qty) ==
  /\ r.status = "open" => r.net = qty /\ r.net # 0 /\ r.low <= r.price /\ r.price <= r.high
  /\ r.status = "none" => qty = 0

Agrees(r) ==
  /\ r.status = "open" => r.value = Abs(r.net) * r.price
  /\ r.status = "closed" => r.net = 0 /\ r.value = 0

\* What is committed, and what the consumer is about to commit.
VersionsSound ==
  \A id \in Ids : Sound(rows[id], booked[id]) /\ Sound(View("consumer", id), pending[id])

\* What a lock's holder may have made of the row it has locked.
DraftsFollow ==
  \A id \in Ids :
    /\ holder[id] # Nobody => drafts[id].status # "none"
    /\ holder[id] # Nobody /\ rows[id].status = "closed" => drafts[id].status = "closed"
    /\ holder[id] = "consumer" /\ rows[id].status = "open" /\ drafts[id].status = "open" =>
         SamePrices(drafts[id], rows[id])
    /\ holder[id] = "mtm" =>
         /\ drafts[id].status = rows[id].status /\ drafts[id].net = rows[id].net
         /\ drafts[id].status = "open" =>
              drafts[id].low <= drafts[id].price /\ drafts[id].price <= drafts[id].high
    /\ holder[id] = "jobs" => drafts[id].status = "closed" /\ rows[id].status # "none"

\* What still holds of the rows a session has loaded, whatever the others do.
SeenLasts ==
  /\ order # NoOrder =>
       LET r == seen["consumer"][order.id]
           v == View("consumer", order.id)
       IN  /\ order.fill # 0
           /\ \/ r = NoRow /\ v = NoRow
              \/ /\ r.status = "open" /\ r.net # 0 /\ v.status # "none"
                 /\ v.status = "open" => v.net = r.net
  /\ \A id \in Ids : seen["mtm"][id] # NoRow =>
       /\ holder[id] # "mtm" /\ rows[id].status # "none"
       /\ seen["mtm"][id].status = "open" /\ seen["mtm"][id].low <= seen["mtm"][id].high
       /\ rows[id].status = "open" => SamePrices(seen["mtm"][id], rows[id])
  /\ \A id \in Ids : seen["jobs"][id] # NoRow =>
       holder[id] # "jobs" /\ rows[id].status # "none" /\ seen["jobs"][id].status = "open"

\* What is not stale agrees with itself, what this cycle of mark-to-market has
\* written from the last version will.
VersionsAgree ==
  /\ \A id \in Ids \ stale : Agrees(rows[id]) /\ (holder[id] # Nobody => Agrees(drafts[id]))
  /\ \A id \in marked : holder[id] = "mtm" /\ Agrees(drafts[id])

PositionsInv == VersionsSound /\ DraftsFollow /\ SeenLasts /\ VersionsAgree

-----------------------------------------------------------------------------
(* The inductive invariant of FillsConserveEquity *)

\* What a version of a row adds to equity.
Worth(r) == IF r.status = "open" THEN r.value ELSE 0

\* What the consumer's commit would add to the value of the rows.
Gains == [id \in Ids |-> Worth(View("consumer", id)) - Worth(rows[id])]

\* The commit would move between cash and the rows what it takes from the other.
BooksBalance ==
  ~odd /\ Locked("consumer") \cap stale = {} => moved + SumFunctionOnSet(Gains, Ids) = 0

=============================================================================
