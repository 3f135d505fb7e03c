------------------------------ MODULE DailyJobs ------------------------------
(***************************************************************************)
(* The jobs of a day, which the snapshot loop starts at its first cycle    *)
(* after the close (portfolio/snapshots.py, daily_jobs.py, dividends.py,   *)
(* splits.py), and the announcements they work from                        *)
(* (market_data/universe/corporate_actions.py).                            *)
(*                                                                         *)
(* All users' jobs share the session of one cycle.  The loop remembers in  *)
(* memory on which day it last ran them.  In the meantime the consumer     *)
(* changes quantities: it loads a row, and books the fill on what it       *)
(* loaded.                                                                 *)
(*                                                                         *)
(* Every announcement is of the one symbol that each user has at most one  *)
(* position in.  Nothing of the program calls the fetch, and it asks for   *)
(* dividends only; a split is a row that reached the table another way.    *)
(* Prices and the cost basis are left out: a split divides the prices by   *)
(* the ratio of the quantities, in the same statements.                    *)
(***************************************************************************)
EXTENDS Integers, Sequences, FiniteSets, Functions, SequencesExt

CONSTANTS
  Users,
  Actions,     \* corporate_action_id of the announcements
  Terms,       \* the terms an action may be announced with
  Lots,        \* quantities of fills
  LastDay,     \* bound: days
  MaxShares,   \* bound: quantity of a position
  MaxCrashes   \* bound: crashes of the process

\* What an announcement may say.  Every kind but a split's is dealt with as cash is.
Kinds    == {"none", "cash", "forward_split", "reverse_split"}
AnyTerms == [kind : Kinds, ex : Nat, payable : Nat, cash : Nat, num : Nat, den : Nat]

IsSplit(t) == t.kind \in {"forward_split", "reverse_split"}

\* An action is a split or it is none, however it is corrected.
ASSUME JobsAssumption ==
  /\ IsFiniteSet(Actions)
  /\ Terms \in [Actions -> SUBSET AnyTerms]
  /\ \A a \in Actions : \A t, v \in Terms[a] : IsSplit(t) <=> IsSplit(v)
  /\ \A a \in Actions : \A t \in Terms[a] :
       /\ t.kind = "forward_split" => t.num >= t.den /\ t.den > 0
       /\ t.kind = "reverse_split" => t.num <= t.den /\ t.num > 0
  /\ Lots \subseteq Int
  /\ LastDay \in Nat \ {0} /\ MaxShares \in Nat /\ MaxCrashes \in Nat

VARIABLES
  day, evening,    \* the clock: after 21:00 UTC it is evening
  up, crashes,     \* the process
  lastRun,         \* _last_daily_run
  announced,       \* the table of announcements
  owned,           \* the positions
  loaded,          \* the consumer's copy of a row it is about to change
  payments,        \* the dividend payments of a user and an action
  credited,        \* what dividends have added to cash and to the position
  closes,          \* the last daily_close snapshot of each day
  session,         \* the uncommitted work of the loop's session
  ran,             \* history: days whose jobs were committed
  held,            \* history: users who held the position when the day began
  shares,          \* history: the shares a user really has
  disturbed        \* history: users whose row met one of the faults below

clock  == <<day, evening, held>>
server == <<up, crashes, lastRun, session>>
jobs   == <<payments, credited, closes, ran>>
dvars  == <<clock, server, announced, owned, loaded, jobs, shares, disturbed>>

Days    == 1..LastDay
NoTerms == [kind |-> "none", ex |-> 0, payable |-> 0, cash |-> 0, num |-> 1, den |-> 1]
NoneHeld == [status |-> "none", qty |-> 0]
NoClose == [income |-> 0, total |-> 0]
Idle    == [busy |-> FALSE]

\* A position, a dividend payment, what a snapshot says of dividends, and the
\* session between the reading of the positions and the commit.
Lot        == [status : {"none", "open", "closed"}, qty : Nat]
PaymentRow == [amount : Int, payable : Nat, made : Nat, paid : Nat]
PaymentsOf == [Users -> [Actions -> Seq(PaymentRow)]]
ClosesOf   == [Users -> [Days -> [income : Int, total : Int]]]
Work       == [busy : {TRUE}, rows : [Users -> Lot], payments : PaymentsOf,
               credited : [Users -> Int], closes : ClosesOf]

DTypeOK ==
  /\ day \in Days /\ lastRun \in 0..LastDay /\ crashes \in 0..MaxCrashes
  /\ DOMAIN announced = Actions /\ \A a \in Actions : announced[a] \in Terms[a] \cup {NoTerms}
  /\ owned \in [Users -> Lot] /\ loaded \in [Users -> Lot]
  /\ payments \in PaymentsOf /\ credited \in [Users -> Int] /\ closes \in ClosesOf
  /\ session \in Work \cup {Idle}
  /\ ran \subseteq Days /\ held \subseteq Users /\ disturbed \subseteq Users
  /\ shares \in [Users -> Nat]

DInit ==
  /\ day = 1 /\ evening = FALSE /\ held = {}
  /\ up = TRUE /\ crashes = 0 /\ lastRun = 0 /\ session = Idle
  /\ announced = [a \in Actions |-> NoTerms]
  /\ owned = [u \in Users |-> NoneHeld]
  /\ loaded = [u \in Users |-> NoneHeld]
  /\ payments = [u \in Users |-> [a \in Actions |-> <<>>]]
  /\ credited = [u \in Users |-> 0]
  /\ closes = [u \in Users |-> [d \in Days |-> NoClose]]
  /\ ran = {}
  /\ shares = [u \in Users |-> 0]
  /\ disturbed = {}

OpenRows(table) == {u \in Users : table[u].status = "open"}

-----------------------------------------------------------------------------
(* Announcements *)

\* The actions of a table whose ex-date is the given day.
Effective(d) == {a \in Actions : announced[a].ex = d}

Splits(d) == {a \in Effective(d) : IsSplit(announced[a])}

\* An upsert by the action's id.  Broker corrections move dates and amounts of
\* a dividend, and of a split that has not taken place.
Fetch(a, t) ==
  /\ ~evening
  /\ t # announced[a] /\ t.ex >= day
  /\ IsSplit(t) => t.ex > day /\ (announced[a] = NoTerms \/ announced[a].ex > day)
  /\ announced' = [announced EXCEPT ![a] = t]
  /\ UNCHANGED <<clock, server, owned, loaded, jobs, shares, disturbed>>

-----------------------------------------------------------------------------
(* Fills, in the consumer's session *)

LoadRow(u) ==
  /\ up /\ loaded[u] = NoneHeld
  /\ owned[u].status # "closed"
  /\ loaded' = [loaded EXCEPT ![u] = [status |-> "open", qty |-> owned[u].qty]]
  /\ UNCHANGED <<clock, server, announced, owned, jobs, shares, disturbed>>

\* On the ex-date of a split, the market trades in new shares from the open.
SplitDue(d) == d \notin ran /\ Splits(d) # {}

BookLot(u, change) ==
  LET qty == loaded[u].qty + change IN
  /\ up /\ loaded[u] # NoneHeld
  /\ qty \in 0..MaxShares /\ shares[u] + change \in 0..MaxShares
  /\ qty = 0 <=> shares[u] + change = 0
  /\ owned' = [owned EXCEPT ![u] = [status |-> IF qty = 0 THEN "closed" ELSE "open", qty |-> qty]]
  /\ loaded' = [loaded EXCEPT ![u] = NoneHeld]
  /\ shares' = [shares EXCEPT ![u] = @ + change]
  /\ disturbed' = IF loaded[u].qty # owned[u].qty \/ SplitDue(day) THEN disturbed \cup {u}
                  ELSE disturbed
  /\ UNCHANGED <<clock, server, announced, jobs>>

-----------------------------------------------------------------------------
(* Dividends *)

Payment(u, a) == [amount |-> owned[u].qty * announced[a].cash, payable |-> announced[a].payable,
                  made |-> day, paid |-> 0]

\* Mutant: an existing payment is not looked for.
ExDateAgain(due) ==
  [u \in Users |-> [a \in Actions |->
     IF u \in OpenRows(owned) /\ a \in Effective(day)
     THEN Append(due[u][a], Payment(u, a)) ELSE due[u][a]]]

\* process_ex_date: whoever has the position open now, on the evening of the
\* ex-date, is owed a payment.  A split counts as well: it pays nothing.
ExDate(due) ==
  [u \in Users |-> [a \in Actions |->
     IF u \in OpenRows(owned) /\ a \in Effective(day) /\ due[u][a] = <<>>
     THEN <<Payment(u, a)>> ELSE due[u][a]]]

IsPayable(p) == p.paid = 0 /\ p.payable <= day

\* The sum of a user's payments that satisfy a test.
Amount(s, Test(_)) ==
  SumFunctionOnSet([i \in DOMAIN s |-> IF Test(s[i]) THEN s[i].amount ELSE 0], DOMAIN s)

Sum(due, u, Test(_)) ==
  SumFunctionOnSet([a \in Actions |-> Amount(due[u][a], Test)], Actions)

\* process_payable_date
Pay(due) ==
  [u \in Users |-> [a \in Actions |->
     [i \in DOMAIN due[u][a] |->
        IF IsPayable(due[u][a][i]) THEN [due[u][a][i] EXCEPT !.paid = day] ELSE due[u][a][i]]]]

-----------------------------------------------------------------------------
(* Splits *)

\* Mutant: a reverse split is not told apart.
RatioOneWay(t) == [new |-> t.num \div t.den, old |-> 1]

\* int(stock_rate) for one, int(1 / stock_rate) for many.  The announced rate
\* is at least one for a forward split and at most one for a reverse split.
Ratio(t) ==
  IF t.kind = "forward_split" THEN [new |-> t.num \div t.den, old |-> 1]
  ELSE [new |-> 1, old |-> t.den \div t.num]

IsWhole(t) == t.num % t.den = 0 \/ t.den % t.num = 0

\* A quantity after splits, one after the other.  Of a share that is split up,
\* by the program as by the market, the model keeps no fraction.
After(qty, ratios) == FoldFunction(LAMBDA r, q : (q * r.new) \div r.old, qty, ratios)

\* process_splits on one quantity, and what the announced splits really do.
Adjusted(qty) == After(qty, [a \in Splits(day) |-> Ratio(announced[a])])

SplitShares(qty, d) ==
  After(qty, [a \in Splits(d) |-> [new |-> announced[a].num, old |-> announced[a].den]])

-----------------------------------------------------------------------------
(* The loop *)

\* Mutant: the hour is not looked at.
DueAnyHour == lastRun # day

\* _check_daily_jobs: once a day, after the close.
Due == lastRun # day /\ evening

\* take_daily_close_snapshot, as far as dividend income goes.
Close(due, paid) ==
  [u \in Users |->
     [closes[u] EXCEPT ![day] = [income |-> Sum(paid, u, LAMBDA p : p.paid = day),
                                 total  |-> Sum(paid, u, LAMBDA p : p.paid # 0)]]]

\* The jobs run up to the point where process_splits has read the positions.
BeginJobs ==
  LET due  == ExDate(payments)
      paid == Pay(due)
  IN
  /\ up /\ ~session.busy /\ Due
  /\ session' = [busy |-> TRUE, rows |-> owned, payments |-> paid,
                 credited |-> [u \in Users |-> credited[u] + Sum(due, u, IsPayable)],
                 closes |-> Close(due, paid)]
  /\ UNCHANGED <<clock, up, crashes, lastRun, announced, owned, loaded, jobs, shares, disturbed>>

Splitting == Splits(day) # {}

\* The adjusted quantities are written, and the session commits.
CommitJobs ==
  LET adjusting == IF Splitting THEN OpenRows(session.rows) ELSE {}
      faulty == {u \in adjusting :
                   \/ day \in ran
                   \/ \E a \in Splits(day) : ~IsWhole(announced[a])}
  IN
  /\ session.busy
  /\ owned' = [u \in Users |->
       IF u \in adjusting
       THEN [status |-> owned[u].status, qty |-> Adjusted(session.rows[u].qty)] ELSE owned[u]]
  /\ payments' = session.payments
  /\ credited' = session.credited
  /\ closes' = session.closes
  /\ lastRun' = day
  /\ ran' = ran \cup {day}
  /\ disturbed' = disturbed \cup faulty
  /\ session' = Idle
  /\ UNCHANGED <<clock, up, crashes, announced, loaded, shares>>

\* A statement or the commit fails.  The errors of the jobs are caught one by
\* one, and the day is marked before the commit.
LoseJobs ==
  /\ session.busy
  /\ lastRun' = day
  /\ session' = Idle
  /\ UNCHANGED <<clock, up, crashes, announced, owned, loaded, jobs, shares, disturbed>>

Crash ==
  /\ up /\ crashes < MaxCrashes
  /\ up' = FALSE /\ crashes' = crashes + 1
  /\ lastRun' = 0 /\ session' = Idle
  /\ loaded' = [u \in Users |-> NoneHeld]
  /\ UNCHANGED <<clock, announced, owned, jobs, shares, disturbed>>

Restart ==
  /\ ~up
  /\ up' = TRUE
  /\ UNCHANGED <<clock, crashes, lastRun, session, announced, owned, loaded, jobs, shares, disturbed>>

-----------------------------------------------------------------------------
(* The clock *)

TheClose ==
  /\ ~evening /\ ~session.busy
  /\ evening' = TRUE
  /\ UNCHANGED <<day, held, server, announced, owned, loaded, jobs, shares, disturbed>>

\* The evening is three hours long and the loop's interval five minutes: a
\* process that is up at midnight has been through the jobs.
Midnight ==
  /\ evening /\ ~session.busy /\ day < LastDay
  /\ up => lastRun = day
  /\ day' = day + 1 /\ evening' = FALSE
  /\ held' = OpenRows(owned)
  /\ shares' = [u \in Users |-> SplitShares(shares[u], day + 1)]
  /\ disturbed' = IF SplitDue(day) THEN disturbed \cup OpenRows(owned) ELSE disturbed
  /\ UNCHANGED <<server, announced, owned, loaded, jobs>>

DNext ==
  \/ \E a \in Actions : \E t \in Terms[a] : Fetch(a, t)
  \/ \E u \in Users : LoadRow(u) \/ \E q \in Lots : BookLot(u, q)
  \/ BeginJobs \/ CommitJobs \/ LoseJobs
  \/ Crash \/ Restart
  \/ TheClose \/ Midnight

DSpec == DInit /\ [][DNext]_dvars

-----------------------------------------------------------------------------
(* Properties *)

\* However often the jobs of a day run, and however an announcement is
\* corrected, a position is paid once for it, and cash has received what the
\* table of payments says was paid.
PaidOnce ==
  \A u \in Users :
    /\ \A a \in Actions : Len(payments[u][a]) <= 1
    /\ credited[u] = Sum(payments, u, LAMBDA p : p.paid # 0)

\* The incomes of the days' closing snapshots add up to their totals.
IncomesAddUp ==
  \A u \in Users : \A d \in ran :
    closes[u][d].total = SumFunctionOnSet([e \in Days |-> closes[u][e].income], {e \in ran : e <= d})

\* A payment waits past its payable date only while every evening is lost.
NoneIsForgotten ==
  \A u \in Users, a \in Actions :
    \A i \in DOMAIN payments[u][a] :
      LET p == payments[u][a][i] IN
      p.paid = 0 => \A d \in ran : d >= p.made => d < p.payable

\* Payments, cash and snapshots tell one story, and no payment is left out of it.
DividendsAddUp == PaidOnce /\ IncomesAddUp /\ NoneIsForgotten

\* Whoever held the position when the ex-date began and holds it still when
\* the day ends is owed the dividend, unless the day's jobs were lost.
HoldersAreEntitled ==
  [][day' # day /\ day \in ran =>
       \A a \in Effective(day), u \in held \cap OpenRows(owned) : payments[u][a] # <<>>]_dvars

\* A row has the shares its owner has, unless a split found one of five faults:
\* the row was traded on the ex-date before the jobs had run, a fill was booked
\* on a row loaded before them, the rate was fractional, the evening was lost,
\* or it came twice.
SharesFollowSplits ==
  \A u \in Users \ disturbed : ~SplitDue(day) => owned[u].qty = shares[u]

-----------------------------------------------------------------------------
(* What the entitlement and the payments rest on *)

\* Jobs belong to the evening, when the announcements of the day have come to rest.
EveningsWork ==
  /\ day \in Nat \ {0} /\ ran \subseteq 1..day
  /\ day \in ran \/ session.busy => evening

\* What was held when the day began was open, and what was closed stays closed:
\* no session has a copy of it to write back.
RowsLast ==
  /\ DOMAIN owned = Users /\ DOMAIN loaded = Users /\ held \subseteq Users
  /\ \A u \in Users : owned[u].status \in {"none", "open", "closed"}
  /\ \A u \in held : owned[u].status # "none"
  /\ \A u \in Users : owned[u].status = "closed" => loaded[u] = NoneHeld

\* A position has one payment for an action at most,
AtMostOne(s) == s # <<>> => s \in Seq(PaymentRow) /\ Len(s) = 1

\* and none that waits past its date while the jobs run.
OnTime(s, days) ==
  s # <<>> /\ s[1].paid = 0 => \A d \in days : d >= s[1].made => d < s[1].payable

Complete(due, days) ==
  \A u \in Users, a \in Actions : AtMostOne(due[u][a]) /\ OnTime(due[u][a], days)

\* Everyone who holds the position since the day began is in the table.
Entitled(due) ==
  \A a \in Effective(day), u \in held \cap OpenRows(owned) : due[u][a] # <<>>

\* What a user was paid on some days.
PaidOn(s, days) == IF s # <<>> /\ s[1].paid \in days THEN s[1].amount ELSE 0

Paid(due, u, days) == SumFunctionOnSet([a \in Actions |-> PaidOn(due[u][a], days)], Actions)

\* Cash and the snapshots of the days of a set tell of the payments as they are.
Told(due, cash, snaps, days) ==
  \A u \in Users :
    /\ cash[u] = Paid(due, u, Nat \ {0})
    /\ \A a \in Actions : due[u][a] # <<>> => due[u][a][1].paid \in days \cup {0}
    /\ \A d \in days : /\ snaps[u][d].income = Paid(due, u, {d})
                       /\ snaps[u][d].total = Paid(due, u, 1..d)

JobsInv ==
  /\ EveningsWork /\ RowsLast
  /\ Complete(payments, ran)
  /\ day \in ran => Entitled(payments)
  /\ session.busy => Complete(session.payments, ran \cup {day}) /\ Entitled(session.payments)
  /\ Told(payments, credited, closes, ran)
  /\ session.busy => Told(session.payments, session.credited, session.closes, ran \cup {day})

-----------------------------------------------------------------------------
(* What the shares of a row rest on *)

\* The row of a user whom none of the faults has met says what the market
\* says, or what it will say once the day's split is booked.
SharesInv ==
  \A u \in Users \ disturbed :
    /\ owned[u].status # "open" => owned[u].qty = 0
    /\ shares[u] = IF SplitDue(day) THEN SplitShares(owned[u].qty, day) ELSE owned[u].qty
    /\ session.busy /\ SplitDue(day) => session.rows[u] = owned[u]

=============================================================================
