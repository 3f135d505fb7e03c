------------------------------ MODULE ForexPool ------------------------------
(***************************************************************************)
(* Forex trading through the account pool: the strategy runner and the     *)
(* safety monitor emit entry and exit signals from the positions they see, *)
(* the order consumer executes the approved signals one by one, the pool   *)
(* allocates an account per strategy and pair at an entry and releases it  *)
(* at an exit, and the portfolio books the fill (if it is started).        *)
(*                                                                         *)
(* Three tables must agree: account_allocations, positions, paper_fills.   *)
(* Nothing in the code compares them: an exit is sized by the strategy's   *)
(* configuration and not by the position, exits are never deduplicated,    *)
(* an allocation is released by an exit fill whatever it closed, and a     *)
(* fill that arrives while the portfolio module is not started is kept     *)
(* without a position.                                                     *)
(*                                                                         *)
(* The variable `disturbed` is a history variable: it collects the         *)
(* strategy and pair whose life was not one undisturbed signal at a time.  *)
(***************************************************************************)
EXTENDS FillProcessor, Sequences, FiniteSets

CONSTANTS
  Accounts,    \* numbered in the order of broker_accounts.account_id
  Strategies,
  Pairs,
  EntrySides,  \* entry_side of the strategies' configurations
  Sizes,       \* quantities the position sizing may yield
  MaxQueue,    \* bound: signals in flight
  MaxQty,      \* bound: quantity of a position, total of the fills
  MaxFaults    \* bound: fill failures and restarts

ASSUME PoolAssumption ==
  /\ Accounts \subseteq Nat
  /\ EntrySides \subseteq {"buy", "sell"}
  /\ Sizes \subseteq Nat \ {0}
  /\ MaxQueue \in Nat
  /\ MaxQty \in Nat
  /\ MaxFaults \in Nat

VARIABLES
  allocations,  \* active rows of account_allocations
  net,          \* positions: signed open quantity per strategy and pair
  filled,       \* paper_fills: signed total per strategy and pair
  queue,        \* signals between their creation and the order consumer
  portfolioUp,  \* the portfolio module has been started
  faults,       \* fill failures and restarts so far
  disturbed     \* history: see above

vars == <<allocations, net, filled, queue, portfolioUp, faults, disturbed>>

Keys  == Strategies \X Pairs
Sides == {"buy", "sell"}

\* An active allocation, and a signal.  `recent` says that the deduplication
\* query still finds the signal: pending or risk_approved, within the window.
Allocation == [account : Accounts, key : Keys]
Signal == [key : Keys, type : {"entry", "exit"}, side : Sides, recent : BOOLEAN]

TypeOK ==
  /\ allocations \subseteq Allocation
  /\ net \in [Keys -> Int]
  /\ filled \in [Keys -> Int]
  /\ queue \in Seq(Signal)
  /\ portfolioUp \in BOOLEAN
  /\ faults \in 0..MaxFaults
  /\ disturbed \subseteq Keys

Init ==
  /\ allocations = {}
  /\ net = [k \in Keys |-> 0]
  /\ filled = [k \in Keys |-> 0]
  /\ queue = << >>
  /\ portfolioUp = FALSE
  /\ faults = 0
  /\ disturbed = {}

-----------------------------------------------------------------------------
(* Helpers *)

Held(k) == {r \in allocations : r.key = k}

InFlight(k) == {i \in DOMAIN queue : queue[i].key = k}

\* Accounts with no active allocation for the pair.
Available(pair) == {a \in Accounts : \A r \in allocations : r.account = a => r.key[2] # pair}

\* ORDER BY account_id ASC LIMIT 1.
First(S) == CHOOSE a \in S : \A b \in S : a <= b

\* The queue without its i-th signal.
Without(i) == [j \in 1 .. Len(queue) - 1 |-> IF j < i THEN queue[j] ELSE queue[j + 1]]

Fault == faults < MaxFaults /\ faults' = faults + 1

Disturb(k) == disturbed' = disturbed \cup {k}

\* The history variable after a step on k, undisturbed under the condition.
Unless(condition, k) == disturbed' = IF condition THEN disturbed ELSE disturbed \cup {k}

-----------------------------------------------------------------------------
(* Signals *)

\* The runner sees no position (none is shown while the portfolio module is
\* down) and the entry conditions hold.  An entry is dropped as a duplicate
\* of an equal one the deduplication query still finds.
EmitEntry(k, side) ==
  /\ Len(queue) < MaxQueue
  /\ net[k] = 0 \/ ~portfolioUp
  /\ \A i \in InFlight(k) :
       ~ (queue[i].type = "entry" /\ queue[i].side = side /\ queue[i].recent)
  /\ queue' = Append(queue, [key |-> k, type |-> "entry", side |-> side, recent |-> TRUE])
  /\ Unless(InFlight(k) = {} /\ net[k] = 0, k)
  /\ UNCHANGED <<allocations, net, filled, portfolioUp, faults>>

\* The runner or the safety monitor sees a position that should be closed.
\* Every evaluation emits the exit again until the position is gone.
EmitExit(k) ==
  /\ Len(queue) < MaxQueue
  /\ portfolioUp
  /\ net[k] # 0
  /\ queue' = Append(queue, [key |-> k, type |-> "exit",
                             side |-> Closing(net[k]), recent |-> FALSE])
  /\ Unless(InFlight(k) = {}, k)
  /\ UNCHANGED <<allocations, net, filled, portfolioUp, faults>>

\* The signal leaves the deduplication window, or becomes risk_modified,
\* a status the deduplication query does not ask for.
LeaveWindow(i) ==
  /\ queue[i].recent
  /\ queue' = [queue EXCEPT ![i].recent = FALSE]
  /\ UNCHANGED <<allocations, net, filled, portfolioUp, faults, disturbed>>

\* The signal expires, is canceled or rejected by the risk engine, or its
\* order is rejected for want of a price, a quantity or cash.
Drop(i) ==
  /\ queue' = Without(i)
  /\ UNCHANGED <<allocations, net, filled, portfolioUp, faults, disturbed>>

-----------------------------------------------------------------------------
(* Execution by the order consumer *)

\* The fill is stored; the portfolio books it if the module is up.
Book(k, fill) ==
  /\ Abs(filled[k] + fill) <= MaxQty
  /\ filled' = [filled EXCEPT ![k] = @ + fill]
  /\ IF portfolioUp
     THEN /\ Abs(NetAfter(net[k], fill)) <= MaxQty
          /\ net' = [net EXCEPT ![k] = NetAfter(@, fill)]
     ELSE UNCHANGED net

\* The consumer loads the approved signals by age.  A risk evaluation that
\* raised leaves an older signal pending behind younger approved ones, so any
\* signal may be the next.
Take(i, type) ==
  /\ queue[i].type = type
  /\ queue' = Without(i)

\* No account is free for the pair: the order is rejected.
RejectEntry(i) ==
  /\ Take(i, "entry")
  /\ Available(queue[i].key[2]) = {}
  /\ UNCHANGED <<allocations, net, filled, portfolioUp, faults, disturbed>>

\* Mutant: the allocation is not recorded.
AllocateUnrecorded(k) ==
  /\ Available(k[2]) # {}
  /\ UNCHANGED allocations

Allocate(k) ==
  /\ Available(k[2]) # {}
  /\ allocations' = allocations \cup {[account |-> First(Available(k[2])), key |-> k]}

\* An entry is allocated an account and filled.
FillEntry(i, size) ==
  LET k == queue[i].key IN
  /\ Take(i, "entry")
  /\ Allocate(k)
  /\ Book(k, Signed(queue[i].side, size))
  /\ Unless(portfolioUp /\ net[k] = 0, k)
  /\ UNCHANGED <<portfolioUp, faults>>

\* The fill simulation raises: the order is rejected and the allocation kept.
FailEntry(i) ==
  LET k == queue[i].key IN
  /\ Take(i, "entry")
  /\ Allocate(k)
  /\ Fault
  /\ Disturb(k)
  /\ UNCHANGED <<net, filled, portfolioUp>>

\* The SELECT of the active allocation expects at most one row.  With two it
\* raises, the error is logged, and both rows stay active.
Release(k) ==
  allocations' = IF \A r, q \in Held(k) : r = q THEN allocations \ Held(k) ELSE allocations

\* Mutant: the exit fill does not release the allocation.
FillExitKeepsAccount(i, size) ==
  LET k == queue[i].key IN
  /\ Take(i, "exit")
  /\ Book(k, Signed(queue[i].side, size))
  /\ Unless(portfolioUp /\ Abs(net[k]) = size, k)
  /\ UNCHANGED <<allocations, portfolioUp, faults>>

\* An exit needs no account.  It releases the allocation of its strategy and
\* pair, whatever the fill did to the position.
FillExit(i, size) ==
  LET k == queue[i].key IN
  /\ Take(i, "exit")
  /\ Book(k, Signed(queue[i].side, size))
  /\ Release(k)
  /\ Unless(portfolioUp /\ Abs(net[k]) = size, k)
  /\ UNCHANGED <<portfolioUp, faults>>

\* The fill simulation raises: the position and its account stay.
FailExit(i) ==
  /\ Take(i, "exit")
  /\ Fault
  /\ UNCHANGED <<allocations, net, filled, portfolioUp, disturbed>>

-----------------------------------------------------------------------------
(* Startup: the order consumer is started before the portfolio module. *)

StartPortfolio ==
  /\ ~portfolioUp
  /\ portfolioUp' = TRUE
  /\ UNCHANGED <<allocations, net, filled, queue, faults, disturbed>>

\* The tables survive; a consumer cycle cut short is rolled back.
Restart ==
  /\ portfolioUp
  /\ portfolioUp' = FALSE
  /\ Fault
  /\ UNCHANGED <<allocations, net, filled, queue, disturbed>>

-----------------------------------------------------------------------------
(* Specification *)

Next ==
  \/ \E k \in Keys :
       \/ \E side \in EntrySides : EmitEntry(k, side)
       \/ EmitExit(k)
  \/ \E i \in DOMAIN queue :
       \/ LeaveWindow(i)
       \/ Drop(i)
       \/ RejectEntry(i)
       \/ \E size \in Sizes : FillEntry(i, size) \/ FillExit(i, size)
       \/ FailEntry(i)
       \/ FailExit(i)
  \/ StartPortfolio
  \/ Restart

Spec == Init /\ [][Next]_vars

-----------------------------------------------------------------------------
(* Properties *)

\* FIFO netting: no account carries a pair for two strategies, and none
\* carries it twice.
AccountsExclusive ==
  \A r, q \in allocations :
    r.account = q.account /\ r.key[2] = q.key[2] => r = q

\* The life of an undisturbed strategy and pair: at most one signal in
\* flight, which fits the position it was emitted for; one account exactly
\* while the position is open; and fills that add up to the position.
Disciplined(k) ==
  /\ \A i, j \in InFlight(k) : i = j
  /\ \A i \in InFlight(k) :
       IF queue[i].type = "entry" THEN net[k] = 0
       ELSE net[k] # 0 /\ queue[i].side = Closing(net[k])
  /\ net[k] = 0 => Held(k) = {}
  /\ net[k] # 0 => \E r \in Held(k) : Held(k) = {r}
  /\ filled[k] = net[k]

\* The three tables part only for a strategy and pair that was disturbed: by
\* a second signal in flight, a change of size, a fill failure or a restart.
TablesAgreeUnlessDisturbed ==
  \A k \in Keys \ disturbed :
    /\ filled[k] = net[k]
    /\ net[k] = 0 <=> Held(k) = {}

\* Every undisturbed open position has an account of its own: two of them in
\* one pair are never carried by the same account.
PositionsHaveTheirOwnAccount ==
  \A k, l \in Keys \ disturbed :
    (k # l /\ k[2] = l[2] /\ net[k] # 0 /\ net[l] # 0) =>
      \E r \in Held(k), q \in Held(l) : r.account # q.account

PoolInv ==
  /\ TypeOK
  /\ AccountsExclusive
  /\ \A k \in Keys \ disturbed : Disciplined(k)

\* An account in use is never handed over: an allocation disappears only by
\* an exit fill of the strategy that holds it, and no other strategy gets the
\* account for that pair in the same step.
NoHandOver ==
  [][\A r \in allocations \ allocations' :
       /\ \E i \in DOMAIN queue : queue[i].key = r.key /\ Take(i, "exit")
       /\ \A q \in allocations' : q.account = r.account => q.key[2] # r.key[2]]_vars

\* "Allows ALL exit signals (reduce exposure)", which an exit larger than its
\* position breaks: an exit never opens or enlarges a position.
ExitsReduce ==
  [][\A i \in DOMAIN queue :
       Take(i, "exit") => \A k \in Keys : Abs(net'[k]) <= Abs(net[k])]_vars

=============================================================================
