----------------------------- MODULE CashLedger -----------------------------
(***************************************************************************)
(* The cash balances of one user: one row per account scope, moved by the  *)
(* order consumer (fills), by the daily jobs (dividends) and by admin      *)
(* requests, each in a database session of its own.                        *)
(*                                                                         *)
(* update_balance reads the row, adds the movement in Python and writes    *)
(* the sum.  The write waits for the row lock of another session, which    *)
(* the order consumer holds from its first fill to the end of its batch,   *)
(* but it then writes the sum it had computed before.                      *)
(***************************************************************************)
EXTENDS Integers, FiniteSets, Functions

CONSTANTS
  Equities,    \* the scope all fills and dividends are booked on
  Scopes,      \* all account scopes: "equities" and the forex pool accounts
  Consumer,    \* the order consumer's session
  DailyJobs,   \* the session of the snapshot loop
  Admins,      \* sessions of admin requests
  Nobody,
  Amounts,     \* values of fills, dividends and adjustments
  Opening,     \* initial balance of each scope
  MaxBalance   \* bound: absolute value of a balance

ASSUME LedgerAssumption ==
  /\ Equities \in Scopes
  /\ Nobody \notin {Consumer, DailyJobs} \cup Admins
  /\ Consumer # DailyJobs
  /\ {Consumer, DailyJobs} \cap Admins = {}
  /\ Amounts \subseteq Nat \ {0}
  /\ Opening \in Nat
  /\ MaxBalance \in Nat

Sessions == {Consumer, DailyJobs} \cup Admins

VARIABLES
  balance,   \* committed cash_balances, 0 where there is no row
  rows,      \* scopes that have a committed row
  writer,    \* the session that holds the lock of each row
  draft,     \* the balance that session has written
  read,      \* per session, the balance it has read and not yet written
  cleared,   \* the order the consumer works on has passed the cash check
  moved,     \* history: movements a session has written on each scope
  overtaken  \* history: sessions that read a row another then changed

vars == <<balance, rows, writer, draft, read, cleared, moved, overtaken>>

\* Between the SELECT and the UPDATE (or INSERT) of update_balance.
Unread  == [open |-> FALSE, scope |-> Equities, base |-> 0, found |-> FALSE, delta |-> 0]
Reading == [open : {TRUE}, scope : Scopes, base : Int, found : BOOLEAN, delta : Int]

TypeOK ==
  /\ balance \in [Scopes -> Int]
  /\ rows \subseteq Scopes
  /\ writer \in [Scopes -> Sessions \cup {Nobody}]
  /\ draft \in [Scopes -> Int]
  /\ read \in [Sessions -> Reading \cup {Unread}]
  /\ cleared \in BOOLEAN
  /\ moved \in [Sessions -> [Scopes -> Int]]
  /\ overtaken \subseteq Sessions

\* initialize_cash has created rows for some of the scopes.
Init ==
  /\ rows \in {R \in SUBSET Scopes : Equities \in R}
  /\ balance = [sc \in Scopes |-> IF sc \in rows THEN Opening ELSE 0]
  /\ writer = [sc \in Scopes |-> Nobody]
  /\ draft = [sc \in Scopes |-> 0]
  /\ read = [s \in Sessions |-> Unread]
  /\ cleared = FALSE
  /\ moved = [s \in Sessions |-> [sc \in Scopes |-> 0]]
  /\ overtaken = {}

-----------------------------------------------------------------------------
(* What a session sees, holds and lets go *)

\* A statement sees what is committed and what its own session has written.
Sees(s, sc) == IF writer[sc] = s THEN draft[sc] ELSE balance[sc]

Found(s, sc) == sc \in rows \/ writer[sc] = s

Locks(s) == {sc \in Scopes : writer[sc] = s}

\* The session s ends: its locks, reads and drafts are gone.
End(s) ==
  /\ writer' = [sc \in Scopes |-> IF writer[sc] = s THEN Nobody ELSE writer[sc]]
  /\ draft' = [sc \in Scopes |-> IF writer[sc] = s THEN 0 ELSE draft[sc]]
  /\ read' = [read EXCEPT ![s] = Unread]
  /\ cleared' = (cleared /\ s # Consumer)
  /\ moved' = [moved EXCEPT ![s] = [sc \in Scopes |-> 0]]

Within(x) == -MaxBalance <= x /\ x <= MaxBalance

TotalSeen(s) == FoldFunctionOnSet(+, 0, [sc \in Scopes |-> Sees(s, sc)], Scopes)

-----------------------------------------------------------------------------
(* update_balance *)

\* The balance is read; the sum is computed.
Read(s, sc, delta) ==
  /\ ~read[s].open
  /\ Within(Sees(s, sc) + delta)
  /\ read' = [read EXCEPT ![s] = [open |-> TRUE, scope |-> sc, base |-> Sees(s, sc),
                                  found |-> Found(s, sc), delta |-> delta]]
  /\ UNCHANGED <<balance, rows, writer, draft, moved, overtaken>>

\* Mutant: there is no unique key, so an insert always succeeds.
WriteTwice(s) ==
  LET sc == read[s].scope IN
  /\ read[s].open
  /\ writer[sc] \in {s, Nobody}
  /\ draft' = [draft EXCEPT ![sc] = read[s].base + read[s].delta]
  /\ writer' = [writer EXCEPT ![sc] = s]
  /\ moved' = [moved EXCEPT ![s][sc] = @ + read[s].delta]
  /\ read' = [read EXCEPT ![s] = Unread]
  /\ UNCHANGED <<balance, rows, cleared, overtaken>>

\* The sum is written, once no other session holds the row.  A row that was
\* found is updated; one that was not is inserted, unless it exists by now.
Write(s) ==
  LET sc == read[s].scope IN
  /\ read[s].open
  /\ writer[sc] \in {s, Nobody}
  /\ read[s].found \/ sc \notin rows
  /\ draft' = [draft EXCEPT ![sc] = read[s].base + read[s].delta]
  /\ writer' = [writer EXCEPT ![sc] = s]
  /\ moved' = [moved EXCEPT ![s][sc] = @ + read[s].delta]
  /\ read' = [read EXCEPT ![s] = Unread]
  /\ UNCHANGED <<balance, rows, cleared, overtaken>>

Active(s) == read[s].open \/ Locks(s) # {} \/ (s = Consumer /\ cleared)

\* An insert that violates the unique key, a failed statement, a crash of the
\* process or a lost connection: nothing of the session remains.
Rollback(s) ==
  /\ Active(s)
  /\ End(s)
  /\ overtaken' = overtaken \ {s}
  /\ UNCHANGED <<balance, rows>>

Commit(s) ==
  /\ ~read[s].open
  /\ Locks(s) # {}
  /\ balance' = [sc \in Scopes |-> Sees(s, sc)]
  /\ rows' = rows \cup Locks(s)
  /\ End(s)
  /\ overtaken' = (overtaken \ {s})
                  \cup {t \in Sessions \ {s} : read[t].found /\ read[t].scope \in Locks(s)}

-----------------------------------------------------------------------------
(* Who moves cash *)

\* The order of a buy passes the cash check: its cost is compared with the
\* total over all scopes.
CheckCash(cost) ==
  /\ ~read[Consumer].open
  /\ TotalSeen(Consumer) >= cost
  /\ cleared' = TRUE
  /\ UNCHANGED <<balance, rows, writer, draft, read, moved, overtaken>>

\* The fill of a buy that was checked, at its own price, is debited on the
\* equities scope: no fill carries a broker account.
Buy(value) == cleared /\ Read(Consumer, Equities, -value) /\ cleared' = FALSE

\* A sell needs no cash.
Sell(value) == Read(Consumer, Equities, value) /\ cleared' = FALSE

Dividend(amount) == Read(DailyJobs, Equities, amount) /\ UNCHANGED cleared

\* An admin request makes one adjustment, of either sign, on any scope.
Adjust(s, sc, amount) ==
  /\ Locks(s) = {}
  /\ Read(s, sc, amount) \/ Read(s, sc, -amount)
  /\ UNCHANGED cleared

Next ==
  \/ \E a \in Amounts :
       \/ CheckCash(a) \/ Buy(a) \/ Sell(a) \/ Dividend(a)
       \/ \E s \in Admins, sc \in Scopes : Adjust(s, sc, a)
  \/ \E s \in Sessions : Write(s) \/ Commit(s) \/ Rollback(s)

Spec == Init /\ [][Next]_vars

-----------------------------------------------------------------------------
(* Properties *)

\* The change a step makes to the balances.
Booked(sc) == balance'[sc] - balance[sc]

\* Balances change only by the commit of a session, and by exactly what that
\* session moved, unless another session had changed a row it had read.  Where
\* there was no row, the unique key keeps even that from losing a movement.
CommitBooksItsMovements ==
  [][balance' # balance =>
       \E s \in Sessions :
         /\ Locks(s) # {} /\ \A sc \in Locks(s) : writer'[sc] = Nobody
         /\ s \notin overtaken => \A sc \in Scopes : Booked(sc) = moved[s][sc]]_vars

\* The invariant behind it.
DraftsAddUp ==
  \A sc \in Scopes :
    (writer[sc] # Nobody /\ writer[sc] \notin overtaken) =>
      draft[sc] = balance[sc] + moved[writer[sc]][sc]

\* A balance that was read is current, if the write can still succeed.
ReadsAreCurrent ==
  \A s \in Sessions \ overtaken :
    (read[s].open /\ (read[s].found \/ read[s].scope \notin rows)) =>
      read[s].base = Sees(s, read[s].scope)

MovesAreHeld ==
  \A s \in Sessions, sc \in Scopes : writer[sc] # s => moved[s][sc] = 0

RowsComeFirst ==
  /\ \A sc \in Scopes \ rows : balance[sc] = 0
  /\ \A s \in Sessions : read[s].open =>
       (writer[read[s].scope] = s => read[s].found)

LedgerInv == TypeOK /\ DraftsAddUp /\ ReadsAreCurrent /\ MovesAreHeld /\ RowsComeFirst

\* "Atomically adjust balance by delta", which a stale read breaks: every commit
\* books what its session moved.
AtomicAdjust ==
  [][\A s \in Sessions, sc \in Scopes :
       (writer[sc] = s /\ writer'[sc] = Nobody /\ balance' # balance) =>
         Booked(sc) = moved[s][sc]]_vars

=============================================================================
