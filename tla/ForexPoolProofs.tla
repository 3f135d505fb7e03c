-------------------------- MODULE ForexPoolProofs --------------------------
(***************************************************************************)
(* The account pool is safe for every set of accounts, strategies, pairs   *)
(* and sizes: an account never carries a pair twice, and the tables agree  *)
(* for every strategy and pair that was not disturbed.  The inductive      *)
(* invariant is PoolInv.                                                   *)
(***************************************************************************)
EXTENDS ForexPool, TLAPS, WellFoundedInduction

USE PoolAssumption DEF Keys, Sides

-----------------------------------------------------------------------------
(* Arithmetic of fills *)

\* A fill moves a position by an integer.
LEMMA NetAfterType ==
  ASSUME NEW n \in Int, NEW f \in Int
  PROVE  NetAfter(n, f) \in Int
BY DEF NetAfter

\* Sizes are positive, so a fill is never nothing.
LEMMA SignedType ==
  ASSUME NEW side, NEW size \in Sizes
  PROVE  Signed(side, size) \in Int /\ Signed(side, size) # 0
BY DEF Signed

\* An entry fill on no position becomes the position.
LEMMA EntryFill ==
  ASSUME NEW f \in Int
  PROVE  NetAfter(0, f) = f
BY DEF NetAfter, Scenario

\* An exit of the size of the position closes it, and the fills cancel out.
LEMMA ExactExit ==
  ASSUME NEW n \in Int, n # 0, NEW size \in Sizes, Abs(n) = size
  PROVE  /\ NetAfter(n, Signed(Closing(n), size)) = 0
         /\ n + Signed(Closing(n), size) = 0
BY DEF NetAfter, Scenario, SameSide, Signed, Closing, Abs

-----------------------------------------------------------------------------
(* Accounts and queue *)

\* ORDER BY ... LIMIT 1 yields one of the available accounts.
LEMMA FirstIsMember ==
  ASSUME NEW S \in SUBSET Accounts, S # {}
  PROVE  First(S) \in S
<1>1. S \subseteq Nat
  OBVIOUS
<1>2. PICK a \in S : \A b \in S : ~ (<<b, a>> \in OpToRel(<, Nat))
  BY <1>1, NatLessThanWellFounded, WFMin, Zenon
<1>3. ASSUME NEW b \in S PROVE a <= b
  <2>1. a \in Nat /\ b \in Nat
    BY <1>1
  <2>2. OpToRel(<, Nat) = {p \in Nat \X Nat : p[1] < p[2]}
    BY DEF OpToRel
  <2>3. b < a => <<b, a>> \in {p \in Nat \X Nat : p[1] < p[2]}
    BY <2>1
  <2>4. ~ (b < a)
    BY <1>2, <2>2, <2>3, Zenon
  <2>5. QED
    BY <2>1, <2>4
<1>4. QED
  BY <1>3, Zenon DEF First

\* Removing a signal renumbers the others and keeps them.
LEMMA WithoutSignal ==
  ASSUME NEW q \in Seq(Signal), queue = q, NEW i \in DOMAIN q
  PROVE  /\ Without(i) \in Seq(Signal)
         /\ \A j \in DOMAIN Without(i) :
              LET old == IF j < i THEN j ELSE j + 1
              IN  old \in DOMAIN q /\ old # i /\ Without(i)[j] = q[old]
BY DEF Without

\* A signal of the queue is a signal of some strategy and pair.
LEMMA KeyType ==
  ASSUME TypeOK, NEW i \in DOMAIN queue
  PROVE  queue[i].key \in Keys
<1>1. queue[i] \in Signal
  BY DEF TypeOK
<1>2. QED
  BY <1>1 DEF Signal

\* A fill keeps positions and totals integers.
LEMMA BookType ==
  ASSUME net \in [Keys -> Int], filled \in [Keys -> Int],
         NEW k \in Keys, NEW size \in Sizes, NEW side, Book(k, Signed(side, size))
  PROVE  net' \in [Keys -> Int] /\ filled' \in [Keys -> Int]
<1>1. Signed(side, size) \in Int
  BY SignedType
<1>2. NetAfter(net[k], Signed(side, size)) \in Int
  BY <1>1, NetAfterType
<1>3. QED
  BY <1>1, <1>2 DEF Book

\* The account allocated is one that carried nothing for the pair.
LEMMA AllocateType ==
  ASSUME allocations \subseteq Allocation, NEW k \in Keys, Allocate(k)
  PROVE  \E a \in Available(k[2]) :
           /\ allocations' = allocations \cup {[account |-> a, key |-> k]}
           /\ a \in Accounts
           /\ allocations' \subseteq Allocation
<1>1. Available(k[2]) \in SUBSET Accounts
  BY DEF Available
<1>2. First(Available(k[2])) \in Available(k[2])
  BY <1>1, FirstIsMember DEF Allocate
<1>3. QED
  BY <1>1, <1>2 DEF Allocate, Allocation

-----------------------------------------------------------------------------
\* The initial tables are empty.
LEMMA InitType == Init => TypeOK
<1> SUFFICES ASSUME Init PROVE TypeOK
  OBVIOUS
<1>1. /\ net \in [Keys -> Int] /\ filled \in [Keys -> Int]
      /\ queue \in Seq(Signal) /\ faults \in 0..MaxFaults
  BY DEF Init
<1>2. allocations \subseteq Allocation /\ portfolioUp \in BOOLEAN /\ disturbed \subseteq Keys
  BY DEF Init
<1>3. QED
  BY <1>1, <1>2 DEF TypeOK

\* Every step keeps the types.
LEMMA NextType == TypeOK /\ [Next]_vars => TypeOK'
<1> SUFFICES ASSUME TypeOK, [Next]_vars PROVE TypeOK'
  OBVIOUS
<1> USE DEF TypeOK
<1>1. \A i \in DOMAIN queue : queue[i] \in Signal /\ queue[i].key \in Keys
  <2>1. \A i \in DOMAIN queue : queue[i] \in Signal
    OBVIOUS
  <2>2. \A x \in Signal : x.key \in Keys
    BY DEF Signal
  <2>3. QED
    BY <2>1, <2>2
<1>2. ASSUME NEW k \in Keys, NEW side \in EntrySides, EmitEntry(k, side) PROVE TypeOK'
  BY <1>2 DEF EmitEntry, Unless, Signal
<1>3. ASSUME NEW k \in Keys, EmitExit(k) PROVE TypeOK'
  BY <1>3 DEF EmitExit, Unless, Signal, Closing
<1>4. ASSUME NEW i \in DOMAIN queue, LeaveWindow(i) PROVE TypeOK'
  <2>1. [queue[i] EXCEPT !.recent = FALSE] \in Signal
    BY <1>1 DEF Signal
  <2>2. queue' = [queue EXCEPT ![i] = [queue[i] EXCEPT !.recent = FALSE]]
    BY <1>4 DEF LeaveWindow
  <2>3. queue' \in Seq(Signal)
    BY <2>1, <2>2
  <2>4. QED
    BY <1>4, <2>3 DEF LeaveWindow
<1>5. ASSUME NEW i \in DOMAIN queue, Drop(i) PROVE TypeOK'
  BY <1>5, WithoutSignal DEF Drop
<1>6. ASSUME NEW i \in DOMAIN queue, RejectEntry(i) PROVE TypeOK'
  BY <1>6, WithoutSignal DEF RejectEntry, Take
<1>7. ASSUME NEW i \in DOMAIN queue, NEW size \in Sizes, FillEntry(i, size) PROVE TypeOK'
  <2>1. queue' \in Seq(Signal) /\ portfolioUp' \in BOOLEAN /\ faults' \in 0..MaxFaults
    BY <1>7, WithoutSignal DEF FillEntry, Take
  <2>2. net' \in [Keys -> Int] /\ filled' \in [Keys -> Int]
    BY <1>1, <1>7, BookType DEF FillEntry
  <2>3. allocations' \subseteq Allocation
    BY <1>1, <1>7, AllocateType DEF FillEntry
  <2>4. disturbed' \subseteq Keys
    BY <1>1, <1>7 DEF FillEntry, Unless
  <2>5. QED
    BY <2>1, <2>2, <2>3, <2>4
<1>8. ASSUME NEW i \in DOMAIN queue, NEW size \in Sizes, FillExit(i, size) PROVE TypeOK'
  <2>1. queue' \in Seq(Signal) /\ portfolioUp' \in BOOLEAN /\ faults' \in 0..MaxFaults
    BY <1>8, WithoutSignal DEF FillExit, Take
  <2>2. net' \in [Keys -> Int] /\ filled' \in [Keys -> Int]
    BY <1>1, <1>8, BookType DEF FillExit
  <2>3. allocations' \subseteq Allocation
    BY <1>8 DEF FillExit, Release
  <2>4. disturbed' \subseteq Keys
    BY <1>1, <1>8 DEF FillExit, Unless
  <2>5. QED
    BY <2>1, <2>2, <2>3, <2>4
<1>9. ASSUME NEW i \in DOMAIN queue, FailEntry(i) PROVE TypeOK'
  <2>1. queue' \in Seq(Signal) /\ faults' \in 0..MaxFaults
    BY <1>9, WithoutSignal DEF FailEntry, Take, Fault
  <2>2. allocations' \subseteq Allocation
    BY <1>1, <1>9, AllocateType DEF FailEntry
  <2>3. disturbed' \subseteq Keys
    BY <1>1, <1>9 DEF FailEntry, Disturb
  <2>4. QED
    BY <1>9, <2>1, <2>2, <2>3 DEF FailEntry
<1>10. ASSUME NEW i \in DOMAIN queue, FailExit(i) PROVE TypeOK'
  BY <1>10, WithoutSignal DEF FailExit, Take, Fault
<1>11. CASE StartPortfolio
  BY <1>11 DEF StartPortfolio
<1>12. CASE Restart
  <2>1. faults' \in 0..MaxFaults
    BY <1>12 DEF Restart, Fault
  <2>2. QED
    BY <1>12, <2>1, Zenon DEF Restart
<1>13. CASE UNCHANGED vars
  BY <1>13 DEF vars
<1>14. QED
  BY <1>2, <1>3, <1>4, <1>5, <1>6, <1>7, <1>8, <1>9, <1>10, <1>11, <1>12, <1>13 DEF Next

\* The tables, the queue and the counters keep their types: positions and
\* fill totals stay integers through every fill, and no signal is torn when
\* another one is taken from the middle of the queue.
THEOREM TypeCorrect == Spec => []TypeOK
BY InitType, NextType, PTL DEF Spec

-----------------------------------------------------------------------------
(* The discipline of one strategy and pair *)

\* The queue holds at most one signal of k, and it fits a position n.
QueueFits(q, k, n) ==
  /\ \A i, j \in DOMAIN q : q[i].key = k /\ q[j].key = k => i = j
  /\ \A i \in DOMAIN q : q[i].key = k =>
       IF q[i].type = "entry" THEN n = 0
       ELSE n # 0 /\ q[i].side = Closing(n)

\* One account exactly while the position n is open.
AccountFits(k, n) ==
  /\ n = 0 => Held(k) = {}
  /\ n # 0 => \E r \in Held(k) : Held(k) = {r}

\* Disciplined, by the parts that different steps disturb.
LEMMA DisciplinedParts ==
  ASSUME NEW k
  PROVE  /\ Disciplined(k) <=>
              /\ QueueFits(queue, k, net[k])
              /\ AccountFits(k, net[k])
              /\ filled[k] = net[k]
         /\ Disciplined(k)' <=>
              /\ QueueFits(queue', k, net'[k])
              /\ AccountFits(k, net[k])'
              /\ filled'[k] = net'[k]
BY DEF Disciplined, QueueFits, AccountFits, InFlight

\* Removing a signal leaves the queue fitting; removing the signal of k
\* leaves none of k, which fits any position.
LEMMA RemoveFits ==
  ASSUME queue \in Seq(Signal), NEW i \in DOMAIN queue, NEW k, NEW n,
         QueueFits(queue, k, n)
  PROVE  /\ QueueFits(Without(i), k, n)
         /\ queue[i].key = k => \A m : QueueFits(Without(i), k, m)
<1> DEFINE Old(j) == IF j < i THEN j ELSE j + 1
<1>1. /\ DOMAIN Without(i) \subseteq Nat
      /\ \A j \in DOMAIN Without(i) :
           Old(j) \in DOMAIN queue /\ Old(j) # i /\ Without(i)[j] = queue[Old(j)]
  BY WithoutSignal
<1>2. i \in Nat /\ \A j, l \in Nat : Old(j) = Old(l) => j = l
  OBVIOUS
<1> HIDE DEF Old
<1>3. \A j, l \in DOMAIN Without(i) :
        Without(i)[j].key = k /\ Without(i)[l].key = k => j = l
  BY <1>1, <1>2 DEF QueueFits
<1>4. QueueFits(Without(i), k, n)
  BY <1>1, <1>3 DEF QueueFits
<1>5. queue[i].key = k => \A j \in DOMAIN Without(i) : Without(i)[j].key # k
  BY <1>1 DEF QueueFits
<1>6. QED
  BY <1>4, <1>5 DEF QueueFits

\* Appending a signal of another strategy or pair changes nothing for k.
LEMMA AppendFits ==
  ASSUME queue \in Seq(Signal), NEW x \in Signal, NEW k, NEW n,
         QueueFits(queue, k, n),
         x.key = k => /\ InFlight(k) = {}
                      /\ IF x.type = "entry" THEN n = 0
                         ELSE n # 0 /\ x.side = Closing(n)
  PROVE  QueueFits(Append(queue, x), k, n)
<1> DEFINE q == Append(queue, x)
<1>1. /\ DOMAIN q = DOMAIN queue \cup {Len(queue) + 1}
      /\ q[Len(queue) + 1] = x
      /\ \A j \in DOMAIN queue : q[j] = queue[j] /\ j # Len(queue) + 1
  OBVIOUS
<1> HIDE DEF q
<1>2. CASE x.key = k
  <2>1. \A j \in DOMAIN queue : queue[j].key # k
    BY <1>2 DEF InFlight
  <2>2. QED
    BY <1>1, <1>2, <2>1 DEF QueueFits, q
<1>3. CASE x.key # k
  BY <1>1, <1>3 DEF QueueFits, q
<1>4. QED
  BY <1>2, <1>3

\* An account that is free for the pair may carry it, so allocating keeps
\* the accounts exclusive; whoever is not k keeps what it held.
LEMMA AllocateKeeps ==
  ASSUME TypeOK, AccountsExclusive, NEW k \in Keys, Allocate(k)
  PROVE  /\ AccountsExclusive'
         /\ \A l \in Keys : l # k => Held(l)' = Held(l)
         /\ Held(k) = {} => \E r : r \in Held(k)' /\ Held(k)' = {r}
<1>1. PICK a \in Available(k[2]) : allocations' = allocations \cup {[account |-> a, key |-> k]}
  BY AllocateType DEF TypeOK
<1> DEFINE new == [account |-> a, key |-> k]
<1>2. \A r \in allocations : r.account = a => r.key[2] # k[2]
  BY DEF Available
<1>3. allocations' = allocations \cup {new} /\ new.account = a /\ new.key = k
  BY <1>1
<1> HIDE DEF new
<1>4. AccountsExclusive'
  BY <1>2, <1>3 DEF AccountsExclusive
<1>5. \A l \in Keys : l # k => Held(l)' = Held(l)
  BY <1>3 DEF Held
<1>6. Held(k)' = Held(k) \cup {new}
  BY <1>3 DEF Held
<1>7. QED
  BY <1>4, <1>5, <1>6

\* Releasing k takes nothing from the others, and with one row at most it
\* takes all that k holds.
LEMMA ReleaseKeeps ==
  ASSUME NEW k \in Keys, Release(k)
  PROVE  /\ allocations' \subseteq allocations
         /\ \A l \in Keys : l # k => Held(l)' = Held(l)
         /\ (\A r, q \in Held(k) : r = q) => Held(k)' = {}
<1>1. \A l \in Keys : l # k => Held(l) \cap Held(k) = {}
  BY DEF Held
<1>2. QED
  BY <1>1 DEF Release, Held

\* The inductive invariant: the tables of an undisturbed strategy and pair
\* agree, and so does the signal that is in flight for them.  The signal is
\* what makes it inductive: an exit must still find the position it was
\* emitted for, or it would open one without an account.
THEOREM PoolInvariant == Spec => []PoolInv
<1>1. Init => PoolInv
  <2> SUFFICES ASSUME Init PROVE PoolInv
    OBVIOUS
  <2>1. TypeOK
    BY InitType
  <2>2. AccountsExclusive
    BY DEF Init, AccountsExclusive
  <2>3. ASSUME NEW k \in Keys PROVE Disciplined(k)
    <3>1. net[k] = 0 /\ filled[k] = 0 /\ InFlight(k) = {} /\ Held(k) = {}
      BY DEF Init, InFlight, Held
    <3>2. QED
      BY <3>1 DEF Disciplined
  <2>4. QED
    BY <2>1, <2>2, <2>3 DEF PoolInv
<1>2. PoolInv /\ [Next]_vars => PoolInv'
  <2> SUFFICES ASSUME PoolInv, [Next]_vars PROVE PoolInv'
    OBVIOUS
  <2>1. TypeOK /\ TypeOK' /\ AccountsExclusive
    BY NextType DEF PoolInv
  <2>2. SUFFICES /\ AccountsExclusive'
                 /\ \A k \in Keys \ disturbed' : Disciplined(k)'
    BY <2>1 DEF PoolInv
  <2>3. \A k \in Keys \ disturbed :
          /\ QueueFits(queue, k, net[k])
          /\ AccountFits(k, net[k])
          /\ filled[k] = net[k]
    BY DisciplinedParts DEF PoolInv
  <2>5. ASSUME UNCHANGED <<allocations, net, filled>>, disturbed \subseteq disturbed',
               \A k \in Keys \ disturbed' : QueueFits(queue', k, net[k])
        PROVE  AccountsExclusive' /\ \A k \in Keys \ disturbed' : Disciplined(k)'
    <3>1. AccountsExclusive'
      BY <2>1, <2>5 DEF AccountsExclusive
    <3>2. ASSUME NEW k \in Keys \ disturbed' PROVE Disciplined(k)'
      <4>1. AccountFits(k, net[k])' /\ filled'[k] = net'[k]
        BY <2>3, <2>5 DEF AccountFits, Held
      <4>2. QED
        BY <2>5, <4>1, DisciplinedParts
    <3>3. QED
      BY <3>1, <3>2
  <2>6. ASSUME NEW i \in DOMAIN queue
        PROVE  \A k \in Keys \ disturbed :
                 /\ QueueFits(Without(i), k, net[k])
                 /\ queue[i].key = k => \A m : QueueFits(Without(i), k, m)
    BY <2>1, <2>3, RemoveFits DEF TypeOK
  <2>7. ASSUME NEW k \in Keys, NEW side \in EntrySides, EmitEntry(k, side)
        PROVE  AccountsExclusive' /\ \A l \in Keys \ disturbed' : Disciplined(l)'
    <3> DEFINE x == [key |-> k, type |-> "entry", side |-> side, recent |-> TRUE]
    <3>1. x \in Signal /\ queue' = Append(queue, x)
      BY <2>7 DEF EmitEntry, Signal
    <3>2. ASSUME NEW l \in Keys \ disturbed' PROVE QueueFits(queue', l, net[l])
      <4>1. l \notin disturbed /\ (l = k => InFlight(k) = {} /\ net[k] = 0)
        BY <2>7 DEF EmitEntry, Unless
      <4>2. x.key = k /\ x.type = "entry"
        OBVIOUS
      <4> HIDE DEF x
      <4>3. QED
        BY <2>1, <2>3, <3>1, <4>1, <4>2, AppendFits DEF TypeOK
    <3>3. QED
      BY <2>5, <2>7, <3>2 DEF EmitEntry, Unless
  <2>8. ASSUME NEW k \in Keys, EmitExit(k)
        PROVE  AccountsExclusive' /\ \A l \in Keys \ disturbed' : Disciplined(l)'
    <3> DEFINE x == [key |-> k, type |-> "exit", side |-> Closing(net[k]), recent |-> FALSE]
    <3>1. x \in Signal /\ queue' = Append(queue, x)
      BY <2>8 DEF EmitExit, Signal, Closing
    <3>2. ASSUME NEW l \in Keys \ disturbed' PROVE QueueFits(queue', l, net[l])
      <4>1. l \notin disturbed /\ (l = k => InFlight(k) = {} /\ net[k] # 0)
        BY <2>8 DEF EmitExit, Unless
      <4>2. x.key = k /\ x.type = "exit" /\ x.side = Closing(net[k])
        OBVIOUS
      <4> HIDE DEF x
      <4>3. QED
        BY <2>1, <2>3, <3>1, <4>1, <4>2, AppendFits DEF TypeOK
    <3>3. QED
      BY <2>5, <2>8, <3>2 DEF EmitExit, Unless
  <2>9. ASSUME NEW i \in DOMAIN queue, LeaveWindow(i)
        PROVE  AccountsExclusive' /\ \A l \in Keys \ disturbed' : Disciplined(l)'
    <3>1. \A l \in Keys \ disturbed : QueueFits(queue', l, net[l])
      BY <2>1, <2>3, <2>9 DEF LeaveWindow, QueueFits, TypeOK
    <3>2. QED
      BY <2>5, <2>9, <3>1 DEF LeaveWindow
  <2>10. ASSUME NEW i \in DOMAIN queue, Drop(i) \/ RejectEntry(i) \/ FailExit(i)
        PROVE  AccountsExclusive' /\ \A l \in Keys \ disturbed' : Disciplined(l)'
    BY <2>5, <2>6, <2>10 DEF Drop, RejectEntry, FailExit, Take
  <2>11. ASSUME NEW i \in DOMAIN queue, NEW size \in Sizes, FillEntry(i, size)
        PROVE  AccountsExclusive' /\ \A l \in Keys \ disturbed' : Disciplined(l)'
    <3>k. PICK k \in Keys : k = queue[i].key
      BY <2>1, KeyType
    <3>f. PICK f : f = Signed(queue[i].side, size)
      OBVIOUS
    <3>1. queue[i].type = "entry" /\ queue' = Without(i)
      BY <2>11 DEF FillEntry, Take
    <3>2. Allocate(k) /\ Book(k, f) /\ f \in Int /\ f # 0
      BY <2>11, <3>k, <3>f, SignedType DEF FillEntry
    <3>3. disturbed \subseteq disturbed' /\ (k \notin disturbed' => portfolioUp /\ net[k] = 0)
      BY <2>11, <3>k DEF FillEntry, Unless
    <3>4. \A l \in Keys : l # k => net'[l] = net[l] /\ filled'[l] = filled[l]
      BY <2>1, <3>2 DEF Book, TypeOK
    <3>5. AccountsExclusive'
      BY <2>1, <3>1, <3>2, AllocateKeeps
    <3>6. ASSUME NEW l \in Keys \ disturbed', l # k PROVE Disciplined(l)'
      <4>1. QueueFits(queue', l, net'[l])
        BY <2>6, <3>1, <3>3, <3>4, <3>6
      <4>2. AccountFits(l, net[l])'
        BY <2>1, <2>3, <3>1, <3>2, <3>3, <3>4, <3>6, AllocateKeeps DEF AccountFits
      <4>3. QED
        BY <2>3, <3>3, <3>4, <3>6, <4>1, <4>2, DisciplinedParts
    <3>7. ASSUME k \notin disturbed' PROVE Disciplined(k)'
      <4>1. /\ k \notin disturbed /\ net[k] = 0 /\ filled[k] = 0
            /\ Held(k) = {}
        BY <2>3, <3>1, <3>3, <3>7 DEF AccountFits
      <4>2. net'[k] = f /\ filled'[k] = f
        BY <2>1, <3>1, <3>2, <3>3, <3>7, <4>1, EntryFill DEF Book, TypeOK
      <4>3. QueueFits(queue', k, net'[k])
        BY <2>6, <3>k, <3>1, <4>1
      <4>4. AccountFits(k, net[k])'
        BY <2>1, <3>1, <3>2, <4>1, <4>2, AllocateKeeps DEF AccountFits
      <4>5. QED
        BY <4>2, <4>3, <4>4, DisciplinedParts
    <3>8. QED
      BY <3>5, <3>6, <3>7
  <2>12. ASSUME NEW i \in DOMAIN queue, FailEntry(i)
        PROVE  AccountsExclusive' /\ \A l \in Keys \ disturbed' : Disciplined(l)'
    <3>k. PICK k \in Keys : k = queue[i].key
      BY <2>1, KeyType
    <3>1. queue' = Without(i) /\ Allocate(k)
      BY <2>12, <3>k DEF FailEntry, Take
    <3>2. UNCHANGED <<net, filled>> /\ disturbed' = disturbed \cup {k}
      BY <2>12, <3>k DEF FailEntry, Disturb
    <3>3. AccountsExclusive'
      BY <2>1, <3>1, AllocateKeeps
    <3>4. ASSUME NEW l \in Keys \ disturbed' PROVE Disciplined(l)'
      <4>1. l # k /\ l \notin disturbed
        BY <3>2
      <4>2. AccountFits(l, net[l])'
        BY <2>1, <2>3, <3>1, <3>2, <4>1, AllocateKeeps DEF AccountFits
      <4>3. QED
        BY <2>3, <2>6, <3>1, <3>2, <4>1, <4>2, DisciplinedParts
    <3>5. QED
      BY <3>3, <3>4
  <2>13. ASSUME NEW i \in DOMAIN queue, NEW size \in Sizes, FillExit(i, size)
        PROVE  AccountsExclusive' /\ \A l \in Keys \ disturbed' : Disciplined(l)'
    <3>k. PICK k \in Keys : k = queue[i].key
      BY <2>1, KeyType
    <3>f. PICK f : f = Signed(queue[i].side, size)
      OBVIOUS
    <3>1. queue[i].type = "exit" /\ queue' = Without(i)
      BY <2>13 DEF FillExit, Take
    <3>2. Release(k) /\ Book(k, f)
      BY <2>13, <3>k, <3>f DEF FillExit
    <3>3. /\ disturbed \subseteq disturbed'
          /\ k \notin disturbed' => portfolioUp /\ Abs(net[k]) = size
      BY <2>13, <3>k DEF FillExit, Unless
    <3>4. k \notin disturbed' => net[k] # 0 /\ f = Signed(Closing(net[k]), size)
      BY <2>3, <3>k, <3>f, <3>1, <3>3 DEF QueueFits
    <3>5. \A l \in Keys : l # k => net'[l] = net[l] /\ filled'[l] = filled[l]
      BY <2>1, <3>2 DEF Book, TypeOK
    <3>6. AccountsExclusive'
      BY <2>1, <3>1, <3>2, ReleaseKeeps DEF AccountsExclusive
    <3>7. ASSUME NEW l \in Keys \ disturbed', l # k PROVE Disciplined(l)'
      <4>1. QueueFits(queue', l, net'[l])
        BY <2>6, <3>1, <3>3, <3>5, <3>7
      <4>2. AccountFits(l, net[l])'
        BY <2>3, <3>1, <3>2, <3>3, <3>5, <3>7, ReleaseKeeps DEF AccountFits
      <4>3. QED
        BY <2>3, <3>3, <3>5, <3>7, <4>1, <4>2, DisciplinedParts
    <3>8. ASSUME k \notin disturbed' PROVE Disciplined(k)'
      <4>1. /\ k \notin disturbed /\ net[k] # 0 /\ filled[k] = net[k]
            /\ \A r, q \in Held(k) : r = q
        BY <2>3, <3>1, <3>3, <3>4, <3>8 DEF AccountFits
      <4>2. net'[k] = 0 /\ filled'[k] = 0
        <5>1. net[k] \in Int /\ Abs(net[k]) = size
          BY <2>1, <3>1, <3>3, <3>8 DEF TypeOK
        <5>2. NetAfter(net[k], f) = 0 /\ net[k] + f = 0
          BY <3>4, <3>8, <4>1, <5>1, ExactExit
        <5>3. QED
          BY <2>1, <3>1, <3>2, <3>3, <3>8, <4>1, <5>2 DEF Book, TypeOK
      <4>3. QueueFits(queue', k, net'[k])
        BY <2>6, <3>k, <3>1, <4>1
      <4>4. AccountFits(k, net[k])'
        BY <3>1, <3>2, <4>1, <4>2, ReleaseKeeps DEF AccountFits
      <4>5. QED
        BY <4>2, <4>3, <4>4, DisciplinedParts
    <3>9. QED
      BY <3>6, <3>7, <3>8
  <2>14. CASE StartPortfolio \/ Restart \/ UNCHANGED vars
    BY <2>3, <2>5, <2>14 DEF StartPortfolio, Restart, vars
  <2>15. QED
    BY <2>7, <2>8, <2>9, <2>10, <2>11, <2>12, <2>13, <2>14 DEF Next
<1>3. QED
  BY <1>1, <1>2, PTL DEF Spec

\* FIFO netting: whatever is disturbed, no account carries a pair for two
\* strategies or twice for one.
THEOREM PoolIsExclusive == Spec => []AccountsExclusive
<1>1. PoolInv => AccountsExclusive
  BY DEF PoolInv
<1>2. QED
  BY <1>1, PoolInvariant, PTL

\* allocations, positions and fills part only for the disturbed.
THEOREM TablesAgree == Spec => []TablesAgreeUnlessDisturbed
<1>1. PoolInv => TablesAgreeUnlessDisturbed
  BY DEF PoolInv, Disciplined, TablesAgreeUnlessDisturbed
<1>2. QED
  BY <1>1, PoolInvariant, PTL

\* Two undisturbed positions in one pair are carried by two accounts.
THEOREM PositionsAreSeparate == Spec => []PositionsHaveTheirOwnAccount
<1>1. PoolInv => PositionsHaveTheirOwnAccount
  <2> SUFFICES ASSUME PoolInv,
                      NEW k \in Keys \ disturbed, NEW l \in Keys \ disturbed,
                      k # l, k[2] = l[2], net[k] # 0, net[l] # 0
               PROVE  \E r \in Held(k), q \in Held(l) : r.account # q.account
    BY DEF PositionsHaveTheirOwnAccount
  <2>1. PICK r \in Held(k), q \in Held(l) : TRUE
    BY DEF PoolInv, Disciplined
  <2>2. r \in allocations /\ q \in allocations /\ r.key = k /\ q.key = l
    BY DEF Held
  <2>3. r.account # q.account
    BY <2>2 DEF PoolInv, AccountsExclusive
  <2>4. QED
    BY <2>3
<1>2. QED
  BY <1>1, PoolInvariant, PTL

\* An account leaves a strategy only by an exit fill of that strategy.
THEOREM AccountsAreNotHandedOver == Spec => NoHandOver
<1>1. PoolInv /\ [Next]_vars =>
        [\A r \in allocations \ allocations' :
           /\ \E i \in DOMAIN queue : queue[i].key = r.key /\ Take(i, "exit")
           /\ \A q \in allocations' : q.account = r.account => q.key[2] # r.key[2]]_vars
  <2> SUFFICES ASSUME PoolInv, Next, NEW r \in allocations \ allocations'
               PROVE  /\ \E i \in DOMAIN queue : queue[i].key = r.key /\ Take(i, "exit")
                      /\ \A q \in allocations' : q.account = r.account => q.key[2] # r.key[2]
    OBVIOUS
  <2>1. PICK i \in DOMAIN queue, size \in Sizes : FillExit(i, size)
    <3>1. ASSUME allocations \subseteq allocations' PROVE FALSE
      BY <3>1
    <3>2. ASSUME NEW i \in DOMAIN queue,
                 FailEntry(i) \/ \E size \in Sizes : FillEntry(i, size)
          PROVE  FALSE
      BY <3>1, <3>2 DEF FailEntry, FillEntry, Allocate
    <3>3. QED
      BY <3>1, <3>2 DEF Next, EmitEntry, EmitExit, LeaveWindow, Drop, RejectEntry,
                        FailExit, StartPortfolio, Restart
  <2>2. PICK k \in Keys : k = queue[i].key
    BY KeyType DEF PoolInv
  <2>3. Release(k) /\ Take(i, "exit")
    BY <2>1, <2>2 DEF FillExit
  <2>4. allocations' \subseteq allocations /\ r.key = k
    BY <2>2, <2>3 DEF Release, Held
  <2>5. \A q \in allocations' : q.account = r.account => q.key[2] # r.key[2]
    BY <2>4 DEF PoolInv, AccountsExclusive
  <2>6. QED
    BY <2>2, <2>3, <2>4, <2>5
<1>2. QED
  BY <1>1, PoolInvariant, PTL DEF Spec, NoHandOver

=============================================================================
