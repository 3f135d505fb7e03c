--------------------------- MODULE PortfolioProofs ---------------------------
(***************************************************************************)
(* Theorems about two parts of the portfolio module.  The daily jobs       *)
(* (DailyJobs) owe a dividend to whoever holds a position on its ex-date,  *)
(* pay it once, add the payments up in cash and snapshots (JobsInv), and   *)
(* adjust the rows to the splits of the day (SharesInv).  The rows of      *)
(* positions keep their fills under the three sessions that write them     *)
(* (PositionsInv), and fills make no equity (BooksBalance).                *)
(***************************************************************************)
EXTENDS DailyJobs, Positions, SumTheorems, TLAPS

-----------------------------------------------------------------------------
(* Quotients *)

\* What division gives,
LEMMA Quotient ==
  ASSUME NEW a \in Nat, NEW b \in Nat \ {0}
  PROVE  /\ a \div b \in Nat
         /\ a = b * (a \div b) + (a % b) /\ (a % b) \in 0..(b - 1)
OBVIOUS

LEMMA QuotientPositive ==
  ASSUME NEW a \in Nat, NEW b \in Nat \ {0}, b <= a
  PROVE  a \div b \in Nat \ {0}
<1>1. PICK e \in Nat, r \in Nat : e = a \div b /\ a = b * e + r /\ r < b
  BY Quotient
<1>2. e # 0
  BY <1>1
<1>3. QED
  BY <1>1, <1>2

\* and that nothing else is in its place.
LEMMA QuotientIs ==
  ASSUME NEW a \in Nat, NEW b \in Nat \ {0}, NEW k \in Nat, b * k <= a, a < b * (k + 1)
  PROVE  a \div b = k
<1>1. PICK e \in Nat, r \in Nat : e = a \div b /\ a = b * e + r /\ r < b
  BY Quotient
<1>2. e < k + 1
  BY <1>1
<1>3. k < e + 1
  BY <1>1
<1>4. QED
  BY <1>1, <1>2, <1>3

\* A whole multiple divided, and a fraction reduced.
LEMMA Whole ==
  ASSUME NEW q \in Nat, NEW k \in Nat, NEW d \in Nat \ {0}
  PROVE  (q * (k * d)) \div d = q * k
<1>1. q * (k * d) = d * (q * k) /\ q * k \in Nat /\ q * (k * d) \in Nat
  OBVIOUS
<1>2. d * (q * k) < d * (q * k + 1)
  OBVIOUS
<1>3. QED
  BY <1>1, <1>2, QuotientIs

LEMMA Reduced ==
  ASSUME NEW q \in Nat, NEW k \in Nat \ {0}, NEW m \in Nat \ {0}
  PROVE  (q * m) \div (k * m) = q \div k
<1>1. PICK e \in Nat, r \in Nat : e = q \div k /\ q = k * e + r /\ r < k
  BY Quotient
<1>2. q * m = (k * m) * e + r * m /\ r * m < k * m /\ r * m \in Nat /\ q * m \in Nat /\ k * m \in Nat \ {0}
  BY <1>1
<1>3. (k * m) * (e + 1) = (k * m) * e + k * m
  OBVIOUS
<1> DEFINE A == q * m
           B == k * m
<1>4. A \in Nat /\ B \in Nat \ {0} /\ B * e <= A /\ A < B * (e + 1)
  <2>1. B * e \in Nat /\ B * (e + 1) = B * e + B
    BY <1>2, <1>3
  <2> DEFINE C == r * m
  <2>2. A = B * e + C /\ C < B /\ C \in Nat
    BY <1>2
  <2>3. A \in Nat /\ B \in Nat \ {0}
    BY <1>2
  <2> HIDE DEF A, B, C
  <2>4. QED
    BY <2>1, <2>2, <2>3
<1> HIDE DEF A, B
<1>5. A \div B = e
  BY <1>1, <1>4, QuotientIs
<1>6. QED
  BY <1>1, <1>5 DEF A, B

-----------------------------------------------------------------------------
(* Quantities after splits *)

\* One split.
Step(f, x, q) == (q * f[x].new) \div f[x].old
Ratios == [new : Nat, old : Nat \ {0}]

\* it says of each subset of S what a quantity is after its splits.
Shrinks(it, q, f, S) ==
  \A s \in SUBSET S : it[s] = IF s = {} THEN q ELSE Step(f, Chosen(s), it[s \ {Chosen(s)}])

\* What the library chooses for it.
Shrinking(q, f, S) ==
  CHOOSE it : it = [s \in SUBSET S |-> IF s = {} THEN q ELSE Step(f, Chosen(s), it[s \ {Chosen(s)}])]

\* What the library folds.
LEMMA AfterIsFold ==
  ASSUME NEW S, NEW f \in [S -> Ratios], NEW q
  PROVE  After(q, f) = Shrinking(q, f, S)[S]
BY DEF Shrinking, After, FoldFunction, FoldFunctionOnSet, MapThenFoldSet, Chosen, Step

\* A split leaves a whole quantity.
LEMMA StepType ==
  ASSUME NEW S, NEW f \in [S -> Ratios], NEW x \in S, NEW q \in Nat
  PROVE  Step(f, x, q) \in Nat
<1>1. f[x].new \in Nat /\ f[x].old \in Nat \ {0}
  BY DEF Ratios
<1>2. q * f[x].new \in Nat
  BY <1>1
<1>3. QED
  BY <1>1, <1>2, Quotient DEF Step

\* Splits, one after the other.
IsAfter(q, f, S) == \E it \in [SUBSET S -> Nat] : Shrinks(it, q, f, S) /\ After(q, f) = it[S]

LEMMA AfterExists ==
  ASSUME NEW S, IsFiniteSet(S), NEW f \in [S -> Ratios], NEW q \in Nat
  PROVE  IsAfter(q, f, S)
<1> DEFINE step == [p \in S \X Nat |-> Step(f, p[1], p[2])]
           Is(it) == it = [s \in SUBSET S |-> IF s = {} THEN q ELSE Step(f, Chosen(s), it[s \ {Chosen(s)}])]
           it == Shrinking(q, f, S)
           c == [s \in SUBSET S |-> Chosen(s)]
<1>0. Chooses(c, S) /\ \A s \in SUBSET S : c[s] = Chosen(s)
  BY ChosenIn DEF Chooses
<1> HIDE DEF c
<1>1. step \in [S \X Nat -> Nat]
  BY StepType
<1>2. PICK g \in [SUBSET S -> Nat] : Folds(g, q, step, c, S)
  <2> HIDE DEF step
  <2>1. QED
    BY <1>0, <1>1, FoldExists
<1>3. \A s \in SUBSET S : g[s] = IF s = {} THEN q ELSE Step(f, Chosen(s), g[s \ {Chosen(s)}])
  <2>1. \A x \in S, m \in Nat : step[<<x, m>>] = Step(f, x, m)
    OBVIOUS
  <2>2. \A s \in SUBSET S : s # {} => Chosen(s) \in S /\ g[s \ {Chosen(s)}] \in Nat
    BY ChosenIn
  <2> HIDE DEF step
  <2>3. QED
    BY <1>0, <1>2, <2>1, <2>2 DEF Folds, Folded
<1>4. Is(g)
  <2> HIDE DEF step
  <2>1. QED
    BY <1>3
<1>5. Is(it)
  <2>1. it = CHOOSE h : Is(h)
    BY DEF Shrinking
  <2> HIDE DEF Is, it
  <2>2. QED
    BY <1>4, <2>1
<1>6. After(q, f) = it[S]
  BY AfterIsFold
<1>7. Shrinks(it, q, f, S)
  <2>1. \A s \in SUBSET S : it[s] = IF s = {} THEN q ELSE Step(f, Chosen(s), it[s \ {Chosen(s)}])
    <3> HIDE DEF it
    <3>1. QED
      BY <1>5
  <2>2. QED
    BY <2>1 DEF Shrinks
<1>8. it = [s \in SUBSET S |-> it[s]]
  <2> HIDE DEF it
  <2>1. QED
    BY <1>5
<1> HIDE DEF it, Is
<1>9. \A s \in SUBSET S : it[s] \in Nat
  <2> DEFINE B == {s \in SUBSET S : it[s] \in Nat}
             L == {n \in Nat : Level(S, n) \subseteq B}
  <2>0. it[{}] = q
    BY <1>7 DEF Shrinks
  <2>1. 0 \in L
    <3>1. Level(S, 0) = {{}}
      BY Levels
    <3>2. Level(S, 0) \subseteq B
      BY <2>0, <3>1
    <3>3. QED
      BY <3>2
  <2>2. ASSUME NEW n \in Nat, n \in L PROVE n + 1 \in L
    <3>1. ASSUME NEW s \in Level(S, n + 1), s # {} PROVE it[s] \in Nat
      <4>1. it[s \ {Chosen(s)}] \in Nat /\ s \in SUBSET S /\ Chosen(s) \in S
        BY <2>2, <3>1, Levels, ChosenIn DEF Level
      <4>2. it[s] = Step(f, Chosen(s), it[s \ {Chosen(s)}])
        BY <1>7, <3>1, <4>1 DEF Shrinks
      <4>3. QED
        BY <4>1, <4>2, StepType
    <3>2. \A s \in Level(S, n + 1) : s \in SUBSET S /\ it[s] \in Nat
      BY <2>0, <3>1 DEF Level
    <3>3. Level(S, n + 1) \subseteq B /\ n + 1 \in Nat
      BY <3>2
    <3>4. QED
      BY <3>3
  <2> HIDE DEF L
  <2>3. \A n \in Nat : n \in L
    BY <2>1, <2>2, NumberInduction
  <2>4. QED
    BY <2>3, Levels DEF L
<1>10. QED
  BY <1>6, <1>7, <1>8, <1>9 DEF IsAfter

LEMMA AfterType ==
  ASSUME NEW S, IsFiniteSet(S), NEW f \in [S -> Ratios], NEW q \in Nat
  PROVE  After(q, f) \in Nat
<1>1. IsAfter(q, f, S)
  BY AfterExists
<1>2. QED
  BY <1>1 DEF IsAfter

\* Two series of splits that do the same to every quantity, one by one.
LEMMA AfterSame ==
  ASSUME NEW S, IsFiniteSet(S), NEW f \in [S -> Ratios], NEW g \in [S -> Ratios], NEW q \in Nat,
         \A x \in S, n \in Nat : Step(f, x, n) = Step(g, x, n)
  PROVE  After(q, f) = After(q, g)
<1>0. IsAfter(q, f, S) /\ IsAfter(q, g, S)
  BY AfterExists
<1>1. PICK i \in [SUBSET S -> Nat] : Shrinks(i, q, f, S) /\ After(q, f) = i[S]
  BY <1>0 DEF IsAfter
<1>2. PICK j \in [SUBSET S -> Nat] : Shrinks(j, q, g, S) /\ After(q, g) = j[S]
  BY <1>0 DEF IsAfter
<1> DEFINE B == {n \in Nat : \A s \in Level(S, n) : i[s] = j[s]}
<1>3. 0 \in B
  <2>1. i[{}] = q /\ j[{}] = q
    BY <1>1, <1>2 DEF Shrinks
  <2>2. Level(S, 0) = {{}}
    BY Levels
  <2>3. QED
    BY <2>1, <2>2
<1>4. ASSUME NEW n \in Nat, n \in B PROVE n + 1 \in B
  <2> SUFFICES ASSUME NEW s \in Level(S, n + 1) PROVE i[s] = j[s]
    OBVIOUS
  <2>1. s \in SUBSET S
    BY DEF Level
  <2>2. CASE s = {}
    BY <1>1, <1>2, <2>1, <2>2 DEF Shrinks
  <2>3. CASE s # {}
    <3>1. Chosen(s) \in S /\ s \ {Chosen(s)} \in SUBSET S /\ i[s \ {Chosen(s)}] = j[s \ {Chosen(s)}]
      BY <1>4, <2>1, <2>3, Levels, ChosenIn
    <3>2. i[s] = Step(f, Chosen(s), i[s \ {Chosen(s)}]) /\ j[s] = Step(g, Chosen(s), j[s \ {Chosen(s)}])
      BY <1>1, <1>2, <2>1, <2>3 DEF Shrinks
    <3>3. QED
      BY <3>1, <3>2
  <2>4. QED
    BY <2>2, <2>3
<1> HIDE DEF B
<1>5. \A n \in Nat : n \in B
  BY <1>3, <1>4, NumberInduction
<1>6. i[S] = j[S]
  BY <1>5, Levels DEF B
<1>7. QED
  BY <1>1, <1>2, <1>6

\* No share becomes no share.
LEMMA AfterNothing ==
  ASSUME NEW S, IsFiniteSet(S), NEW f \in [S -> Ratios]
  PROVE  After(0, f) = 0
<1>0. IsAfter(0, f, S)
  BY AfterExists
<1>1. PICK i \in [SUBSET S -> Nat] : Shrinks(i, 0, f, S) /\ After(0, f) = i[S]
  BY <1>0 DEF IsAfter
<1> DEFINE B == {n \in Nat : \A s \in Level(S, n) : i[s] = 0}
<1>2. 0 \in B
  <2>1. i[{}] = 0
    BY <1>1 DEF Shrinks
  <2>2. Level(S, 0) = {{}}
    BY Levels
  <2>3. QED
    BY <2>1, <2>2
<1>3. ASSUME NEW n \in Nat, n \in B PROVE n + 1 \in B
  <2> SUFFICES ASSUME NEW s \in Level(S, n + 1) PROVE i[s] = 0
    OBVIOUS
  <2>1. s \in SUBSET S
    BY DEF Level
  <2>2. CASE s = {}
    BY <1>1, <2>1, <2>2 DEF Shrinks
  <2>3. CASE s # {}
    <3> DEFINE x == Chosen(s)
    <3>1. x \in S /\ s \ {x} \in SUBSET S /\ i[s \ {x}] = 0
      BY <1>3, <2>1, <2>3, Levels, ChosenIn
    <3>2. i[s] = Step(f, x, 0)
      BY <1>1, <2>1, <2>3, <3>1 DEF Shrinks
    <3> HIDE DEF x
    <3>3. f[x].new \in Nat /\ f[x].old \in Nat \ {0}
      BY <3>1 DEF Ratios
    <3>4. 0 * f[x].new = 0 /\ 0 \div f[x].old = 0
      BY <3>3, QuotientIs
    <3>5. QED
      BY <3>2, <3>4 DEF Step
  <2>4. QED
    BY <2>2, <2>3
<1> HIDE DEF B
<1>4. \A n \in Nat : n \in B
  BY <1>2, <1>3, NumberInduction
<1>5. QED
  BY <1>1, <1>4, Levels DEF B

\* No split leaves a quantity as it was.
LEMMA AfterNone ==
  ASSUME NEW f \in [{} -> Ratios], NEW q \in Nat
  PROVE  After(q, f) = q
<1>1. IsAfter(q, f, {})
  BY FS_EmptySet, AfterExists
<1>2. QED
  BY <1>1 DEF IsAfter, Shrinks

-----------------------------------------------------------------------------
(* The daily jobs: types *)

LEMMA TermsType ==
  ASSUME DTypeOK, NEW a \in Actions
  PROVE  /\ announced[a] \in AnyTerms
         /\ announced[a].ex \in Nat /\ announced[a].payable \in Nat /\ announced[a].cash \in Nat
         /\ announced[a].num \in Nat /\ announced[a].den \in Nat
<1>1. Terms[a] \subseteq AnyTerms
  BY JobsAssumption
<1>2. NoTerms \in AnyTerms
  BY DEF NoTerms, AnyTerms, Kinds
<1>3. announced[a] \in AnyTerms
  BY <1>1, <1>2 DEF DTypeOK
<1>4. QED
  BY <1>3 DEF AnyTerms

\* An announced split has a rate of its kind.
LEMMA SplitTerms ==
  ASSUME DTypeOK, NEW a \in Actions, IsSplit(announced[a])
  PROVE  /\ announced[a] \in Terms[a]
         /\ announced[a].num \in Nat \ {0} /\ announced[a].den \in Nat \ {0}
         /\ \/ announced[a].kind = "forward_split" /\ announced[a].num >= announced[a].den
            \/ announced[a].kind = "reverse_split" /\ announced[a].num <= announced[a].den
<1>1. announced[a] # NoTerms
  BY DEF IsSplit, NoTerms
<1>2. announced[a] \in Terms[a]
  BY <1>1 DEF DTypeOK
<1>3. QED
  BY <1>2, TermsType, JobsAssumption DEF IsSplit

LEMMA RatioType ==
  ASSUME DTypeOK, NEW a \in Actions, IsSplit(announced[a])
  PROVE  /\ Ratio(announced[a]) \in Ratios
         /\ [new |-> announced[a].num, old |-> announced[a].den] \in Ratios
<1> DEFINE n == announced[a].num
           d == announced[a].den
<1>1. n \in Nat \ {0} /\ d \in Nat \ {0}
  BY SplitTerms
<1>2. CASE announced[a].kind = "forward_split"
  <2>1. n \div d \in Nat
    BY <1>1, Quotient
  <2>2. QED
    BY <1>1, <1>2, <2>1 DEF Ratio, Ratios
<1>3. CASE announced[a].kind = "reverse_split"
  <2>1. n <= d
    BY <1>3, SplitTerms
  <2> HIDE DEF n, d
  <2>2. d \div n \in Nat \ {0}
    BY <1>1, <2>1, QuotientPositive
  <2>3. QED
    BY <1>1, <1>3, <2>2 DEF Ratio, Ratios, n, d
<1>4. QED
  BY <1>2, <1>3 DEF IsSplit

LEMMA SplitRatios ==
  ASSUME DTypeOK, NEW d
  PROVE  /\ IsFiniteSet(Splits(d)) /\ Splits(d) \subseteq Actions
         /\ [a \in Splits(d) |-> Ratio(announced[a])] \in [Splits(d) -> Ratios]
         /\ [a \in Splits(d) |-> [new |-> announced[a].num, old |-> announced[a].den]]
              \in [Splits(d) -> Ratios]
<1>1. Splits(d) \subseteq Actions /\ \A a \in Splits(d) : IsSplit(announced[a])
  BY DEF Splits, Effective
<1>2. IsFiniteSet(Splits(d))
  BY <1>1, JobsAssumption, FS_Subset
<1>3. QED
  BY <1>1, <1>2, RatioType

LEMMA SharesType ==
  ASSUME DTypeOK, NEW q \in Nat
  PROVE  Adjusted(q) \in Nat /\ \A d : SplitShares(q, d) \in Nat
BY SplitRatios, AfterType DEF Adjusted, SplitShares

\* A payment that is made, and one that is paid.
LEMMA PaymentTypes ==
  ASSUME DTypeOK
  PROVE  ExDate(payments) \in PaymentsOf /\ Pay(ExDate(payments)) \in PaymentsOf
<1>1. day \in Nat /\ \A u \in Users : owned[u].qty \in Nat
  BY DEF DTypeOK, Days, Lot
<1>2. ASSUME NEW u \in Users, NEW a \in Actions
      PROVE  Payment(u, a) \in PaymentRow
  <2>1. owned[u].qty * announced[a].cash \in Int
    BY <1>1, TermsType
  <2>2. QED
    BY <1>1, <2>1, TermsType DEF Payment, PaymentRow
<1>3. ASSUME NEW u \in Users, NEW a \in Actions
      PROVE  ExDate(payments)[u][a] \in Seq(PaymentRow)
  <2>1. payments[u][a] \in Seq(PaymentRow)
    BY DEF DTypeOK, PaymentsOf
  <2>2. QED
    BY <1>2, <2>1 DEF ExDate
<1>4. ExDate(payments) \in PaymentsOf
  BY <1>3 DEF ExDate, PaymentsOf
<1> DEFINE due == ExDate(payments)
<1> HIDE DEF due
<1>5. ASSUME NEW u \in Users, NEW a \in Actions
      PROVE  Pay(due)[u][a] \in Seq(PaymentRow)
  <2>1. due[u][a] \in Seq(PaymentRow)
    BY <1>3 DEF due
  <2>2. \A i \in DOMAIN due[u][a] : due[u][a][i] \in PaymentRow
    BY <2>1
  <2>3. \A p \in PaymentRow : [p EXCEPT !.paid = day] \in PaymentRow
    BY <1>1 DEF PaymentRow
  <2>4. Pay(due)[u][a] = [i \in 1..Len(due[u][a]) |->
           IF IsPayable(due[u][a][i]) THEN [due[u][a][i] EXCEPT !.paid = day] ELSE due[u][a][i]]
    BY <2>1 DEF Pay
  <2>5. QED
    BY <2>1, <2>2, <2>3, <2>4
<1>6. Pay(due) \in PaymentsOf
  BY <1>5 DEF Pay, PaymentsOf
<1>7. QED
  BY <1>4, <1>6 DEF due

\* Amounts are numbers.
LEMMA SumsType ==
  ASSUME NEW due \in PaymentsOf, NEW u \in Users
  PROVE  /\ Sum(due, u, IsPayable) \in Int
         /\ Sum(due, u, LAMBDA p : p.paid = day) \in Int
         /\ Sum(due, u, LAMBDA p : p.paid # 0) \in Int
<1>1. ASSUME NEW a \in Actions
      PROVE  IsFiniteSet(DOMAIN due[u][a]) /\ \A i \in DOMAIN due[u][a] : due[u][a][i].amount \in Int
  <2>1. due[u][a] \in Seq(PaymentRow)
    BY DEF PaymentsOf
  <2>2. DOMAIN due[u][a] = 1..Len(due[u][a]) /\ Len(due[u][a]) \in Nat
    BY <2>1
  <2>3. IsFiniteSet(1..Len(due[u][a]))
    BY <2>2, FS_Interval
  <2>4. \A i \in DOMAIN due[u][a] : due[u][a][i] \in PaymentRow
    BY <2>1
  <2>5. QED
    BY <2>2, <2>3, <2>4 DEF PaymentRow
<1>2. ASSUME NEW a \in Actions
      PROVE  /\ Amount(due[u][a], IsPayable) \in Int
             /\ Amount(due[u][a], LAMBDA p : p.paid = day) \in Int
             /\ Amount(due[u][a], LAMBDA p : p.paid # 0) \in Int
  BY <1>1, SumType DEF Amount
<1>3. QED
  BY <1>2, JobsAssumption, SumType DEF Sum

LEMMA JobsTypeInit == DInit => DTypeOK
<1> SUFFICES ASSUME DInit PROVE DTypeOK
  OBVIOUS
<1>1. day \in Days /\ 0 \in 0..LastDay /\ 0 \in 0..MaxCrashes
  BY JobsAssumption DEF DInit, Days
<1>2. owned \in [Users -> Lot] /\ loaded \in [Users -> Lot]
  BY DEF DInit, NoneHeld, Lot
<1>3. payments \in PaymentsOf /\ closes \in ClosesOf
  BY DEF DInit, PaymentsOf, ClosesOf, NoClose
<1>4. QED
  BY <1>1, <1>2, <1>3 DEF DInit, DTypeOK

\* What a step of the loop writes into its session.
LEMMA WorkType ==
  ASSUME DTypeOK, BeginJobs
  PROVE  session' \in Work
<1> DEFINE due  == ExDate(payments)
           paid == Pay(due)
<1>1. due \in PaymentsOf /\ paid \in PaymentsOf
  BY PaymentTypes
<1>2. session' = [busy |-> TRUE, rows |-> owned, payments |-> paid,
                  credited |-> [u \in Users |-> credited[u] + Sum(due, u, IsPayable)],
                  closes |-> Close(due, paid)]
  BY DEF BeginJobs
<1> HIDE DEF due, paid
<1>3. [u \in Users |-> credited[u] + Sum(due, u, IsPayable)] \in [Users -> Int]
  <2> DEFINE S(u) == Sum(due, u, IsPayable)
  <2>1. \A u \in Users : S(u) \in Int /\ credited[u] \in Int
    BY <1>1, SumsType DEF DTypeOK
  <2> HIDE DEF S
  <2>2. [u \in Users |-> credited[u] + S(u)] \in [Users -> Int]
    BY <2>1
  <2>3. QED
    BY <2>2 DEF S
<1>4. Close(due, paid) \in ClosesOf
  <2>1. ASSUME NEW u \in Users
        PROVE  [income |-> Sum(paid, u, LAMBDA p : p.paid = day),
                total  |-> Sum(paid, u, LAMBDA p : p.paid # 0)] \in [income : Int, total : Int]
    BY <1>1, SumsType
  <2>2. \A u \in Users : closes[u] \in [Days -> [income : Int, total : Int]]
    BY DEF DTypeOK, ClosesOf
  <2>3. QED
    BY <2>1, <2>2 DEF Close, ClosesOf
<1>5. owned \in [Users -> Lot]
  BY DEF DTypeOK
<1>6. QED
  BY <1>1, <1>2, <1>3, <1>4, <1>5 DEF Work

LEMMA JobsTypeStep == DTypeOK /\ [DNext]_dvars => DTypeOK'
<1> SUFFICES ASSUME DTypeOK, [DNext]_dvars PROVE DTypeOK'
  OBVIOUS
<1> USE DEF DTypeOK
<1>1. ASSUME NEW a \in Actions, NEW t \in Terms[a], Fetch(a, t) PROVE DTypeOK'
  BY <1>1 DEF Fetch, clock, server, jobs
<1>2. ASSUME NEW u \in Users, LoadRow(u) PROVE DTypeOK'
  <2>1. [status |-> "open", qty |-> owned[u].qty] \in Lot
    BY DEF Lot
  <2>2. QED
    BY <1>2, <2>1 DEF LoadRow, clock, server, jobs
<1>3. ASSUME NEW u \in Users, NEW change \in Lots, BookLot(u, change) PROVE DTypeOK'
  <2>1. /\ loaded[u].qty + change \in 0..MaxShares /\ shares[u] + change \in 0..MaxShares
        /\ owned' = [owned EXCEPT ![u] = [status |-> IF loaded[u].qty + change = 0 THEN "closed" ELSE "open",
                                          qty |-> loaded[u].qty + change]]
        /\ loaded' = [loaded EXCEPT ![u] = NoneHeld]
        /\ shares' = [shares EXCEPT ![u] = @ + change]
        /\ disturbed' \subseteq disturbed \cup {u}
        /\ UNCHANGED <<clock, server, announced, jobs>>
    BY <1>3 DEF BookLot
  <2>2. owned' \in [Users -> Lot] /\ loaded' \in [Users -> Lot]
    BY <2>1, JobsAssumption DEF Lot, NoneHeld
  <2>3. shares' \in [Users -> Nat]
    BY <2>1, JobsAssumption
  <2>4. QED
    BY <2>1, <2>2, <2>3 DEF clock, server, jobs
<1>4. CASE BeginJobs
  <2>1. session' \in Work
    BY <1>4, WorkType
  <2>2. QED
    BY <1>4, <2>1 DEF BeginJobs, clock, jobs
<1>5. CASE CommitJobs
  <2>1. session \in Work
    BY <1>5 DEF CommitJobs, Idle
  <2>2. /\ session.rows \in [Users -> Lot] /\ session.payments \in PaymentsOf
        /\ session.credited \in [Users -> Int] /\ session.closes \in ClosesOf
    BY <2>1 DEF Work
  <2>3. owned' \in [Users -> Lot]
    <3>1. \A u \in Users : owned'[u] = owned[u]
                           \/ owned'[u] = [status |-> owned[u].status, qty |-> Adjusted(session.rows[u].qty)]
      BY <1>5 DEF CommitJobs
    <3>2. \A u \in Users : Adjusted(session.rows[u].qty) \in Nat
      BY <2>2, SharesType DEF Lot
    <3>3. \A u \in Users : owned[u].status \in {"none", "open", "closed"}
      BY DEF Lot
    <3>4. \A u \in Users : [status |-> owned[u].status, qty |-> Adjusted(session.rows[u].qty)] \in Lot
      BY <3>2, <3>3 DEF Lot
    <3>5. \A u \in Users : owned'[u] \in Lot
      BY <3>1, <3>4
    <3>6. owned' = [u \in Users |-> owned'[u]]
      BY <1>5 DEF CommitJobs
    <3>7. QED
      BY <3>5, <3>6
  <2>4. /\ payments' = session.payments /\ credited' = session.credited /\ closes' = session.closes
        /\ lastRun' = day /\ ran' = ran \cup {day} /\ session' = Idle
        /\ disturbed' \subseteq disturbed \cup OpenRows(session.rows)
        /\ UNCHANGED <<clock, up, crashes, announced, loaded, shares>>
    BY <1>5 DEF CommitJobs
  <2>5. OpenRows(session.rows) \subseteq Users
    BY DEF OpenRows
  <2>6. QED
    BY <2>2, <2>3, <2>4, <2>5, JobsAssumption DEF Days, clock
<1>6. CASE LoseJobs
  BY <1>6, JobsAssumption DEF LoseJobs, Days, clock, jobs
<1>7. CASE Crash
  BY <1>7, JobsAssumption DEF Crash, NoneHeld, Lot, clock, jobs
<1>8. CASE Restart \/ TheClose \/ UNCHANGED dvars
  BY <1>8 DEF Restart, TheClose, dvars, clock, server, jobs
<1>9. CASE Midnight
  <2>1. \A u \in Users : SplitShares(shares[u], day + 1) \in Nat
    BY SharesType
  <2>2. day' \in Days
    BY <1>9, JobsAssumption DEF Midnight, Days
  <2>3. OpenRows(owned) \subseteq Users
    BY DEF OpenRows
  <2>4. QED
    BY <1>9, <2>1, <2>2, <2>3 DEF Midnight, server, jobs
<1>10. QED
  BY <1>1, <1>2, <1>3, <1>4, <1>5, <1>6, <1>7, <1>8, <1>9 DEF DNext

\* Every amount is a number and every quantity a natural one, splits and all.
THEOREM JobsTypeCorrect == DSpec => []DTypeOK
<1>1. QED
  BY JobsTypeInit, JobsTypeStep, PTL DEF DSpec

-----------------------------------------------------------------------------
(* The daily jobs: payments *)

\* The one payment of a position for an action.
LEMMA TheOne ==
  ASSUME NEW s, AtMostOne(s), s # <<>>
  PROVE  /\ DOMAIN s = {1} /\ s[1] \in PaymentRow
         /\ s[1].amount \in Int /\ s[1].payable \in Nat /\ s[1].made \in Nat /\ s[1].paid \in Nat
<1>1. s \in Seq(PaymentRow) /\ Len(s) = 1
  BY DEF AtMostOne
<1>2. DOMAIN s = {1} /\ s[1] \in PaymentRow
  BY <1>1
<1>3. QED
  BY <1>2 DEF PaymentRow

LEMMA OneIs ==
  ASSUME NEW f, NEW p \in PaymentRow, f = [i \in {1} |-> p]
  PROVE  AtMostOne(f) /\ f # <<>> /\ f[1] = p
<1>1. f = <<p>>
  OBVIOUS
<1>2. QED
  BY <1>1 DEF AtMostOne

\* Over at most one payment, a sum is its amount.
LEMMA OneSum ==
  ASSUME NEW s, AtMostOne(s), NEW g, s # <<>> => g[1] \in Int
  PROVE  SumFunctionOnSet(g, DOMAIN s) = IF s = <<>> THEN 0 ELSE g[1]
<1>1. CASE s = <<>>
  <2>1. DOMAIN s = {}
    BY <1>1
  <2>2. QED
    BY <1>1, <2>1, SumEmpty
<1>2. CASE s # <<>>
  <2>1. DOMAIN s = {1} /\ {1} \ {1} = {} /\ IsFiniteSet({1})
    BY <1>2, TheOne, FS_Singleton
  <2>2. SumFunctionOnSet(g, {1}) = g[1] + SumFunctionOnSet(g, {})
    BY <1>2, <2>1, SumSplit
  <2>3. QED
    BY <1>2, <2>1, <2>2, SumEmpty
<1>3. QED
  BY <1>1, <1>2

\* What is due of a payment today.
DueNow(s) == IF s # <<>> /\ IsPayable(s[1]) THEN s[1].amount ELSE 0

LEMMA OneAmount ==
  ASSUME NEW s, AtMostOne(s)
  PROVE  /\ Amount(s, IsPayable) = DueNow(s)
         /\ Amount(s, LAMBDA p : p.paid = day) = PaidOn(s, {day})
         /\ Amount(s, LAMBDA p : p.paid # 0) = PaidOn(s, Nat \ {0})
         /\ DueNow(s) \in Int /\ \A days : PaidOn(s, days) \in Int
<1>1. CASE s = <<>>
  <2>1. \A g : SumFunctionOnSet(g, DOMAIN s) = 0
    BY <1>1, OneSum
  <2>2. QED
    BY <1>1, <2>1 DEF Amount, PaidOn, DueNow
<1>2. CASE s # <<>>
  <2>1. DOMAIN s = {1} /\ s[1].amount \in Int /\ s[1].paid \in Nat
    BY <1>2, TheOne
  <2>2. ASSUME NEW g, g[1] \in Int PROVE SumFunctionOnSet(g, {1}) = g[1]
    BY <1>2, <2>1, <2>2, OneSum
  <2> DEFINE f == [i \in {1} |-> IF IsPayable(s[i]) THEN s[i].amount ELSE 0]
             g == [i \in {1} |-> IF s[i].paid = day THEN s[i].amount ELSE 0]
             h == [i \in {1} |-> IF s[i].paid # 0 THEN s[i].amount ELSE 0]
  <2>3. /\ f[1] = DueNow(s) /\ g[1] = PaidOn(s, {day}) /\ h[1] = PaidOn(s, Nat \ {0})
        /\ f[1] \in Int /\ g[1] \in Int /\ h[1] \in Int
    BY <1>2, <2>1 DEF DueNow, PaidOn
  <2>4. /\ Amount(s, IsPayable) = SumFunctionOnSet(f, {1})
        /\ Amount(s, LAMBDA p : p.paid = day) = SumFunctionOnSet(g, {1})
        /\ Amount(s, LAMBDA p : p.paid # 0) = SumFunctionOnSet(h, {1})
    BY <2>1 DEF Amount
  <2>5. \A days : PaidOn(s, days) \in Int
    BY <2>1 DEF PaidOn
  <2> HIDE DEF f, g, h
  <2>6. QED
    BY <2>2, <2>3, <2>4, <2>5
<1>3. QED
  BY <1>1, <1>2

\* A user's payments, action by action.
LEMMA UserSums ==
  ASSUME NEW due, NEW u \in Users, \A a \in Actions : AtMostOne(due[u][a])
  PROVE  /\ Sum(due, u, IsPayable) = SumFunctionOnSet([a \in Actions |-> DueNow(due[u][a])], Actions)
         /\ Sum(due, u, LAMBDA p : p.paid = day) = Paid(due, u, {day})
         /\ Sum(due, u, LAMBDA p : p.paid # 0) = Paid(due, u, Nat \ {0})
<1>1. \A a \in Actions :
        /\ Amount(due[u][a], IsPayable) = DueNow(due[u][a])
        /\ Amount(due[u][a], LAMBDA p : p.paid = day) = PaidOn(due[u][a], {day})
        /\ Amount(due[u][a], LAMBDA p : p.paid # 0) = PaidOn(due[u][a], Nat \ {0})
  BY OneAmount
<1>2. /\ [a \in Actions |-> Amount(due[u][a], IsPayable)] = [a \in Actions |-> DueNow(due[u][a])]
      /\ [a \in Actions |-> Amount(due[u][a], LAMBDA p : p.paid = day)]
           = [a \in Actions |-> PaidOn(due[u][a], {day})]
      /\ [a \in Actions |-> Amount(due[u][a], LAMBDA p : p.paid # 0)]
           = [a \in Actions |-> PaidOn(due[u][a], Nat \ {0})]
  BY <1>1
<1>3. QED
  BY <1>2 DEF Sum, Paid

\* What is owed on the ex-date is in order up to the days that ran before, and
\* paid when it is payable.
LEMMA ExDateComplete ==
  ASSUME DTypeOK, JobsInv, NEW u \in Users, NEW a \in Actions, NEW p, p = ExDate(payments)[u][a]
  PROVE  /\ AtMostOne(p)
         /\ p # <<>> /\ p[1].paid = 0 => \A d \in ran : d >= p[1].made => d < p[1].payable \/ d = day
         /\ p = payments[u][a] \/ (payments[u][a] = <<>> /\ p # <<>> /\ p[1].paid = 0)
<1>1. AtMostOne(payments[u][a]) /\ OnTime(payments[u][a], ran)
  BY DEF JobsInv, Complete
<1>2. p = payments[u][a] \/ (payments[u][a] = <<>> /\ p = <<Payment(u, a)>>)
  BY DEF ExDate
<1>3. CASE p = payments[u][a]
  BY <1>1, <1>3 DEF OnTime
<1>4. CASE payments[u][a] = <<>> /\ p = <<Payment(u, a)>>
  <2>1. day \in Nat /\ owned[u].qty \in Nat /\ ran \subseteq 1..day
    BY DEF JobsInv, EveningsWork, DTypeOK, Lot
  <2>2. owned[u].qty * announced[a].cash \in Int
    BY <2>1, TermsType
  <2>3. /\ Payment(u, a) \in PaymentRow
        /\ Payment(u, a).made = day /\ Payment(u, a).paid = 0
    BY <2>1, <2>2, TermsType DEF Payment, PaymentRow
  <2>4. AtMostOne(p) /\ p # <<>> /\ p[1] = Payment(u, a)
    BY <1>4, <2>3 DEF AtMostOne
  <2>5. \A d \in ran : d >= p[1].made => d = day
    BY <2>1, <2>3, <2>4
  <2>6. QED
    BY <1>4, <2>3, <2>4, <2>5
<1>5. QED
  BY <1>2, <1>3, <1>4

LEMMA PaidOne ==
  ASSUME DTypeOK, JobsInv, NEW u \in Users, NEW a \in Actions, NEW f, NEW p,
         f = Pay(ExDate(payments))[u][a], p = ExDate(payments)[u][a]
  PROVE  /\ AtMostOne(f) /\ OnTime(f, ran \cup {day}) /\ (f = <<>> <=> p = <<>>)
         /\ f # <<>> => f[1] = IF IsPayable(p[1]) THEN [p[1] EXCEPT !.paid = day] ELSE p[1]
<1>1. f = [i \in DOMAIN p |-> IF IsPayable(p[i]) THEN [p[i] EXCEPT !.paid = day] ELSE p[i]]
  BY DEF Pay
<1>2. day \in Nat \ {0} /\ ran \subseteq 1..day
  BY DEF JobsInv, EveningsWork
<1>3. /\ AtMostOne(p)
      /\ p # <<>> /\ p[1].paid = 0 => \A d \in ran : d >= p[1].made => d < p[1].payable \/ d = day
  BY ExDateComplete
<1>4. CASE p = <<>>
  <2>1. f = <<>>
    BY <1>1, <1>4
  <2>2. QED
    BY <1>4, <2>1 DEF AtMostOne, OnTime
<1>5. CASE p # <<>>
  <2> DEFINE r == IF IsPayable(p[1]) THEN [p[1] EXCEPT !.paid = day] ELSE p[1]
  <2>1. DOMAIN p = {1} /\ p[1] \in PaymentRow
    BY <1>3, <1>5, TheOne
  <2>2. r \in PaymentRow
    BY <1>2, <2>1 DEF PaymentRow
  <2>3. f = [i \in {1} |-> r]
    BY <1>1, <2>1
  <2>4. AtMostOne(f) /\ f # <<>> /\ f[1] = r
    <3> HIDE DEF r
    <3>1. QED
      BY <2>2, <2>3, OneIs
  <2>5. OnTime(f, ran \cup {day})
    <3>1. CASE IsPayable(p[1])
      <4>1. f[1].paid = day
        BY <2>1, <2>4, <3>1 DEF PaymentRow
      <4>2. QED
        BY <1>2, <4>1 DEF OnTime
    <3>2. CASE ~IsPayable(p[1])
      <4>1. p[1].paid = 0 => day < p[1].payable
        BY <1>2, <2>1, <3>2 DEF IsPayable, PaymentRow
      <4>2. QED
        BY <1>3, <1>5, <2>4, <3>2, <4>1 DEF OnTime
    <3>3. QED
      BY <3>1, <3>2
  <2>6. QED
    BY <1>5, <2>4, <2>5
<1>6. QED
  BY <1>4, <1>5

\* What the jobs of a day do to what a user was paid for an action.
LEMMA PaidStep ==
  ASSUME DTypeOK, JobsInv, NEW u \in Users, NEW a \in Actions, NEW s, NEW p, NEW f,
         s = payments[u][a], p = ExDate(payments)[u][a], f = Pay(ExDate(payments))[u][a]
  PROVE  /\ \A days \in SUBSET (1..(day - 1)) : PaidOn(f, days) = PaidOn(s, days)
         /\ PaidOn(f, Nat \ {0}) = PaidOn(s, Nat \ {0}) + DueNow(p)
         /\ PaidOn(f, 1..day) = PaidOn(f, Nat \ {0})
         /\ f # <<>> => f[1].paid \in (ran \cup {day}) \cup {0}
<1>1. day \in Nat \ {0} /\ ran \subseteq 1..day
  BY DEF JobsInv, EveningsWork
<1>2. /\ AtMostOne(s) /\ AtMostOne(p)
      /\ p = s \/ (s = <<>> /\ p # <<>> /\ p[1].paid = 0)
      /\ s # <<>> => s[1].paid \in ran \cup {0}
  <2>1. AtMostOne(s)
    BY DEF JobsInv, Complete
  <2>2. AtMostOne(p) /\ (p = s \/ (s = <<>> /\ p # <<>> /\ p[1].paid = 0))
    BY ExDateComplete
  <2>3. s # <<>> => s[1].paid \in ran \cup {0}
    BY DEF JobsInv, Told
  <2>4. QED
    BY <2>1, <2>2, <2>3
<1> DEFINE r == IF IsPayable(p[1]) THEN [p[1] EXCEPT !.paid = day] ELSE p[1]
<1>0. (f = <<>> <=> p = <<>>) /\ (f # <<>> => f[1] = r)
  BY PaidOne
<1> HIDE DEF r
<1>3. CASE p = <<>>
  <2>1. f = <<>> /\ s = <<>>
    BY <1>0, <1>2, <1>3
  <2>2. QED
    BY <1>3, <2>1 DEF PaidOn, DueNow
<1>4. CASE p # <<>>
  <2>1. /\ p[1] \in PaymentRow /\ p[1].amount \in Int /\ p[1].paid \in Nat
        /\ p[1].paid \in ran \cup {0}
    BY <1>2, <1>4, TheOne
  <2>2. f # <<>> /\ f[1] = IF IsPayable(p[1]) THEN [p[1] EXCEPT !.paid = day] ELSE p[1]
    BY <1>0, <1>4 DEF r
  <2>3. \A days : 0 \notin days => PaidOn(s, days) = IF p[1].paid \in days THEN p[1].amount ELSE 0
    BY <1>2, <1>4 DEF PaidOn
  <2>4. \A days : PaidOn(f, days) = IF f[1].paid \in days THEN f[1].amount ELSE 0
    BY <2>2 DEF PaidOn
  <2>5. CASE IsPayable(p[1])
    <3>1. f[1].paid = day /\ f[1].amount = p[1].amount /\ p[1].paid = 0
      BY <2>1, <2>2, <2>5 DEF PaymentRow, IsPayable
    <3>2. DueNow(p) = p[1].amount
      BY <1>4, <2>5 DEF DueNow
    <3>3. \A days : 0 \notin days => PaidOn(s, days) = 0
      BY <2>3, <3>1
    <3>4. \A days : PaidOn(f, days) = IF day \in days THEN p[1].amount ELSE 0
      BY <2>4, <3>1
    <3>5. day \in 1..day /\ day \in Nat \ {0} /\ \A days \in SUBSET (1..(day - 1)) : 0 \notin days /\ day \notin days
      BY <1>1
    <3>6. f[1].paid \in ran \cup {day} \cup {0}
      BY <3>1
    <3>7. \A days \in SUBSET (1..(day - 1)) : PaidOn(f, days) = PaidOn(s, days)
      BY <3>3, <3>4, <3>5
    <3>8. PaidOn(f, Nat \ {0}) = p[1].amount /\ PaidOn(s, Nat \ {0}) = 0
      BY <3>3, <3>4, <3>5
    <3>9. PaidOn(f, 1..day) = p[1].amount
      BY <3>4, <3>5
    <3>10. PaidOn(f, Nat \ {0}) = PaidOn(s, Nat \ {0}) + DueNow(p)
      BY <2>1, <3>2, <3>8
    <3>11. PaidOn(f, 1..day) = PaidOn(f, Nat \ {0})
      BY <3>8, <3>9
    <3>12. QED
      BY <3>6, <3>7, <3>10, <3>11, Zenon
  <2>6. CASE ~IsPayable(p[1])
    <3>1. f[1] = p[1]
      BY <2>2, <2>6
    <3>2. DueNow(p) = 0
      BY <2>6 DEF DueNow
    <3>3. \A days : 0 \notin days => PaidOn(f, days) = PaidOn(s, days)
      BY <2>3, <2>4, <3>1
    <3>4. 0 \notin Nat \ {0} /\ \A days \in SUBSET (1..(day - 1)) : 0 \notin days
      BY <1>1
    <3>5. \A days \in SUBSET (1..(day - 1)) : PaidOn(f, days) = PaidOn(s, days)
      BY <3>3, <3>4
    <3>6. PaidOn(f, Nat \ {0}) = PaidOn(s, Nat \ {0})
      BY <3>3, <3>4
    <3>7. PaidOn(s, Nat \ {0}) \in Int
      BY <2>1, <2>3, <3>4
    <3>8. p[1].paid \in 1..day <=> p[1].paid \in Nat \ {0}
      BY <1>1, <2>1
    <3>9. PaidOn(f, 1..day) = PaidOn(f, Nat \ {0})
      BY <2>4, <3>1, <3>8
    <3>10. PaidOn(f, Nat \ {0}) = PaidOn(s, Nat \ {0}) + DueNow(p)
      BY <3>2, <3>6, <3>7
    <3>11. f[1].paid \in ran \cup {day} \cup {0}
      BY <2>1, <3>1
    <3>12. QED
      BY <3>5, <3>9, <3>10, <3>11, Zenon
  <2>7. QED
    BY <2>5, <2>6
<1>5. QED
  BY <1>3, <1>4

\* The session's cash and snapshots tell of the session's payments.
LEMMA WorkIsTold ==
  ASSUME DTypeOK, JobsInv, BeginJobs
  PROVE  Told(session'.payments, session'.credited, session'.closes, ran \cup {day})
<1> DEFINE due  == ExDate(payments)
           paid == Pay(due)
           total == [u \in Users |-> credited[u] + Sum(due, u, IsPayable)]
<1>1. session'.payments = paid /\ session'.credited = total /\ session'.closes = Close(due, paid)
  BY DEF BeginJobs
<1>2. day \in Nat \ {0} /\ ran \subseteq 1..day /\ day \in Days
  BY DEF JobsInv, EveningsWork, DTypeOK
<1>3. SUFFICES ASSUME NEW u \in Users
               PROVE  /\ total[u] = Paid(paid, u, Nat \ {0})
                      /\ \A a \in Actions : paid[u][a] # <<>> => paid[u][a][1].paid \in (ran \cup {day}) \cup {0}
                      /\ \A d \in ran \cup {day} :
                           /\ Close(due, paid)[u][d].income = Paid(paid, u, {d})
                           /\ Close(due, paid)[u][d].total = Paid(paid, u, 1..d)
  BY <1>1 DEF Told
<1>4. \A a \in Actions : AtMostOne(due[u][a]) /\ AtMostOne(paid[u][a]) /\ AtMostOne(payments[u][a])
  BY ExDateComplete, PaidOne DEF JobsInv, Complete
<1>5. \A a \in Actions :
        /\ \A days \in SUBSET (1..(day - 1)) : PaidOn(paid[u][a], days) = PaidOn(payments[u][a], days)
        /\ PaidOn(paid[u][a], Nat \ {0}) = PaidOn(payments[u][a], Nat \ {0}) + DueNow(due[u][a])
        /\ PaidOn(paid[u][a], 1..day) = PaidOn(paid[u][a], Nat \ {0})
        /\ paid[u][a] # <<>> => paid[u][a][1].paid \in (ran \cup {day}) \cup {0}
  BY PaidStep
<1> HIDE DEF due, paid
<1>6. total[u] = Paid(paid, u, Nat \ {0})
  <2> DEFINE f == [a \in Actions |-> PaidOn(payments[u][a], Nat \ {0})]
             g == [a \in Actions |-> DueNow(due[u][a])]
             h == [a \in Actions |-> PaidOn(paid[u][a], Nat \ {0})]
  <2>1. \A a \in Actions : f[a] \in Int /\ g[a] \in Int /\ h[a] = f[a] + g[a]
    BY <1>4, <1>5, OneAmount
  <2>2. Sum(due, u, IsPayable) = SumFunctionOnSet(g, Actions)
    BY <1>4, UserSums
  <2>3. credited[u] = SumFunctionOnSet(f, Actions)
    BY DEF JobsInv, Told, Paid
  <2>4. Paid(paid, u, Nat \ {0}) = SumFunctionOnSet(h, Actions)
    BY DEF Paid
  <2>5. total[u] = SumFunctionOnSet(f, Actions) + SumFunctionOnSet(g, Actions)
    BY <2>2, <2>3
  <2> HIDE DEF f, g, h, total
  <2>6. QED
    BY <2>1, <2>4, <2>5, JobsAssumption, SumPlus
<1>7. ASSUME NEW d \in ran \cup {day}
      PROVE  /\ Close(due, paid)[u][d].income = Paid(paid, u, {d})
             /\ Close(due, paid)[u][d].total = Paid(paid, u, 1..d)
  <2>1. d \in 1..day
    BY <1>2
  <2>2. CASE d = day
    <3>1. Close(due, paid)[u][d] = [income |-> Sum(paid, u, LAMBDA p : p.paid = day),
                                   total  |-> Sum(paid, u, LAMBDA p : p.paid # 0)]
      <4>1. DOMAIN closes[u] = Days
        BY DEF DTypeOK, ClosesOf
      <4>2. QED
        BY <1>2, <2>2, <4>1 DEF Close
    <3>2. Paid(paid, u, 1..day) = Paid(paid, u, Nat \ {0})
      <4>1. [a \in Actions |-> PaidOn(paid[u][a], 1..day)]
              = [a \in Actions |-> PaidOn(paid[u][a], Nat \ {0})]
        BY <1>5
      <4>2. QED
        BY <4>1 DEF Paid
    <3> DEFINE I == Sum(paid, u, LAMBDA p : p.paid = day)
               T == Sum(paid, u, LAMBDA p : p.paid # 0)
    <3>3. I = Paid(paid, u, {day}) /\ T = Paid(paid, u, Nat \ {0})
      BY <1>4, UserSums
    <3>4. Close(due, paid)[u][d].income = I /\ Close(due, paid)[u][d].total = T
      BY <3>1
    <3> HIDE DEF I, T
    <3>5. QED
      BY <2>2, <3>2, <3>3, <3>4
  <2>3. CASE d # day
    <3>1. Close(due, paid)[u][d] = closes[u][d] /\ d \in ran
      BY <2>3 DEF Close, DTypeOK, ClosesOf
    <3>2. /\ closes[u][d].income = Paid(payments, u, {d})
          /\ closes[u][d].total = Paid(payments, u, 1..d)
      BY <3>1 DEF JobsInv, Told
    <3>3. {d} \in SUBSET (1..(day - 1)) /\ 1..d \in SUBSET (1..(day - 1))
      BY <1>2, <2>1, <2>3
    <3>4. \A days \in SUBSET (1..(day - 1)) : Paid(paid, u, days) = Paid(payments, u, days)
      <4> SUFFICES ASSUME NEW days \in SUBSET (1..(day - 1))
                   PROVE  Paid(paid, u, days) = Paid(payments, u, days)
        OBVIOUS
      <4>1. [a \in Actions |-> PaidOn(paid[u][a], days)] = [a \in Actions |-> PaidOn(payments[u][a], days)]
        BY <1>5
      <4>2. QED
        BY <4>1 DEF Paid
    <3>5. QED
      BY <3>1, <3>2, <3>3, <3>4
  <2>4. QED
    BY <2>2, <2>3
<1>8. QED
  BY <1>5, <1>6, <1>7

\* Every open position has a payment for each action of the day.
LEMMA OpenRowsAreOwed ==
  ASSUME DTypeOK, JobsInv, NEW u \in Users, NEW a \in Actions, a \in Effective(day),
         owned[u].status = "open"
  PROVE  Pay(ExDate(payments))[u][a] # <<>>
<1>1. u \in OpenRows(owned)
  BY DEF OpenRows
<1>2. ExDate(payments)[u][a] = IF payments[u][a] = <<>> THEN <<Payment(u, a)>> ELSE payments[u][a]
  BY <1>1 DEF ExDate
<1>3. ExDate(payments)[u][a] # <<>>
  BY <1>2
<1> DEFINE p == ExDate(payments)[u][a]
           f == Pay(ExDate(payments))[u][a]
<1>4. DOMAIN p = {1}
  BY <1>3, ExDateComplete, TheOne
<1>5. DOMAIN f = DOMAIN p
  BY DEF Pay
<1> HIDE DEF p, f
<1>6. DOMAIN f # {}
  BY <1>4, <1>5
<1>7. DOMAIN <<>> = {}
  OBVIOUS
<1>8. QED
  BY <1>6, <1>7 DEF f

LEMMA JobsInit == DInit => JobsInv
<1> SUFFICES ASSUME DInit PROVE JobsInv
  OBVIOUS
<1>1. EveningsWork
  BY DEF DInit, EveningsWork, Idle
<1>2. RowsLast
  BY DEF DInit, RowsLast, NoneHeld
<1>3. Complete(payments, ran)
  BY DEF DInit, Complete, AtMostOne, OnTime
<1>4. Told(payments, credited, closes, ran)
  <2>1. ASSUME NEW u \in Users
        PROVE  Paid(payments, u, Nat \ {0}) = 0
    <3> DEFINE f == [a \in Actions |-> PaidOn(payments[u][a], Nat \ {0})]
    <3>1. \A a \in Actions : f[a] = 0
      BY DEF DInit, PaidOn
    <3> HIDE DEF f
    <3>2. SumFunctionOnSet(f, Actions) = 0
      BY <3>1, JobsAssumption, SumZero
    <3>3. QED
      BY <3>2 DEF f, Paid
  <2>2. /\ \A u \in Users : credited[u] = 0
        /\ \A u \in Users, a \in Actions : payments[u][a] = <<>>
        /\ ran = {}
    BY DEF DInit
  <2>3. QED
    BY <2>1, <2>2 DEF Told
<1>5. QED
  BY <1>1, <1>2, <1>3, <1>4 DEF DInit, JobsInv, Idle

\* A step that leaves the day's work alone, and at most closes positions.
LEMMA JobsAside ==
  ASSUME JobsInv, RowsLast',
         UNCHANGED <<day, ran, held, announced, payments, credited, closes>>,
         evening => evening',
         session' = session \/ session' = Idle,
         \A u \in held : owned'[u].status = "open" => owned[u].status = "open"
  PROVE  JobsInv'
<1> USE DEF JobsInv
<1>1. session'.busy => session.busy /\ session' = session
  BY DEF Idle
<1>2. EveningsWork'
  BY <1>1 DEF EveningsWork
<1>3. held \cap OpenRows(owned') \subseteq held \cap OpenRows(owned) /\ Effective(day)' = Effective(day)
  BY DEF OpenRows, Effective
<1>4. Complete(payments, ran)' /\ (session'.busy => Complete(session.payments, ran \cup {day})')
  BY <1>1 DEF Complete
<1>5. day' \in ran' => Entitled(payments)'
  BY <1>3 DEF Entitled
<1>6. session'.busy => Entitled(session.payments)'
  BY <1>1, <1>3 DEF Entitled
<1>7. /\ Told(payments, credited, closes, ran)'
      /\ session'.busy => Told(session.payments, session.credited, session.closes, ran \cup {day})'
  BY <1>1
<1>8. QED
  BY <1>1, <1>2, <1>4, <1>5, <1>6, <1>7

LEMMA FetchStep ==
  ASSUME JobsInv, NEW a \in Actions, NEW t \in Terms[a], Fetch(a, t)
  PROVE  JobsInv'
<1> USE DEF JobsInv
<1>1. UNCHANGED <<day, evening, held, session, owned, loaded, payments, credited, closes, ran>> /\ ~evening
  BY DEF Fetch, clock, server, jobs
<1>2. day \notin ran /\ ~session.busy
  BY <1>1 DEF EveningsWork
<1>3. EveningsWork' /\ RowsLast' /\ Complete(payments, ran)'
  BY <1>1 DEF EveningsWork, RowsLast, Complete
<1>4. Told(payments, credited, closes, ran)'
  BY <1>1
<1>5. QED
  BY <1>1, <1>2, <1>3, <1>4

LEMMA BookLotStep ==
  ASSUME JobsInv, NEW u \in Users, NEW q \in Lots, BookLot(u, q)
  PROVE  JobsInv'
<1>1. /\ UNCHANGED <<day, evening, held, session, announced, payments, credited, closes, ran>>
      /\ loaded[u] # NoneHeld /\ loaded' = [loaded EXCEPT ![u] = NoneHeld]
      /\ owned' = [owned EXCEPT ![u] = [status |-> IF loaded[u].qty + q = 0 THEN "closed" ELSE "open",
                                       qty |-> loaded[u].qty + q]]
  BY DEF BookLot, clock, server, jobs
<1>2. RowsLast
  BY DEF JobsInv
<1>3. owned[u].status # "closed"
  BY <1>1, <1>2 DEF RowsLast
<1>4. owned'[u].status \in {"closed", "open"} /\ \A v \in Users \ {u} : owned'[v] = owned[v]
  BY <1>1, <1>2 DEF RowsLast
<1>5. \A v \in held : owned'[v].status = "open" => owned[v].status = "open"
  BY <1>2, <1>3, <1>4 DEF RowsLast
<1>6. DOMAIN owned' = Users /\ DOMAIN loaded' = Users
  BY <1>1, <1>2 DEF RowsLast
<1>7. loaded'[u] = NoneHeld /\ \A v \in Users \ {u} : loaded'[v] = loaded[v]
  BY <1>1, <1>2 DEF RowsLast
<1>8. RowsLast'
  BY <1>1, <1>2, <1>4, <1>6, <1>7 DEF RowsLast
<1>9. QED
  BY <1>1, <1>5, <1>8, JobsAside

LEMMA LoadRowStep ==
  ASSUME JobsInv, NEW u \in Users, LoadRow(u)
  PROVE  JobsInv'
<1>1. /\ UNCHANGED <<day, evening, held, session, announced, owned, payments, credited, closes, ran>>
      /\ owned[u].status # "closed"
      /\ loaded' = [loaded EXCEPT ![u] = [status |-> "open", qty |-> owned[u].qty]]
  BY DEF LoadRow, clock, server, jobs
<1>2. RowsLast
  BY DEF JobsInv
<1>3. DOMAIN loaded' = Users /\ \A v \in Users \ {u} : loaded'[v] = loaded[v]
  BY <1>1, <1>2 DEF RowsLast
<1>4. RowsLast'
  BY <1>1, <1>2, <1>3 DEF RowsLast
<1>5. QED
  BY <1>1, <1>4, JobsAside

LEMMA BeginJobsStep ==
  ASSUME DTypeOK, JobsInv, BeginJobs
  PROVE  JobsInv'
<1> USE DEF JobsInv
<1>1. /\ UNCHANGED <<day, evening, held, announced, owned, loaded, payments, credited, closes, ran>>
      /\ session'.busy /\ session'.payments = Pay(ExDate(payments)) /\ evening
  BY DEF BeginJobs, clock, jobs, Due
<1>2. /\ EveningsWork' /\ RowsLast' /\ Complete(payments, ran)'
      /\ Told(payments, credited, closes, ran)'
  <2>1. EveningsWork' /\ RowsLast' /\ Complete(payments, ran)'
    BY <1>1 DEF EveningsWork, RowsLast, Complete
  <2>2. QED
    BY <1>1, <2>1
<1>3. Complete(session.payments, ran \cup {day})'
  BY <1>1, PaidOne DEF Complete
<1>4. Entitled(session.payments)'
  BY <1>1, OpenRowsAreOwed DEF Entitled, Effective, OpenRows
<1>5. day' \in ran' => Entitled(payments)'
  BY <1>1 DEF Entitled, Effective, OpenRows
<1>6. Told(session.payments, session.credited, session.closes, ran \cup {day})'
  BY <1>1, WorkIsTold
<1>7. QED
  BY <1>1, <1>2, <1>3, <1>4, <1>5, <1>6

LEMMA CommitJobsStep ==
  ASSUME JobsInv, CommitJobs
  PROVE  JobsInv'
<1> USE DEF JobsInv
<1>1. /\ UNCHANGED <<day, evening, held, announced, loaded>>
      /\ session.busy /\ session' = Idle /\ ran' = ran \cup {day}
      /\ payments' = session.payments /\ credited' = session.credited /\ closes' = session.closes
  BY DEF CommitJobs, clock
<1>2. DOMAIN owned' = Users /\ \A u \in Users : owned'[u].status = owned[u].status
  BY DEF CommitJobs
<1>3. ~session'.busy
  BY <1>1 DEF Idle
<1>4. EveningsWork'
  BY <1>1, <1>3 DEF EveningsWork
<1>5. RowsLast'
  BY <1>1, <1>2 DEF RowsLast
<1>6. Complete(payments, ran)'
  BY <1>1 DEF Complete
<1>7. OpenRows(owned') = OpenRows(owned)
  BY <1>2 DEF OpenRows
<1>8. Entitled(payments)'
  BY <1>1, <1>7 DEF Entitled, Effective
<1>9. Told(payments, credited, closes, ran)'
  BY <1>1
<1>10. QED
  BY <1>1, <1>3, <1>4, <1>5, <1>6, <1>8, <1>9

LEMMA MidnightStep ==
  ASSUME JobsInv, Midnight
  PROVE  JobsInv'
<1> USE DEF JobsInv
<1>1. /\ UNCHANGED <<session, announced, owned, loaded, payments, credited, closes, ran>>
      /\ ~session.busy /\ day' = day + 1 /\ held' = OpenRows(owned)
  BY DEF Midnight, server, jobs
<1>2. EveningsWork' /\ day' \notin ran'
  BY <1>1 DEF EveningsWork
<1>3. RowsLast'
  BY <1>1 DEF RowsLast, OpenRows
<1>4. Complete(payments, ran)' /\ Told(payments, credited, closes, ran)'
  BY <1>1
<1>5. QED
  BY <1>1, <1>2, <1>3, <1>4

\* The inductive invariant of the jobs: when those of a day are committed, whoever
\* has held the position since the day began is in the table of payments, and
\* cash and the snapshots tell of the payments in it.
LEMMA JobsInvariant == DSpec => [](DTypeOK /\ JobsInv)
<1>1. DTypeOK /\ JobsInv /\ [DNext]_dvars => JobsInv'
  <2> SUFFICES ASSUME DTypeOK, JobsInv, [DNext]_dvars PROVE JobsInv'
    OBVIOUS
  <2>1. CASE \E a \in Actions : \E t \in Terms[a] : Fetch(a, t)
    BY <2>1, FetchStep
  <2>2. CASE \E u \in Users : LoadRow(u) \/ \E q \in Lots : BookLot(u, q)
    BY <2>2, LoadRowStep, BookLotStep
  <2>3. CASE BeginJobs \/ CommitJobs
    BY <2>3, BeginJobsStep, CommitJobsStep
  <2>4. CASE Midnight
    BY <2>4, MidnightStep
  <2>5. CASE LoseJobs \/ Crash \/ Restart \/ TheClose \/ UNCHANGED dvars
    <3>1. /\ UNCHANGED <<day, held, announced, owned, payments, credited, closes, ran>>
          /\ loaded' = loaded \/ loaded' = [u \in Users |-> NoneHeld]
          /\ session' = session \/ session' = Idle
          /\ evening => evening'
      BY <2>5 DEF LoseJobs, Crash, Restart, TheClose, dvars, clock, server, jobs
    <3>2. RowsLast'
      BY <3>1 DEF JobsInv, RowsLast
    <3>3. QED
      BY <3>1, <3>2, JobsAside
  <2>6. QED
    BY <2>1, <2>2, <2>3, <2>4, <2>5 DEF DNext
<1>2. QED
  BY JobsInit, <1>1, JobsTypeCorrect, PTL DEF DSpec

\* Whoever held the position when the ex-date began and holds it still when the
\* day ends is owed the dividend, unless the day's jobs were lost.
THEOREM HoldersArePaid == DSpec => HoldersAreEntitled
<1>1. JobsInv /\ [DNext]_dvars =>
        [day' # day /\ day \in ran =>
           \A a \in Effective(day), u \in held \cap OpenRows(owned) : payments[u][a] # <<>>]_dvars
  BY DEF JobsInv, Entitled
<1>2. QED
  BY <1>1, JobsInvariant, PTL DEF DSpec, HoldersAreEntitled

\* A payment waits past its payable date only while every evening is lost.
LEMMA NothingIsForgotten == JobsInv => NoneIsForgotten
<1> SUFFICES ASSUME JobsInv, NEW u \in Users, NEW a \in Actions, NEW i \in DOMAIN payments[u][a],
                    payments[u][a][i].paid = 0, NEW d \in ran, d >= payments[u][a][i].made
             PROVE  d < payments[u][a][i].payable
  BY DEF NoneIsForgotten
<1>1. AtMostOne(payments[u][a]) /\ OnTime(payments[u][a], ran)
  BY DEF JobsInv, Complete
<1>2. payments[u][a] # <<>>
  OBVIOUS
<1>3. i = 1
  BY <1>1, <1>2, TheOne
<1>4. QED
  BY <1>1, <1>2, <1>3 DEF OnTime

\* What a user was paid on the days of a set, day by day.
LEMMA DaysAddUp ==
  ASSUME NEW due, NEW u \in Users, \A a \in Actions : AtMostOne(due[u][a]),
         NEW R, IsFiniteSet(R), NEW f, \A e \in R : f[e] = Paid(due, u, {e})
  PROVE  SumFunctionOnSet(f, R) = Paid(due, u, R)
<1> DEFINE g(days) == [a \in Actions |-> PaidOn(due[u][a], days)]
           B == {T \in SUBSET R : SumFunctionOnSet(f, T) = Paid(due, u, T)}
<1>1. \A a \in Actions : \A days : PaidOn(due[u][a], days) \in Int
  BY OneAmount
<1>2. \A days : Paid(due, u, days) = SumFunctionOnSet(g(days), Actions) /\ \A a \in Actions : g(days)[a] \in Int
  BY <1>1 DEF Paid
<1>3. \A e \in R : f[e] \in Int
  <2> HIDE DEF g
  <2>1. \A days : SumFunctionOnSet(g(days), Actions) \in Int
    BY <1>2, JobsAssumption, SumType
  <2> SUFFICES ASSUME NEW e \in R PROVE f[e] \in Int
    OBVIOUS
  <2>2. f[e] = SumFunctionOnSet(g({e}), Actions)
    BY <1>2
  <2>3. QED
    BY <2>1, <2>2
<1>4. {} \in B
  <2>1. \A a \in Actions : g({})[a] = 0
    BY DEF PaidOn
  <2> HIDE DEF g
  <2>2. Paid(due, u, {}) = 0
    BY <1>2, <2>1, JobsAssumption, SumZero
  <2>3. QED
    BY <2>2, SumEmpty
<1>5. ASSUME NEW T \in SUBSET R, NEW x \in R \ T, T \in B PROVE T \cup {x} \in B
  <2>1. \A a \in Actions : g(T \cup {x})[a] = g({x})[a] + g(T)[a]
    <3> SUFFICES ASSUME NEW a \in Actions
                 PROVE  PaidOn(due[u][a], T \cup {x}) = PaidOn(due[u][a], {x}) + PaidOn(due[u][a], T)
      OBVIOUS
    <3>1. CASE due[u][a] = <<>>
      BY <3>1 DEF PaidOn
    <3>2. CASE due[u][a] # <<>>
      <4>1. due[u][a][1].amount \in Int
        BY <3>2, TheOne
      <4>2. QED
        BY <3>2, <4>1 DEF PaidOn
    <3>3. QED
      BY <3>1, <3>2
  <2> DEFINE h == g(T \cup {x})
             k == g({x})
             l == g(T)
  <2>2. Paid(due, u, T \cup {x}) = Paid(due, u, {x}) + Paid(due, u, T)
    <3>1. /\ Paid(due, u, T \cup {x}) = SumFunctionOnSet(h, Actions)
          /\ Paid(due, u, {x}) = SumFunctionOnSet(k, Actions)
          /\ Paid(due, u, T) = SumFunctionOnSet(l, Actions)
      BY <1>2
    <3>2. \A a \in Actions : k[a] \in Int /\ l[a] \in Int /\ h[a] = k[a] + l[a]
      BY <1>2, <2>1
    <3> HIDE DEF h, k, l
    <3>3. QED
      BY <3>1, <3>2, JobsAssumption, SumPlus
  <2>3. IsFiniteSet(T) /\ \A e \in T \cup {x} : f[e] \in Int
    BY <1>3, FS_Subset
  <2>4. SumFunctionOnSet(f, T \cup {x}) = f[x] + SumFunctionOnSet(f, T)
    BY <2>3, SumAdd
  <2>5. QED
    BY <1>5, <2>2, <2>4
<1>6. R \in B
  <2> HIDE DEF B
  <2>1. QED
    BY <1>4, <1>5, FiniteInduction
<1>7. QED
  BY <1>6

\* A closing snapshot's total is the sum of the incomes up to its day.
LEMMA SnapshotsAddUp ==
  ASSUME DTypeOK, JobsInv, NEW u \in Users, NEW d \in ran
  PROVE  closes[u][d].total
           = SumFunctionOnSet([e \in Days |-> closes[u][e].income], {e \in ran : e <= d})
<1> DEFINE R == {e \in ran : e <= d}
           f == [e \in Days |-> closes[u][e].income]
<1>1. \A a \in Actions : AtMostOne(payments[u][a]) /\ (payments[u][a] # <<>> => payments[u][a][1].paid \in ran \cup {0})
  BY DEF JobsInv, Complete, Told
<1>2. closes[u][d].total = Paid(payments, u, 1..d) /\ \A e \in ran : closes[u][e].income = Paid(payments, u, {e})
  BY DEF JobsInv, Told
<1>3. day \in Nat /\ ran \subseteq 1..day /\ ran \subseteq Days
  BY DEF JobsInv, EveningsWork, DTypeOK
<1>4. IsFiniteSet(R)
  <2>1. IsFiniteSet(1..day)
    BY <1>3, FS_Interval
  <2>2. QED
    BY <1>3, <2>1, FS_Subset
<1>5. \A e \in R : f[e] = Paid(payments, u, {e})
  BY <1>2, <1>3
<1>6. Paid(payments, u, 1..d) = Paid(payments, u, R)
  <2>0. \A x \in ran \cup {0} : x \in 1..d <=> x \in R
    BY <1>3
  <2>1. \A a \in Actions : PaidOn(payments[u][a], 1..d) = PaidOn(payments[u][a], R)
    <3> HIDE DEF R
    <3> SUFFICES ASSUME NEW a \in Actions, payments[u][a] # <<>>
                 PROVE  payments[u][a][1].paid \in 1..d <=> payments[u][a][1].paid \in R
      BY DEF PaidOn
    <3>1. payments[u][a][1].paid \in ran \cup {0}
      BY <1>1
    <3>2. QED
      BY <2>0, <3>1
  <2>2. [a \in Actions |-> PaidOn(payments[u][a], 1..d)] = [a \in Actions |-> PaidOn(payments[u][a], R)]
    BY <2>1
  <2>3. QED
    BY <2>2 DEF Paid
<1> HIDE DEF R, f
<1>7. SumFunctionOnSet(f, R) = Paid(payments, u, R)
  BY <1>1, <1>4, <1>5, DaysAddUp
<1>8. QED
  BY <1>2, <1>6, <1>7 DEF R, f

\* A position is paid once for an announcement, cash has received what the table
\* of payments says was paid, the incomes of the closing snapshots add up to
\* their totals, and no payment is left out of it.
THEOREM DividendsStayAddedUp == DSpec => []DividendsAddUp
<1>1. DTypeOK /\ JobsInv => DividendsAddUp
  <2> SUFFICES ASSUME DTypeOK, JobsInv PROVE DividendsAddUp
    OBVIOUS
  <2>1. PaidOnce
    <3>1. ASSUME NEW u \in Users, NEW a \in Actions
          PROVE  AtMostOne(payments[u][a]) /\ Len(payments[u][a]) <= 1
      <4>1. AtMostOne(payments[u][a])
        BY DEF JobsInv, Complete
      <4>2. payments[u][a] = <<>> => Len(payments[u][a]) = 0
        OBVIOUS
      <4>3. payments[u][a] # <<>> => Len(payments[u][a]) = 1
        BY <4>1 DEF AtMostOne
      <4>4. \A n : n = 0 \/ n = 1 => n <= 1
        OBVIOUS
      <4>5. Len(payments[u][a]) <= 1
        BY <4>2, <4>3, <4>4, Zenon
      <4>6. QED
        BY <4>1, <4>5
    <3>2. ASSUME NEW u \in Users
          PROVE  credited[u] = Sum(payments, u, LAMBDA p : p.paid # 0)
      <4> DEFINE S == Sum(payments, u, LAMBDA p : p.paid # 0)
      <4>1. S = Paid(payments, u, Nat \ {0})
        BY <3>1, UserSums
      <4>2. credited[u] = Paid(payments, u, Nat \ {0})
        BY DEF JobsInv, Told
      <4> HIDE DEF S
      <4>3. credited[u] = S
        BY <4>1, <4>2
      <4>4. QED
        BY <4>3 DEF S
    <3>3. QED
      BY <3>1, <3>2 DEF PaidOnce
  <2>2. IncomesAddUp
    BY SnapshotsAddUp DEF IncomesAddUp
  <2>3. QED
    BY <2>1, <2>2, NothingIsForgotten DEF DividendsAddUp
<1>2. QED
  BY <1>1, JobsInvariant, PTL

-----------------------------------------------------------------------------
(* The daily jobs: shares *)

\* For a whole rate, the program does to a quantity what the split does.
LEMMA WholeSplits ==
  ASSUME DTypeOK, NEW a \in Actions, IsSplit(announced[a]), IsWhole(announced[a]), NEW n \in Nat
  PROVE  (n * Ratio(announced[a]).new) \div Ratio(announced[a]).old
           = (n * announced[a].num) \div announced[a].den
<1> DEFINE t == announced[a]
           x == announced[a].num
           y == announced[a].den
<1>1. x \in Nat \ {0} /\ y \in Nat \ {0} /\ (x % y = 0 \/ y % x = 0)
  BY SplitTerms DEF IsWhole
<1>2. CASE t.kind = "forward_split"
  <2>1. x >= y
    BY <1>2, SplitTerms
  <2>2. Ratio(t).new = x \div y /\ Ratio(t).old = 1
    BY <1>2 DEF Ratio
  <2> HIDE DEF t, x, y
  <2>3. PICK k \in Nat : x = k * y
    <3>1. CASE x % y = 0
      <4>1. x = y * (x \div y) + (x % y) /\ x \div y \in Nat
        BY <1>1, Quotient
      <4>2. x = (x \div y) * y
        BY <1>1, <3>1, <4>1
      <4>3. QED
        BY <4>1, <4>2
    <3>2. CASE y % x = 0
      <4>1. y = x * (y \div x) + (y % x) /\ y \div x \in Nat
        BY <1>1, Quotient
      <4>2. PICK j \in Nat : y = x * j
        BY <1>1, <3>2, <4>1
      <4>3. j = 1
        BY <1>1, <2>1, <4>2
      <4>4. x = 1 * y
        BY <1>1, <4>2, <4>3
      <4>5. QED
        BY <4>4
    <3>3. QED
      BY <1>1, <3>1, <3>2
  <2>4. (n * x) \div y = n * k
    BY <1>1, <2>3, Whole
  <2>5. x \div y = k
    <3>1. (1 * (k * y)) \div y = 1 * k
      BY <1>1, <2>3, Whole
    <3>2. 1 * (k * y) = x /\ 1 * k = k
      BY <1>1, <2>3
    <3>3. QED
      BY <3>1, <3>2
  <2>6. (n * k) \div 1 = n * k
    <3>1. n * k \in Nat
      BY <2>3
    <3>2. QED
      BY <3>1, QuotientIs
  <2>7. QED
    BY <2>2, <2>4, <2>5, <2>6 DEF t, x, y
<1>3. CASE t.kind = "reverse_split"
  <2>1. x <= y
    BY <1>3, SplitTerms
  <2>2. Ratio(t).new = 1 /\ Ratio(t).old = y \div x
    BY <1>3 DEF Ratio
  <2> HIDE DEF t, x, y
  <2>3. PICK k \in Nat \ {0} : y = k * x
    <3>1. CASE y % x = 0
      <4>1. y = x * (y \div x) + (y % x) /\ y \div x \in Nat \ {0}
        BY <1>1, <2>1, Quotient, QuotientPositive
      <4>2. y = (y \div x) * x
        BY <1>1, <3>1, <4>1
      <4>3. QED
        BY <4>1, <4>2
    <3>2. CASE x % y = 0
      <4>1. x = y * (x \div y) + (x % y) /\ x \div y \in Nat
        BY <1>1, Quotient
      <4>2. PICK j \in Nat : x = y * j
        BY <1>1, <3>2, <4>1
      <4>3. j = 1
        BY <1>1, <2>1, <4>2
      <4>4. y = 1 * x
        BY <1>1, <4>2, <4>3
      <4>5. QED
        BY <4>4
    <3>3. QED
      BY <1>1, <3>1, <3>2
  <2>4. (n * x) \div y = n \div k
    BY <1>1, <2>3, Reduced
  <2>5. y \div x = k
    <3>1. (1 * (k * x)) \div x = 1 * k
      BY <1>1, <2>3, Whole
    <3>2. 1 * (k * x) = y /\ 1 * k = k
      BY <1>1, <2>3
    <3>3. QED
      BY <3>1, <3>2
  <2>6. n * 1 = n
    OBVIOUS
  <2>7. QED
    BY <2>2, <2>4, <2>5, <2>6 DEF t, x, y
<1>4. QED
  BY <1>2, <1>3 DEF IsSplit

LEMMA AdjustedIsSplit ==
  ASSUME DTypeOK, NEW q \in Nat, \A a \in Splits(day) : IsWhole(announced[a])
  PROVE  Adjusted(q) = SplitShares(q, day)
<1> DEFINE S == Splits(day)
           f == [a \in S |-> Ratio(announced[a])]
           g == [a \in S |-> [new |-> announced[a].num, old |-> announced[a].den]]
<1>1. IsFiniteSet(S) /\ f \in [S -> Ratios] /\ g \in [S -> Ratios]
  BY SplitRatios
<1>2. \A a \in S, n \in Nat : Step(f, a, n) = Step(g, a, n)
  <2>1. \A a \in S : a \in Actions /\ IsSplit(announced[a]) /\ IsWhole(announced[a])
    BY DEF Splits, Effective
  <2>2. QED
    BY <2>1, WholeSplits DEF Step
<1>3. Adjusted(q) = After(q, f) /\ SplitShares(q, day) = After(q, g)
  BY DEF Adjusted, SplitShares
<1> HIDE DEF S, f, g
<1>4. QED
  BY <1>1, <1>2, <1>3, AfterSame

\* A split of no shares, and no split.
LEMMA SplitNothing ==
  ASSUME DTypeOK, NEW d
  PROVE  SplitShares(0, d) = 0
BY SplitRatios, AfterNothing DEF SplitShares

LEMMA NoSplit ==
  ASSUME DTypeOK, NEW d, Splits(d) = {}, NEW q \in Nat
  PROVE  SplitShares(q, d) = q
<1> DEFINE f == [a \in Splits(d) |-> [new |-> announced[a].num, old |-> announced[a].den]]
<1>1. f \in [{} -> Ratios]
  BY SplitRatios
<1>2. SplitShares(q, d) = After(q, f)
  BY DEF SplitShares
<1> HIDE DEF f
<1>3. QED
  BY <1>1, <1>2, AfterNone

LEMMA SharesInit == DInit => SharesInv
<1> SUFFICES ASSUME DInit PROVE SharesInv
  OBVIOUS
<1>1. Splits(day) = {}
  <2>1. \A a \in Actions : ~IsSplit(announced[a])
    BY DEF DInit, IsSplit, NoTerms
  <2>2. QED
    BY <2>1 DEF Splits, Effective
<1>2. ~SplitDue(day)
  BY <1>1 DEF SplitDue
<1>3. QED
  BY <1>2 DEF DInit, SharesInv, NoneHeld, Idle

\* A step that announces no split of the day, and leaves rows and shares alone.
LEMMA SharesAside ==
  ASSUME SharesInv, Splits(day)' = Splits(day),
         \A a \in Splits(day) : announced'[a] = announced[a],
         UNCHANGED <<day, owned, ran, shares, disturbed>>,
         session'.busy => session' = session \/ session'.rows = owned
  PROVE  SharesInv'
<1>1. SplitDue(day)' <=> SplitDue(day)
  BY DEF SplitDue
<1>2. [a \in Splits(day) |-> [new |-> announced[a].num, old |-> announced[a].den]]'
        = [a \in Splits(day) |-> [new |-> announced[a].num, old |-> announced[a].den]]
  OBVIOUS
<1>3. \A u \in Users : SplitShares(owned[u].qty, day)' = SplitShares(owned[u].qty, day)
  BY <1>2 DEF SplitShares
<1>4. QED
  BY <1>1, <1>3 DEF SharesInv

LEMMA FetchKeepsSplits ==
  ASSUME DTypeOK, NEW a \in Actions, NEW t \in Terms[a], Fetch(a, t)
  PROVE  Splits(day)' = Splits(day) /\ \A x \in Splits(day) : announced'[x] = announced[x]
<1>1. /\ announced' = [announced EXCEPT ![a] = t] /\ day' = day
      /\ t.ex >= day /\ (IsSplit(t) => t.ex > day /\ (announced[a] = NoTerms \/ announced[a].ex > day))
  BY DEF Fetch, clock
<1>2. day \in Nat /\ DOMAIN announced = Actions /\ t.ex \in Nat /\ announced[a].ex \in Nat
  <2>1. day \in Nat /\ DOMAIN announced = Actions
    BY DEF DTypeOK, Days
  <2>2. t.ex \in Nat
    BY JobsAssumption DEF AnyTerms
  <2>3. QED
    BY <2>1, <2>2, TermsType
<1>3. a \notin Splits(day)
  <2> SUFFICES ASSUME IsSplit(announced[a]), announced[a].ex = day PROVE FALSE
    BY DEF Splits, Effective
  <2>1. announced[a] \in Terms[a] /\ announced[a] # NoTerms
    BY SplitTerms DEF NoTerms, IsSplit
  <2>2. IsSplit(t)
    BY <2>1, JobsAssumption
  <2>3. QED
    BY <1>1, <1>2, <2>1, <2>2
<1>4. announced'[a] = t /\ \A x \in Actions \ {a} : announced'[x] = announced[x]
  BY <1>1, <1>2
<1>5. a \notin Splits(day)'
  BY <1>1, <1>2, <1>4 DEF Splits, Effective
<1>6. \A x \in Actions \ {a} : x \in Splits(day)' <=> x \in Splits(day)
  BY <1>1, <1>4 DEF Splits, Effective
<1>7. QED
  BY <1>3, <1>4, <1>5, <1>6 DEF Splits, Effective

LEMMA BookLotShares ==
  ASSUME DTypeOK, SharesInv, NEW u \in Users, NEW change \in Lots, BookLot(u, change)
  PROVE  SharesInv'
<1> DEFINE qty == loaded[u].qty + change
<1>1. /\ qty \in 0..MaxShares
      /\ owned' = [owned EXCEPT ![u] = [status |-> IF qty = 0 THEN "closed" ELSE "open", qty |-> qty]]
      /\ shares' = [shares EXCEPT ![u] = @ + change]
      /\ disturbed' = IF loaded[u].qty # owned[u].qty \/ SplitDue(day) THEN disturbed \cup {u} ELSE disturbed
      /\ UNCHANGED <<day, ran, announced, session>>
  BY DEF BookLot, clock, server, jobs
<1>2. owned \in [Users -> Lot] /\ shares \in [Users -> Nat]
  BY DEF DTypeOK
<1>3. SplitDue(day)' <=> SplitDue(day)
  BY <1>1 DEF SplitDue, Splits, Effective
<1>4. ASSUME NEW v \in Users \ disturbed', v # u
      PROVE  /\ owned'[v].status # "open" => owned'[v].qty = 0
             /\ shares'[v] = IF SplitDue(day)' THEN SplitShares(owned[v].qty, day)' ELSE owned'[v].qty
             /\ session'.busy /\ SplitDue(day)' => session'.rows[v] = owned'[v]
  <2>1. v \in Users \ disturbed /\ owned'[v] = owned[v] /\ shares'[v] = shares[v]
    BY <1>1, <1>2, <1>4
  <2>2. SplitShares(owned[v].qty, day)' = SplitShares(owned[v].qty, day)
    BY <1>1, <2>1 DEF SplitShares, Splits, Effective
  <2>3. QED
    BY <1>1, <1>3, <2>1, <2>2 DEF SharesInv
<1>5. ASSUME u \notin disturbed'
      PROVE  /\ owned'[u].status # "open" => owned'[u].qty = 0
             /\ ~SplitDue(day)' /\ shares'[u] = owned'[u].qty
  <2>1. loaded[u].qty = owned[u].qty /\ ~SplitDue(day) /\ u \notin disturbed
    BY <1>1, <1>5
  <2>2. shares[u] = owned[u].qty
    BY <2>1 DEF SharesInv
  <2>3. owned'[u] = [status |-> IF qty = 0 THEN "closed" ELSE "open", qty |-> qty] /\ shares'[u] = shares[u] + change
    BY <1>1, <1>2
  <2>4. QED
    BY <1>3, <2>1, <2>2, <2>3
<1>6. QED
  BY <1>4, <1>5 DEF SharesInv

LEMMA CommitJobsShares ==
  ASSUME DTypeOK, SharesInv, CommitJobs
  PROVE  SharesInv'
<1> DEFINE adjusting == IF Splitting THEN OpenRows(session.rows) ELSE {}
<1>1. /\ owned' = [u \in Users |->
            IF u \in adjusting
            THEN [status |-> owned[u].status, qty |-> Adjusted(session.rows[u].qty)] ELSE owned[u]]
      /\ disturbed' = disturbed \cup {u \in adjusting : day \in ran \/ \E a \in Splits(day) : ~IsWhole(announced[a])}
      /\ session.busy /\ session' = Idle /\ ran' = ran \cup {day} /\ day' = day /\ shares' = shares
  BY DEF CommitJobs, clock
<1>2. ~SplitDue(day)' /\ ~session'.busy
  BY <1>1 DEF SplitDue, Idle
<1>3. SUFFICES ASSUME NEW u \in Users \ disturbed'
               PROVE  (owned'[u].status # "open" => owned'[u].qty = 0) /\ shares'[u] = owned'[u].qty
  BY <1>2 DEF SharesInv
<1>4. /\ u \in Users \ disturbed
      /\ u \in adjusting => day \notin ran /\ \A a \in Splits(day) : IsWhole(announced[a])
  BY <1>1
<1>5. /\ owned[u].status # "open" => owned[u].qty = 0
      /\ shares[u] = IF SplitDue(day) THEN SplitShares(owned[u].qty, day) ELSE owned[u].qty
      /\ SplitDue(day) => session.rows[u] = owned[u]
  BY <1>1, <1>4 DEF SharesInv
<1>6. owned[u].qty \in Nat
  BY DEF DTypeOK, Lot
<1>7. CASE u \in adjusting
  <2>1. SplitDue(day) /\ session.rows[u].status = "open"
    BY <1>4, <1>7 DEF Splitting, SplitDue, OpenRows
  <2>2. session.rows[u] = owned[u] /\ shares[u] = SplitShares(owned[u].qty, day)
    BY <1>5, <2>1
  <2>3. Adjusted(owned[u].qty) = SplitShares(owned[u].qty, day)
    BY <1>4, <1>6, <1>7, AdjustedIsSplit
  <2>4. owned'[u] = [status |-> owned[u].status, qty |-> Adjusted(session.rows[u].qty)]
    BY <1>1, <1>7
  <2>5. QED
    BY <1>1, <2>1, <2>2, <2>3, <2>4
<1>8. CASE u \notin adjusting
  <2>1. owned'[u] = owned[u]
    BY <1>1, <1>8
  <2>2. CASE SplitDue(day)
    <3>1. session.rows[u].status # "open"
      BY <1>8, <2>2 DEF Splitting, SplitDue, OpenRows
    <3>2. owned[u].qty = 0
      BY <1>5, <2>2, <3>1
    <3>3. shares[u] = 0
      BY <1>5, <2>2, <3>2, SplitNothing
    <3>4. QED
      BY <1>1, <2>1, <3>2, <3>3
  <2>3. CASE ~SplitDue(day)
    BY <1>1, <1>5, <2>1, <2>3
  <2>4. QED
    BY <2>2, <2>3
<1>9. QED
  BY <1>7, <1>8

LEMMA MidnightShares ==
  ASSUME DTypeOK, JobsInv, SharesInv, Midnight
  PROVE  SharesInv'
<1>1. /\ day' = day + 1 /\ ~session.busy /\ UNCHANGED <<session, ran, announced, owned>>
      /\ shares' = [u \in Users |-> SplitShares(shares[u], day + 1)]
      /\ disturbed' = IF SplitDue(day) THEN disturbed \cup OpenRows(owned) ELSE disturbed
  BY DEF Midnight, server, jobs
<1>2. day + 1 \notin ran
  BY DEF JobsInv, EveningsWork
<1>3. Splits(day)' = Splits(day + 1) /\ \A u \in Users : SplitShares(owned[u].qty, day)' = SplitShares(owned[u].qty, day + 1)
  BY <1>1 DEF Splits, Effective, SplitShares
<1>4. SplitDue(day)' <=> Splits(day + 1) # {}
  BY <1>1, <1>2, <1>3 DEF SplitDue
<1>5. SUFFICES ASSUME NEW u \in Users \ disturbed'
               PROVE  /\ owned[u].status # "open" => owned[u].qty = 0
                      /\ shares'[u] = IF SplitDue(day)' THEN SplitShares(owned[u].qty, day + 1) ELSE owned[u].qty
  BY <1>1, <1>3 DEF SharesInv
<1>6. /\ u \in Users \ disturbed
      /\ SplitDue(day) => owned[u].status # "open"
  BY <1>1 DEF OpenRows
<1>7. /\ owned[u].status # "open" => owned[u].qty = 0
      /\ shares[u] = IF SplitDue(day) THEN SplitShares(owned[u].qty, day) ELSE owned[u].qty
  BY <1>6 DEF SharesInv
<1>8. owned[u].qty \in Nat
  BY DEF DTypeOK, Lot
<1>9. shares[u] = owned[u].qty
  BY <1>6, <1>7, SplitNothing
<1>10. shares'[u] = SplitShares(owned[u].qty, day + 1)
  BY <1>1, <1>9
<1>11. Splits(day + 1) = {} => SplitShares(owned[u].qty, day + 1) = owned[u].qty
  BY <1>8, NoSplit
<1>12. QED
  BY <1>4, <1>7, <1>10, <1>11

\* The row of a user whom no fault has met has the shares of its owner, or the
\* ones that the day's split will make of it.
LEMMA SharesInvariant == DSpec => []SharesInv
<1>1. DTypeOK /\ JobsInv /\ SharesInv /\ [DNext]_dvars => SharesInv'
  <2> SUFFICES ASSUME DTypeOK, JobsInv, SharesInv, [DNext]_dvars PROVE SharesInv'
    OBVIOUS
  <2>1. CASE \E a \in Actions : \E t \in Terms[a] : Fetch(a, t)
    <3>1. PICK a \in Actions : \E t \in Terms[a] : Fetch(a, t)
      BY <2>1
    <3>2. PICK t \in Terms[a] : Fetch(a, t)
      BY <3>1
    <3>3. Splits(day)' = Splits(day) /\ \A x \in Splits(day) : announced'[x] = announced[x]
      BY <3>2, FetchKeepsSplits
    <3>4. UNCHANGED <<day, owned, ran, shares, disturbed, session>>
      BY <3>2 DEF Fetch, clock, server, jobs
    <3>5. QED
      BY <3>3, <3>4, SharesAside
  <2>2. CASE \E u \in Users : \E q \in Lots : BookLot(u, q)
    BY <2>2, BookLotShares
  <2>3. CASE CommitJobs \/ Midnight
    BY <2>3, CommitJobsShares, MidnightShares
  <2>4. CASE (\E u \in Users : LoadRow(u)) \/ BeginJobs \/ LoseJobs \/ Crash \/ Restart \/ TheClose \/ UNCHANGED dvars
    <3>1. /\ UNCHANGED <<day, owned, ran, shares, disturbed, announced>>
          /\ session'.busy => session' = session \/ session'.rows = owned
      BY <2>4 DEF LoadRow, BeginJobs, LoseJobs, Crash, Restart, TheClose, dvars, clock, server, jobs, Idle
    <3>2. Splits(day)' = Splits(day)
      BY <3>1 DEF Splits, Effective
    <3>3. QED
      BY <3>1, <3>2, SharesAside
  <2>5. QED
    BY <2>1, <2>2, <2>3, <2>4 DEF DNext
<1>2. QED
  BY SharesInit, <1>1, JobsInvariant, PTL DEF DSpec

\* A row has the shares its owner has, unless a split found one of five faults.
THEOREM SharesAreFollowed == DSpec => []SharesFollowSplits
<1>1. SharesInv => SharesFollowSplits
  BY DEF SharesInv, SharesFollowSplits
<1>2. QED
  BY <1>1, SharesInvariant, PTL

-----------------------------------------------------------------------------
(* Positions *)

USE PositionsAssumption

-----------------------------------------------------------------------------
(* Fills and rows *)

Fills == {Signed(side, qty) : side \in {"buy", "sell"}, qty \in Sizes}

LEMMA FillType == Fills \subseteq Int \ {0}
BY DEF Fills, Signed

LEMMA AbsType == \A x \in Int : Abs(x) \in Nat /\ (x # 0 => Abs(x) # 0)
BY DEF Abs

LEMMA ProductType == \A m, n \in Nat : m * n \in Nat
OBVIOUS

\* A row that is closed at a price.
ExpiredRow(row, intrinsic) ==
  [row EXCEPT !.status = "closed", !.net = 0, !.value = 0, !.price = intrinsic]

LEMMA ExpiredType ==
  ASSUME NEW row \in Row, NEW v \in Nat
  PROVE  ExpiredRow(row, v) \in Row
<1>1. [row EXCEPT !.status = "closed"] \in Row
  BY DEF Row
<1>2. \A r \in Row : [r EXCEPT !.net = 0] \in Row
  BY DEF Row
<1>3. \A r \in Row : [r EXCEPT !.value = 0] \in Row
  BY DEF Row
<1>4. \A r \in Row : [r EXCEPT !.price = v] \in Row
  BY DEF Row
<1>5. ExpiredRow(row, v) = [[[[row EXCEPT !.status = "closed"] EXCEPT !.net = 0] EXCEPT !.value = 0] EXCEPT !.price = v]
  BY DEF ExpiredRow
<1>6. QED
  BY <1>1, <1>2, <1>3, <1>4, <1>5

\* A row that a fill has made.
LEMMA AfterFillType ==
  ASSUME NEW row \in Row, NEW fill \in Int, NEW p \in Nat
  PROVE  AfterFill(row, fill, p) \in Row
<1>1. row.net \in Int /\ row.price \in Nat /\ Abs(fill) * p \in Nat
  BY AbsType, ProductType DEF Row
<1>2. Abs(row.net + fill) * row.price \in Nat
  BY <1>1, AbsType, ProductType
<1>3. CASE Scenario(row.net, fill) = "entry"
  BY <1>1, <1>3 DEF AfterFill, Row
<1>4. CASE Scenario(row.net, fill) \in {"scale_in", "scale_out"}
  <2>1. AfterFill(row, fill, p) = [row EXCEPT !.net = row.net + fill, !.value = Abs(row.net + fill) * row.price]
    BY <1>4 DEF AfterFill
  <2>2. row.net + fill \in Int
    BY <1>1
  <2>3. QED
    BY <1>2, <2>1, <2>2 DEF Row
<1>5. CASE Scenario(row.net, fill) \notin {"entry", "scale_in", "scale_out"}
  BY <1>5, ExpiredType DEF AfterFill, ExpiredRow
<1>6. QED
  BY <1>3, <1>4, <1>5

LEMMA MarkedType ==
  ASSUME NEW row \in Row, NEW p \in Nat
  PROVE  Marked(row, p) \in Row
<1>1. Abs(row.net) * p \in Nat
  BY AbsType, ProductType DEF Row
<1>2. QED
  BY <1>1 DEF Marked, Row

LEMMA NoRowType == NoRow \in Row
BY DEF NoRow, Row

\* What a flush writes: the columns that have changed since the load.
Merged(old, new, cur) == [c \in DOMAIN old |-> IF new[c] # old[c] THEN new[c] ELSE cur[c]]

LEMMA MergedColumns ==
  ASSUME NEW old \in Row, NEW new \in Row, NEW cur \in Row
  PROVE  /\ Merged(old, new, cur) \in Row
         /\ Merged(old, new, cur).status = IF new.status # old.status THEN new.status ELSE cur.status
         /\ Merged(old, new, cur).net    = IF new.net # old.net THEN new.net ELSE cur.net
         /\ Merged(old, new, cur).price  = IF new.price # old.price THEN new.price ELSE cur.price
         /\ Merged(old, new, cur).value  = IF new.value # old.value THEN new.value ELSE cur.value
         /\ Merged(old, new, cur).high   = IF new.high # old.high THEN new.high ELSE cur.high
         /\ Merged(old, new, cur).low    = IF new.low # old.low THEN new.low ELSE cur.low
BY DEF Row, Merged

\* A row that nobody else has changed becomes what was computed.
LEMMA MergedFresh ==
  ASSUME NEW old \in Row, NEW new \in Row
  PROVE  Merged(old, new, old) = new
BY DEF Row, Merged

LEMMA ViewType ==
  ASSUME TypeOK, NEW s, NEW id \in Ids
  PROVE  View(s, id) \in Row
BY DEF TypeOK, View

\* Two versions of a row are the same or a flush locks it.
LEMMA FlushIs ==
  ASSUME TypeOK, NEW s \in Sessions, NEW id \in Ids, NEW new \in Row, Flush(s, id, new)
  PROVE  \/ new = seen[s][id] /\ UNCHANGED <<holder, drafts, stale>>
         \/ /\ new # seen[s][id] /\ holder[id] \in {Nobody, s}
            /\ holder' = [holder EXCEPT ![id] = s]
            /\ drafts' = [drafts EXCEPT ![id] = Merged(seen[s][id], new, View(s, id))]
            /\ stale' = IF seen[s][id] # View(s, id) THEN stale \cup {id} ELSE stale
BY DEF Flush, locks, Merged

LEMMA FlushType ==
  ASSUME TypeOK, NEW s \in Sessions, NEW id \in Ids, NEW new \in Row, Flush(s, id, new)
  PROVE  /\ holder' \in [Ids -> Sessions \cup {Nobody}] /\ drafts' \in [Ids -> Row] /\ stale' \subseteq Ids
<1>1. seen[s][id] \in Row /\ View(s, id) \in Row
  BY ViewType DEF TypeOK
<1>2. Merged(seen[s][id], new, View(s, id)) \in Row
  BY <1>1, MergedColumns
<1>3. drafts' \in [Ids -> Row]
  BY <1>2, FlushIs DEF TypeOK
<1>4. holder' \in [Ids -> Sessions \cup {Nobody}] /\ stale' \subseteq Ids
  BY FlushIs DEF TypeOK
<1>5. QED
  BY <1>3, <1>4

LEMMA LoadType ==
  ASSUME TypeOK, NEW s \in Sessions, NEW ids, Load(s, ids)
  PROVE  seen' \in [Sessions -> [Ids -> Row]]
BY ViewType DEF TypeOK, Load

LEMMA DropType ==
  ASSUME TypeOK, NEW s \in Sessions, NEW id \in Ids, Drop(s, id)
  PROVE  seen' \in [Sessions -> [Ids -> Row]]
BY NoRowType DEF TypeOK, Drop

LEMMA ReleaseType ==
  ASSUME TypeOK, NEW s \in Sessions, Release(s)
  PROVE  /\ holder' \in [Ids -> Sessions \cup {Nobody}] /\ drafts' \in [Ids -> Row]
         /\ seen' \in [Sessions -> [Ids -> Row]]
BY NoRowType DEF TypeOK, Release, Nothing

LEMMA PublishType ==
  ASSUME TypeOK, NEW s \in Sessions, Publish(s)
  PROVE  /\ holder' \in [Ids -> Sessions \cup {Nobody}] /\ drafts' \in [Ids -> Row]
         /\ seen' \in [Sessions -> [Ids -> Row]] /\ rows' \in [Ids -> Row]
BY ReleaseType, ViewType DEF Publish

LEMMA SessionsAre == "consumer" \in Sessions /\ "mtm" \in Sessions /\ "jobs" \in Sessions /\ Nobody \notin Sessions
BY DEF Sessions, Nobody

LEMMA NoOrderIsNone == \A o \in Order : o # NoOrder /\ o.id \in Ids /\ o.fill \in Int
<1> SUFFICES ASSUME NEW o \in Order PROVE o # NoOrder /\ o.id \in Ids /\ o.fill \in Int
  OBVIOUS
<1>1. o.id \in Ids /\ o.fill \in Int
  BY DEF Order
<1>2. DOMAIN o # DOMAIN NoOrder
  BY DEF Order, NoOrder
<1>3. QED
  BY <1>1, <1>2

-----------------------------------------------------------------------------
(* Types *)

LEMMA NextType == TypeOK /\ [Next]_vars => TypeOK'
<1> SUFFICES ASSUME TypeOK, [Next]_vars PROVE TypeOK'
  OBVIOUS
<1> USE SessionsAre DEF TypeOK, tables, locks, books
<1>1. ASSUME NEW k \in Keys, NEW side \in {"buy", "sell"}, NEW qty \in Sizes, LoadPosition(k, Signed(side, qty))
      PROVE  TypeOK'
  <2>1. PICK id \in Ids : order' = [id |-> id, fill |-> Signed(side, qty)] /\ Load("consumer", {id})
    BY <1>1 DEF LoadPosition
  <2>2. order' \in Order
    <3>1. Signed(side, qty) \in Int
      BY FillType DEF Fills
    <3>2. QED
      BY <2>1, <3>1 DEF Order
  <2>3. seen' \in [Sessions -> [Ids -> Row]]
    BY <2>1, LoadType
  <2>4. QED
    BY <1>1, <2>2, <2>3 DEF LoadPosition
<1>2. ASSUME NEW p \in Prices, BookFill(p) PROVE TypeOK'
  <2> DEFINE id  == order.id
             row == seen["consumer"][id]
             new == AfterFill(row, order.fill, p)
  <2>1. id \in Ids /\ order.fill \in Int
    BY <1>2, NoOrderIsNone DEF BookFill
  <2>2. row \in Row
    BY <2>1
  <2> p \in Nat
    BY PositionsAssumption
  <2>3. new \in Row
    BY <2>1, <2>2, AfterFillType
  <2>4. Flush("consumer", id, new) /\ Drop("consumer", id)
    BY <1>2 DEF BookFill
  <2>5. /\ holder' \in [Ids -> Sessions \cup {Nobody}] /\ drafts' \in [Ids -> Row] /\ stale' \subseteq Ids
        /\ seen' \in [Sessions -> [Ids -> Row]]
    BY <2>1, <2>3, <2>4, FlushType, DropType
  <2>6. moved' \in Int
    BY <1>2, <2>1, <2>2 DEF BookFill, CashDelta
  <2>7. pending' \in [Ids -> Int]
    BY <1>2, <2>1 DEF BookFill, NetAfter
  <2>8. odd' \in BOOLEAN
    BY <1>2, Zenon DEF BookFill, Odd
  <2>9. QED
    BY <1>2, <2>5, <2>6, <2>7, <2>8 DEF BookFill
<1>3. CASE CommitFills
  <2>1. odd' = FALSE
    BY <1>3, Zenon DEF CommitFills
  <2>2. odd' \in BOOLEAN
    BY <2>1
  <2>3. cash' \in Int /\ moved' \in Int /\ booked' \in [Ids -> Int] /\ UNCHANGED <<order, pending, stale, marked>>
    BY <1>3 DEF CommitFills
  <2>4. Publish("consumer")
    BY <1>3 DEF CommitFills
  <2>5. QED
    BY <2>2, <2>3, <2>4, PublishType
<1>4. CASE AbortFills
  <2>1. odd' = FALSE
    BY <1>4, Zenon DEF AbortFills
  <2>2. odd' \in BOOLEAN
    BY <2>1
  <2>3. /\ moved' \in Int /\ pending' \in [Ids -> Int] /\ order' \in Order \cup {NoOrder}
        /\ UNCHANGED <<rows, cash, booked, stale, marked>>
    BY <1>4 DEF AbortFills
  <2>4. Release("consumer")
    BY <1>4 DEF AbortFills
  <2>5. QED
    BY <2>2, <2>3, <2>4, ReleaseType
<1>5. CASE BeginMark
  BY <1>5, LoadType DEF BeginMark
<1>6. ASSUME NEW id \in Ids, NEW p \in Prices, MarkRow(id, p) PROVE TypeOK'
  <2> p \in Nat
    BY PositionsAssumption
  <2>1. seen["mtm"][id] \in Row
    OBVIOUS
  <2>2. Marked(seen["mtm"][id], p) \in Row
    BY <2>1, MarkedType
  <2>3. /\ holder' \in [Ids -> Sessions \cup {Nobody}] /\ drafts' \in [Ids -> Row] /\ stale' \subseteq Ids
        /\ seen' \in [Sessions -> [Ids -> Row]]
    BY <1>6, <2>2, FlushType, DropType DEF MarkRow
  <2>4. marked' \subseteq Ids
    BY <1>6 DEF MarkRow
  <2>5. QED
    BY <1>6, <2>3, <2>4 DEF MarkRow
<1>7. ASSUME NEW id \in Ids, SkipRow(id) PROVE TypeOK'
  BY <1>7, DropType DEF SkipRow
<1>8. CASE CommitMark
  BY <1>8, PublishType DEF CommitMark
<1>9. CASE AbortMark
  BY <1>9, ReleaseType DEF AbortMark
<1>10. CASE BeginExpirations
  BY <1>10, LoadType DEF BeginExpirations
<1>11. ASSUME NEW id \in Ids, NEW v \in Prices \cup {0}, Expire(id, v) PROVE TypeOK'
  <2>1. seen["jobs"][id] \in Row /\ v \in Nat
    OBVIOUS
  <2>2. ExpiredRow(seen["jobs"][id], v) \in Row
    BY <2>1, ExpiredType
  <2>3. Flush("jobs", id, ExpiredRow(seen["jobs"][id], v)) /\ Drop("jobs", id)
    BY <1>11 DEF Expire, ExpiredRow
  <2>4. /\ holder' \in [Ids -> Sessions \cup {Nobody}] /\ drafts' \in [Ids -> Row] /\ stale' \subseteq Ids
        /\ seen' \in [Sessions -> [Ids -> Row]]
    BY <2>2, <2>3, FlushType, DropType
  <2>5. QED
    BY <1>11, <2>4 DEF Expire
<1>12. ASSUME NEW id \in Ids, KeepOption(id) PROVE TypeOK'
  BY <1>12, DropType DEF KeepOption
<1>13. CASE CommitExpirations
  BY <1>13, PublishType DEF CommitExpirations
<1>14. CASE AbortExpirations
  BY <1>14, ReleaseType DEF AbortExpirations
<1>15. CASE UNCHANGED vars
  BY <1>15 DEF vars
<1>16. QED
  BY <1>1, <1>2, <1>3, <1>4, <1>5, <1>6, <1>7, <1>8, <1>9, <1>10, <1>11, <1>12, <1>13, <1>14, <1>15 DEF Next

\* Rows, drafts, what sessions have loaded and the histories keep their types.
THEOREM TypeCorrect == Spec => []TypeOK
<1>1. Init => TypeOK
  <2> SUFFICES ASSUME Init PROVE TypeOK
    OBVIOUS
  <2>1. Nothing \in [Ids -> Row]
    BY NoRowType DEF Nothing
  <2>2. odd \in BOOLEAN
    BY Zenon DEF Init
  <2>3. /\ rows \in [Ids -> Row] /\ drafts \in [Ids -> Row] /\ seen \in [Sessions -> [Ids -> Row]]
        /\ holder \in [Ids -> Sessions \cup {Nobody}]
    BY <2>1 DEF Init
  <2>4. /\ cash \in Int /\ moved \in Int /\ order \in Order \cup {NoOrder}
        /\ booked \in [Ids -> Int] /\ pending \in [Ids -> Int] /\ stale \subseteq Ids /\ marked \subseteq Ids
    BY DEF Init
  <2>5. QED
    BY <2>2, <2>3, <2>4 DEF TypeOK
<1>2. QED
  BY <1>1, NextType, PTL DEF Spec

-----------------------------------------------------------------------------
(* What the sessions make of a row *)

\* The columns of a row after a fill.
LEMMA AfterFillColumns ==
  ASSUME NEW row \in Row, NEW fill \in Int \ {0}, NEW p \in Nat
  PROVE  LET new == AfterFill(row, fill, p) IN
         /\ new.net = NetAfter(row.net, fill) /\ new.net # row.net
         /\ row.net = 0 => /\ new.status = "open" /\ new.net # 0 /\ new.value = Abs(new.net) * new.price
                           /\ new.low = new.price /\ new.high = new.price
         /\ row.net # 0 =>
              \/ /\ new.status = row.status /\ new.net # 0 /\ SamePrices(new, row)
                 /\ new.value = Abs(new.net) * row.price
              \/ new.status = "closed" /\ new.net = 0 /\ new.value = 0
<1> DEFINE new == AfterFill(row, fill, p)
<1>1. row.net \in Int
  BY DEF Row
<1>2. CASE Scenario(row.net, fill) = "entry"
  <2>1. row.net = 0 /\ NetAfter(row.net, fill) = fill
    BY <1>1, <1>2 DEF Scenario, NetAfter
  <2>2. new = [status |-> "open", net |-> fill, price |-> p, value |-> Abs(fill) * p, high |-> p, low |-> p]
    BY <1>2 DEF AfterFill
  <2>3. QED
    BY <2>1, <2>2
<1>3. CASE Scenario(row.net, fill) \in {"scale_in", "scale_out"}
  <2>1. row.net # 0 /\ NetAfter(row.net, fill) = row.net + fill /\ row.net + fill # 0 /\ row.net + fill # row.net
    BY <1>1, <1>3 DEF Scenario, NetAfter, SameSide, Abs
  <2>2. new = [row EXCEPT !.net = row.net + fill, !.value = Abs(row.net + fill) * row.price]
    BY <1>3 DEF AfterFill
  <2>3. /\ new.net = row.net + fill /\ new.value = Abs(row.net + fill) * row.price
        /\ new.status = row.status /\ new.price = row.price /\ new.high = row.high /\ new.low = row.low
    BY <2>2 DEF Row
  <2>4. QED
    BY <2>1, <2>3 DEF SamePrices
<1>4. CASE Scenario(row.net, fill) = "full_exit"
  <2>1. row.net # 0 /\ NetAfter(row.net, fill) = 0
    BY <1>1, <1>4 DEF Scenario, NetAfter
  <2>2. new = ExpiredRow(row, p)
    BY <1>4 DEF AfterFill, ExpiredRow
  <2>3. new.status = "closed" /\ new.net = 0 /\ new.value = 0
    BY <2>2 DEF ExpiredRow, Row
  <2>4. QED
    BY <2>1, <2>3
<1>5. QED
  BY <1>2, <1>3, <1>4 DEF Scenario

LEMMA MarkedColumns ==
  ASSUME NEW row \in Row, NEW p \in Nat
  PROVE  LET new == Marked(row, p) IN
         /\ new.status = row.status /\ new.net = row.net /\ new.price = p /\ new.value = Abs(row.net) * p
         /\ row.low <= row.high => new.low <= p /\ p <= new.high
BY DEF Marked, Row

LEMMA ExpiredColumns ==
  ASSUME NEW row \in Row, NEW v \in Nat
  PROVE  ExpiredRow(row, v).status = "closed" /\ ExpiredRow(row, v).net = 0 /\ ExpiredRow(row, v).value = 0
BY DEF ExpiredRow, Row

-----------------------------------------------------------------------------
(* Steps of the consumer *)

LEMMA LoadPositionInv ==
  ASSUME TypeOK, PositionsInv, NEW k \in Keys, NEW fill \in Int \ {0}, LoadPosition(k, fill)
  PROVE  PositionsInv'
<1> USE SessionsAre DEF tables, locks, books
<1>1. UNCHANGED <<rows, drafts, holder, booked, pending, stale, marked>>
  BY DEF LoadPosition
<1>2. VersionsSound' /\ DraftsFollow' /\ VersionsAgree'
  BY <1>1 DEF PositionsInv, VersionsSound, Sound, View, DraftsFollow, SamePrices, VersionsAgree, Agrees
<1>3. SeenLasts'
  <2>1. PICK id \in Ids : /\ View("consumer", id).status = "open" \/ View("consumer", id) = NoRow
                          /\ order' = [id |-> id, fill |-> fill]
                          /\ Load("consumer", {id})
    BY DEF LoadPosition, Open
  <2>2. seen'["consumer"][id] = View("consumer", id) /\ seen'["mtm"] = seen["mtm"] /\ seen'["jobs"] = seen["jobs"]
    BY <2>1 DEF Load, TypeOK
  <2>3. View("consumer", id)' = View("consumer", id)
    BY <1>1 DEF View
  <2>4. View("consumer", id).status = "open" => View("consumer", id).net # 0
    BY DEF PositionsInv, VersionsSound, Sound
  <2>5. order'.id = id /\ order'.fill = fill
    BY <2>1
  <2>6. QED
    BY <1>1, <2>1, <2>2, <2>3, <2>4, <2>5 DEF PositionsInv, SeenLasts, SamePrices
<1>4. QED
  BY <1>2, <1>3 DEF PositionsInv

LEMMA BookFillInv ==
  ASSUME TypeOK, PositionsInv, NEW p \in Nat, BookFill(p)
  PROVE  PositionsInv'
<1> USE SessionsAre DEF tables, locks, books
<1> DEFINE id  == order.id
           row == seen["consumer"][id]
           cur == View("consumer", id)
           new == AfterFill(row, order.fill, p)
           out == Merged(row, new, cur)
<1>1. id \in Ids /\ order.fill \in Int \ {0} /\ order \in Order
  BY NoOrderIsNone DEF TypeOK, BookFill, PositionsInv, SeenLasts
<1>2. row \in Row /\ cur \in Row
  BY <1>1, ViewType DEF TypeOK
<1>3. new \in Row
  BY <1>1, <1>2, AfterFillType
<1>4. new.net # row.net /\ new # row
  BY <1>1, <1>2, AfterFillColumns
<1>5. Flush("consumer", id, new)
  BY DEF BookFill
<1>6. /\ holder[id] \in {Nobody, "consumer"} /\ holder' = [holder EXCEPT ![id] = "consumer"]
      /\ drafts' = [drafts EXCEPT ![id] = out]
      /\ stale' = IF row # cur THEN stale \cup {id} ELSE stale
  BY <1>1, <1>3, <1>4, <1>5, FlushIs
<1>7. /\ UNCHANGED <<rows, booked, marked>> /\ order' = NoOrder
      /\ pending' = [pending EXCEPT ![id] = NetAfter(@, order.fill)]
      /\ seen'["mtm"] = seen["mtm"] /\ seen'["jobs"] = seen["jobs"]
  BY <1>1 DEF BookFill, Drop, TypeOK
<1>8. \/ row = NoRow /\ cur = NoRow
      \/ /\ row.status = "open" /\ row.net # 0 /\ cur.status # "none"
         /\ cur.status = "open" => cur.net = row.net
  BY DEF BookFill, PositionsInv, SeenLasts
<1>9. pending'[id] = NetAfter(pending[id], order.fill)
  BY <1>1, <1>7 DEF TypeOK
<1> HIDE DEF id, row, cur, new, out
\* The version that the consumer's session has now.
<1>10. /\ Sound(out, pending'[id]) /\ out.status # "none"
       /\ cur.status = "closed" => out.status = "closed"
       /\ cur.status = "open" /\ out.status = "open" => SamePrices(out, cur)
       /\ row = cur => Agrees(out)
  <2>1. Sound(cur, pending[id])
    BY <1>1 DEF PositionsInv, VersionsSound, cur
  <2>2. CASE row = NoRow /\ cur = NoRow
    <3>1. pending[id] = 0 /\ row.net = 0
      BY <2>1, <2>2 DEF Sound, NoRow
    <3>2. out = new
      BY <1>2, <1>3, <2>2, MergedFresh DEF out
    <3>3. new.net = pending'[id]
      BY <1>1, <1>2, <1>9, <3>1, AfterFillColumns DEF new
    <3>4. /\ new.status = "open" /\ new.net # 0 /\ new.value = Abs(new.net) * new.price
          /\ new.low = new.price /\ new.high = new.price
      BY <1>1, <1>2, <3>1, AfterFillColumns DEF new
    <3>5. new.low <= new.price /\ new.price <= new.high
      BY <1>3, <3>4 DEF Row
    <3>6. cur.status = "none"
      BY <2>2 DEF NoRow
    <3>7. QED
      BY <3>2, <3>3, <3>4, <3>5, <3>6 DEF Sound, Agrees
  <2>3. CASE /\ row.status = "open" /\ row.net # 0 /\ cur.status # "none"
             /\ cur.status = "open" => cur.net = row.net
    <3>1. /\ out.status = IF new.status # row.status THEN new.status ELSE cur.status
          /\ out.net    = IF new.net # row.net THEN new.net ELSE cur.net
          /\ out.price  = IF new.price # row.price THEN new.price ELSE cur.price
          /\ out.value  = IF new.value # row.value THEN new.value ELSE cur.value
          /\ out.high   = IF new.high # row.high THEN new.high ELSE cur.high
          /\ out.low    = IF new.low # row.low THEN new.low ELSE cur.low
      BY <1>2, <1>3, MergedColumns DEF out
    <3>2. /\ new.net = NetAfter(row.net, order.fill)
          /\ \/ /\ new.status = row.status /\ new.net # 0 /\ SamePrices(new, row)
                /\ new.value = Abs(new.net) * row.price
             \/ new.status = "closed" /\ new.net = 0 /\ new.value = 0
      BY <1>1, <1>2, <2>3, AfterFillColumns DEF new
    <3>3. row = cur => out = new
      BY <1>2, <1>3, MergedFresh DEF out
    <3>4. CASE new.status = row.status /\ new.net # 0 /\ SamePrices(new, row) /\ new.value = Abs(new.net) * row.price
      <4>1. out.status = cur.status /\ out.net = new.net /\ SamePrices(out, cur)
        BY <1>4, <3>1, <3>4 DEF SamePrices
      <4>2. cur.status = "open" => pending'[id] = out.net
        BY <1>9, <2>1, <2>3, <3>2, <4>1 DEF Sound
      <4>3. Sound(out, pending'[id])
        BY <2>1, <2>3, <3>4, <4>1, <4>2 DEF Sound, SamePrices
      <4>4. row = cur => Agrees(out)
        BY <2>3, <3>3, <3>4 DEF Agrees, SamePrices
      <4>5. QED
        BY <2>3, <4>1, <4>3, <4>4
    <3>5. CASE new.status = "closed" /\ new.net = 0 /\ new.value = 0
      <4>1. out.status = "closed"
        BY <2>3, <3>1, <3>5
      <4>2. QED
        BY <3>3, <3>5, <4>1 DEF Sound, Agrees
    <3>6. QED
      BY <3>2, <3>4, <3>5
  <2>4. QED
    BY <1>8, <2>2, <2>3
<1>11. cur = IF holder[id] = "consumer" THEN drafts[id] ELSE rows[id]
  BY DEF cur, View
<1>12. /\ holder'[id] = "consumer" /\ drafts'[id] = out
       /\ \A i \in Ids \ {id} : holder'[i] = holder[i] /\ drafts'[i] = drafts[i] /\ pending'[i] = pending[i]
  BY <1>1, <1>6, <1>7 DEF TypeOK
<1>13. VersionsSound'
  BY <1>7, <1>10, <1>12 DEF PositionsInv, VersionsSound, View
<1>14. DraftsFollow'
  <2>1. out.status = "open" /\ rows[id].status = "open" => SamePrices(out, rows[id])
    <3>1. cur.status \in {"none", "open", "closed"}
      BY <1>2 DEF Row
    <3>2. rows[id].status = "open" => cur.status # "none"
      BY <1>1, <1>6, <1>11 DEF PositionsInv, DraftsFollow, Nobody
    <3>3. cur.status = "open" /\ rows[id].status = "open" => SamePrices(cur, rows[id])
      BY <1>1, <1>6, <1>11 DEF PositionsInv, DraftsFollow, SamePrices, Nobody
    <3>4. QED
      BY <1>10, <3>1, <3>2, <3>3 DEF SamePrices
  <2>2. rows[id].status = "closed" => out.status = "closed"
    BY <1>1, <1>6, <1>10, <1>11 DEF PositionsInv, DraftsFollow, Nobody
  <2>3. QED
    BY <1>7, <1>10, <1>12, <2>1, <2>2 DEF PositionsInv, DraftsFollow, SamePrices
<1>15. SeenLasts'
  BY <1>6, <1>7, <1>12 DEF PositionsInv, SeenLasts, SamePrices
<1>16. VersionsAgree'
  BY <1>6, <1>7, <1>10, <1>12 DEF PositionsInv, VersionsAgree
<1>17. QED
  BY <1>13, <1>14, <1>15, <1>16 DEF PositionsInv

\* What a session's end leaves of the locks.
LEMMA Released ==
  ASSUME TypeOK, NEW s \in Sessions, Release(s)
  PROVE  /\ \A id \in Ids : IF holder[id] = s THEN holder'[id] = Nobody
                             ELSE holder'[id] = holder[id] /\ drafts'[id] = drafts[id]
         /\ \A id \in Ids : seen'[s][id] = NoRow
         /\ \A t \in Sessions \ {s} : seen'[t] = seen[t]
BY DEF Release, Locked, Nothing, TypeOK

LEMMA Published ==
  ASSUME TypeOK, NEW s \in Sessions, Publish(s)
  PROVE  \A id \in Ids : rows'[id] = IF holder[id] = s THEN drafts[id] ELSE rows[id]
BY DEF Publish, View

LEMMA CommitFillsInv ==
  ASSUME TypeOK, PositionsInv, CommitFills
  PROVE  PositionsInv'
<1>1. order = NoOrder /\ booked' = pending /\ UNCHANGED <<order, pending, stale, marked>>
  BY DEF CommitFills
<1>2. Publish("consumer") /\ Release("consumer")
  BY DEF CommitFills, Publish
<1>3. \A id \in Ids : /\ rows'[id] = IF holder[id] = "consumer" THEN drafts[id] ELSE rows[id]
                      /\ IF holder[id] = "consumer" THEN holder'[id] = Nobody
                          ELSE holder'[id] = holder[id] /\ drafts'[id] = drafts[id]
  BY <1>2, SessionsAre, Released, Published
<1>4. seen'["mtm"] = seen["mtm"] /\ seen'["jobs"] = seen["jobs"]
  BY <1>2, SessionsAre, Released DEF Sessions
<1> USE SessionsAre, <1>1, <1>3
<1>5. VersionsSound'
  BY DEF PositionsInv, VersionsSound, View
<1>6. DraftsFollow'
  BY DEF PositionsInv, DraftsFollow, SamePrices, Nobody
<1>7. SeenLasts'
  <2>1. \A id \in Ids : rows[id].status \in {"none", "open", "closed"}
    BY DEF TypeOK, Row
  <2>2. QED
    BY <1>4, <2>1 DEF PositionsInv, DraftsFollow, SeenLasts, SamePrices, Nobody
<1>8. VersionsAgree'
  BY DEF PositionsInv, VersionsAgree, TypeOK, Nobody
<1>9. QED
  BY <1>5, <1>6, <1>7, <1>8 DEF PositionsInv

LEMMA AbortFillsInv ==
  ASSUME TypeOK, PositionsInv, AbortFills
  PROVE  PositionsInv'
<1>1. order' = NoOrder /\ pending' = booked /\ UNCHANGED <<rows, booked, stale, marked>>
  BY DEF AbortFills, tables
<1>2. Release("consumer")
  BY DEF AbortFills
<1>3. \A id \in Ids : IF holder[id] = "consumer" THEN holder'[id] = Nobody
                      ELSE holder'[id] = holder[id] /\ drafts'[id] = drafts[id]
  BY <1>2, SessionsAre, Released
<1>4. seen'["mtm"] = seen["mtm"] /\ seen'["jobs"] = seen["jobs"]
  BY <1>2, SessionsAre, Released DEF Sessions
<1> USE SessionsAre, <1>1, <1>3
<1>5. VersionsSound'
  BY DEF PositionsInv, VersionsSound, View
<1>6. DraftsFollow'
  BY DEF PositionsInv, DraftsFollow, SamePrices, Nobody
<1>7. SeenLasts'
  BY <1>4 DEF PositionsInv, SeenLasts, SamePrices, Nobody
<1>8. VersionsAgree'
  BY DEF PositionsInv, VersionsAgree, TypeOK, Nobody
<1>9. QED
  BY <1>5, <1>6, <1>7, <1>8 DEF PositionsInv

-----------------------------------------------------------------------------
(* Steps of mark-to-market *)

LEMMA StatusIs == ASSUME TypeOK PROVE \A id \in Ids : rows[id].status \in {"none", "open", "closed"}
BY DEF TypeOK, Row

LEMMA BeginMarkInv ==
  ASSUME TypeOK, PositionsInv, BeginMark
  PROVE  PositionsInv'
<1>1. UNCHANGED <<rows, drafts, holder, order, booked, pending, stale, marked>>
  BY DEF BeginMark, tables, locks, books
<1>2. VersionsSound' /\ DraftsFollow' /\ VersionsAgree'
  BY <1>1 DEF PositionsInv, VersionsSound, View, DraftsFollow, SamePrices, VersionsAgree
<1>3. \A id \in Ids : /\ holder[id] # "mtm"
                      /\ seen'["mtm"][id] = IF rows[id].status = "open" THEN rows[id] ELSE NoRow
  <2>1. \A id \in Ids : holder[id] # "mtm" /\ seen["mtm"][id] = NoRow
    BY DEF BeginMark, Locked, Loaded
  <2>2. Load("mtm", Open("mtm"))
    BY DEF BeginMark
  <2>3. QED
    BY <2>1, <2>2, SessionsAre DEF Load, Open, View, TypeOK
<1>4. seen'["consumer"] = seen["consumer"] /\ seen'["jobs"] = seen["jobs"]
  BY SessionsAre DEF BeginMark, Load, TypeOK
<1>5. SeenLasts'
  <2>1. \A id \in Ids : rows[id].status = "open" => rows[id].low <= rows[id].high
    <3>1. \A id \in Ids : rows[id].low \in Nat /\ rows[id].high \in Nat /\ rows[id].price \in Nat
      BY DEF TypeOK, Row
    <3>2. QED
      BY <3>1 DEF PositionsInv, VersionsSound, Sound
  <2>2. NoRow.status = "none"
    BY DEF NoRow
  <2>3. QED
    BY <1>1, <1>3, <1>4, <2>1, <2>2 DEF PositionsInv, SeenLasts, SamePrices, View
<1>6. QED
  BY <1>2, <1>5 DEF PositionsInv

LEMMA MarkRowInv ==
  ASSUME TypeOK, PositionsInv, NEW id \in Ids, NEW p \in Nat, MarkRow(id, p)
  PROVE  PositionsInv'
<1> DEFINE row == seen["mtm"][id]
           new == Marked(row, p)
           out == Merged(row, new, rows[id])
<1>1. row \in Row /\ rows[id] \in Row /\ row # NoRow
  BY SessionsAre DEF TypeOK, MarkRow
<1>2. new \in Row
  BY <1>1, MarkedType
<1>3. Flush("mtm", id, new) /\ Drop("mtm", id) /\ UNCHANGED <<rows, order, booked, pending>>
  BY DEF MarkRow, tables, books
<1>4. /\ holder[id] # "mtm" /\ rows[id].status # "none" /\ row.status = "open" /\ row.low <= row.high
      /\ rows[id].status = "open" => SamePrices(row, rows[id])
  BY <1>1 DEF PositionsInv, SeenLasts
<1>5. View("mtm", id) = rows[id]
  BY <1>4 DEF View
<1>6. /\ marked' = IF row = rows[id] /\ new # row THEN marked \cup {id} ELSE marked
  BY <1>5 DEF MarkRow
<1>7. /\ seen'["mtm"][id] = NoRow
      /\ \A i \in Ids \ {id} : seen'["mtm"][i] = seen["mtm"][i]
      /\ seen'["consumer"] = seen["consumer"] /\ seen'["jobs"] = seen["jobs"]
  BY <1>3, SessionsAre DEF Drop, TypeOK
<1>8. CASE new = row /\ UNCHANGED <<holder, drafts, stale>>
  <2>1. marked' = marked
    BY <1>6, <1>8
  <2>2. VersionsSound' /\ DraftsFollow' /\ VersionsAgree'
    BY <1>3, <1>8, <2>1 DEF PositionsInv, VersionsSound, View, DraftsFollow, SamePrices, VersionsAgree
  <2>3. SeenLasts'
    BY <1>3, <1>7, <1>8 DEF PositionsInv, SeenLasts, SamePrices, View
  <2>4. QED
    BY <2>2, <2>3 DEF PositionsInv
<1>9. CASE /\ new # row /\ holder[id] \in {Nobody, "mtm"}
           /\ holder' = [holder EXCEPT ![id] = "mtm"]
           /\ drafts' = [drafts EXCEPT ![id] = out]
           /\ stale' = IF row # rows[id] THEN stale \cup {id} ELSE stale
  <2>1. /\ holder[id] = Nobody /\ holder'[id] = "mtm" /\ drafts'[id] = out
        /\ \A i \in Ids \ {id} : holder'[i] = holder[i] /\ drafts'[i] = drafts[i]
    BY <1>4, <1>9 DEF TypeOK
  <2>2. /\ new.status = row.status /\ new.net = row.net /\ new.price = p /\ new.value = Abs(row.net) * p
        /\ new.low <= p /\ p <= new.high
    BY <1>1, <1>4, MarkedColumns
  <2> HIDE DEF row, new, out
  <2>3. /\ out.status = IF new.status # row.status THEN new.status ELSE rows[id].status
        /\ out.net    = IF new.net # row.net THEN new.net ELSE rows[id].net
        /\ out.price  = IF new.price # row.price THEN new.price ELSE rows[id].price
        /\ out.high   = IF new.high # row.high THEN new.high ELSE rows[id].high
        /\ out.low    = IF new.low # row.low THEN new.low ELSE rows[id].low
    BY <1>1, <1>2, MergedColumns DEF out
  <2>4. out.status = rows[id].status /\ out.net = rows[id].net
    BY <2>2, <2>3
  <2>5. rows[id].status = "open" => out.low <= out.price /\ out.price <= out.high
    BY <1>4, <2>2, <2>3 DEF SamePrices
  <2>6. row = rows[id] => Agrees(out)
    <3>1. row = rows[id] => out = new
      BY <1>1, <1>2, MergedFresh DEF out
    <3>2. QED
      BY <1>4, <2>2, <3>1 DEF Agrees
  <2>7. VersionsSound'
    BY <1>3, <2>1, SessionsAre DEF PositionsInv, VersionsSound, View, Nobody
  <2>8. DraftsFollow'
    BY <1>3, <1>4, <2>1, <2>4, <2>5, SessionsAre DEF PositionsInv, DraftsFollow, SamePrices, Nobody
  <2>9. SeenLasts'
    <3>1. order # NoOrder => order.id \in Ids
      BY NoOrderIsNone DEF TypeOK
    <3>2. order # NoOrder => View("consumer", order.id)' = View("consumer", order.id)
      BY <1>3, <2>1, <3>1 DEF View, Nobody
    <3>3. QED
      BY <1>3, <1>7, <2>1, <3>2 DEF PositionsInv, SeenLasts, SamePrices
  <2>10. VersionsAgree'
    BY <1>3, <1>6, <1>9, <2>1, <2>6 DEF PositionsInv, VersionsAgree, TypeOK, Nobody
  <2>11. QED
    BY <2>7, <2>8, <2>9, <2>10 DEF PositionsInv
<1>10. QED
  BY <1>2, <1>3, <1>5, <1>8, <1>9, SessionsAre, FlushIs

\* A row that a session drops without writing it.
LEMMA DropInv ==
  ASSUME TypeOK, PositionsInv, NEW s \in {"mtm", "jobs"}, NEW id \in Ids, Drop(s, id),
         UNCHANGED <<rows, drafts, holder, order, booked, pending, stale, marked>>
  PROVE  PositionsInv'
<1>1. VersionsSound' /\ DraftsFollow' /\ VersionsAgree'
  BY DEF PositionsInv, VersionsSound, View, DraftsFollow, SamePrices, VersionsAgree
<1>2. /\ seen'["consumer"] = seen["consumer"]
      /\ \A t \in {"mtm", "jobs"}, i \in Ids : seen'[t][i] \in {seen[t][i], NoRow}
  BY SessionsAre DEF Drop, TypeOK
<1>3. SeenLasts'
  BY <1>2 DEF PositionsInv, SeenLasts, SamePrices, View
<1>4. QED
  BY <1>1, <1>3 DEF PositionsInv

LEMMA CommitMarkInv ==
  ASSUME TypeOK, PositionsInv, CommitMark
  PROVE  PositionsInv'
<1>1. stale' = stale \ marked /\ marked' = {} /\ UNCHANGED <<order, booked, pending>>
  BY DEF CommitMark, books
<1>2. Publish("mtm") /\ Release("mtm")
  BY DEF CommitMark, Publish
<1>3. \A id \in Ids : /\ rows'[id] = IF holder[id] = "mtm" THEN drafts[id] ELSE rows[id]
                      /\ IF holder[id] = "mtm" THEN holder'[id] = Nobody
                          ELSE holder'[id] = holder[id] /\ drafts'[id] = drafts[id]
  BY <1>2, SessionsAre, Released, Published
<1>4. seen'["consumer"] = seen["consumer"] /\ seen'["jobs"] = seen["jobs"]
  BY <1>2, SessionsAre, Released DEF Sessions
<1>5. \A id \in Ids : seen'["mtm"][id] = NoRow
  BY <1>2, SessionsAre, Released
<1> USE SessionsAre, <1>1, <1>3
<1>6. VersionsSound'
  BY DEF PositionsInv, VersionsSound, DraftsFollow, Sound, View, Nobody
<1>7. DraftsFollow'
  BY DEF PositionsInv, DraftsFollow, SamePrices, Nobody
<1>8. SeenLasts'
  <2>1. NoRow.status = "none"
    BY DEF NoRow
  <2>2. order \in Order => order.id \in Ids
    BY NoOrderIsNone
  <2>3. QED
    BY <1>4, <1>5, <2>1, <2>2 DEF PositionsInv, DraftsFollow, SeenLasts, SamePrices, View, TypeOK, Nobody
<1>9. VersionsAgree'
  BY DEF PositionsInv, VersionsAgree, TypeOK, Nobody
<1>10. QED
  BY <1>6, <1>7, <1>8, <1>9 DEF PositionsInv

\* A session other than the consumer's that ends without its changes.
LEMMA AbortInv ==
  ASSUME TypeOK, PositionsInv, NEW s \in {"mtm", "jobs"}, Release(s),
         UNCHANGED <<rows, order, booked, pending, stale>>,
         marked' = IF s = "mtm" THEN {} ELSE marked
  PROVE  PositionsInv'
<1>1. \A id \in Ids : IF holder[id] = s THEN holder'[id] = Nobody
                      ELSE holder'[id] = holder[id] /\ drafts'[id] = drafts[id]
  BY SessionsAre, Released
<1>2. /\ seen'["consumer"] = seen["consumer"]
      /\ \A t \in {"mtm", "jobs"}, id \in Ids : seen'[t][id] \in {seen[t][id], NoRow}
  BY SessionsAre, Released DEF Sessions
<1> USE SessionsAre, <1>1
<1>3. VersionsSound'
  BY DEF PositionsInv, VersionsSound, View, Nobody
<1>4. DraftsFollow'
  BY DEF PositionsInv, DraftsFollow, SamePrices, Nobody
<1>5. SeenLasts'
  <2>1. order \in Order => order.id \in Ids
    BY NoOrderIsNone
  <2>2. QED
    BY <1>2, <2>1 DEF PositionsInv, SeenLasts, SamePrices, View, TypeOK, Nobody
<1>6. VersionsAgree'
  BY DEF PositionsInv, VersionsAgree, TypeOK, Nobody
<1>7. QED
  BY <1>3, <1>4, <1>5, <1>6 DEF PositionsInv

-----------------------------------------------------------------------------
(* Steps of the daily jobs *)

LEMMA BeginExpirationsInv ==
  ASSUME TypeOK, PositionsInv, BeginExpirations
  PROVE  PositionsInv'
<1>1. UNCHANGED <<rows, drafts, holder, order, booked, pending, stale, marked>>
  BY DEF BeginExpirations, tables, locks, books
<1>2. VersionsSound' /\ DraftsFollow' /\ VersionsAgree'
  BY <1>1 DEF PositionsInv, VersionsSound, View, DraftsFollow, SamePrices, VersionsAgree
<1>3. \A id \in Ids : /\ holder[id] # "jobs"
                      /\ seen'["jobs"][id] # NoRow => rows[id].status = "open" /\ seen'["jobs"][id] = rows[id]
  <2>1. \A id \in Ids : holder[id] # "jobs" /\ seen["jobs"][id] = NoRow
    BY DEF BeginExpirations, Locked, Loaded
  <2>2. Load("jobs", {id \in Open("jobs") : id[1] \in Options})
    BY DEF BeginExpirations
  <2>3. QED
    BY <2>1, <2>2, SessionsAre DEF Load, Open, View, TypeOK
<1>4. seen'["consumer"] = seen["consumer"] /\ seen'["mtm"] = seen["mtm"]
  BY SessionsAre DEF BeginExpirations, Load, TypeOK
<1>5. SeenLasts'
  BY <1>1, <1>3, <1>4 DEF PositionsInv, SeenLasts, SamePrices, View
<1>6. QED
  BY <1>2, <1>5 DEF PositionsInv

LEMMA ExpireInv ==
  ASSUME TypeOK, PositionsInv, NEW id \in Ids, NEW v \in Nat, Expire(id, v)
  PROVE  PositionsInv'
<1> DEFINE row == seen["jobs"][id]
           new == ExpiredRow(row, v)
           out == Merged(row, new, rows[id])
<1>1. row \in Row /\ rows[id] \in Row /\ row # NoRow
  BY SessionsAre DEF TypeOK, Expire
<1>2. new \in Row /\ new.status = "closed" /\ new.net = 0 /\ new.value = 0
  BY <1>1, ExpiredType, ExpiredColumns
<1>3. Flush("jobs", id, new) /\ Drop("jobs", id) /\ UNCHANGED <<rows, order, booked, pending, marked>>
  BY DEF Expire, ExpiredRow, tables, books
<1>4. holder[id] # "jobs" /\ rows[id].status # "none" /\ row.status = "open"
  BY <1>1 DEF PositionsInv, SeenLasts
<1>5. View("jobs", id) = rows[id] /\ new # row
  BY <1>2, <1>4 DEF View
<1>6. /\ seen'["jobs"][id] = NoRow
      /\ \A i \in Ids \ {id} : seen'["jobs"][i] = seen["jobs"][i]
      /\ seen'["consumer"] = seen["consumer"] /\ seen'["mtm"] = seen["mtm"]
  BY <1>3, SessionsAre DEF Drop, TypeOK
<1>7. /\ holder[id] \in {Nobody, "jobs"} /\ holder' = [holder EXCEPT ![id] = "jobs"]
      /\ drafts' = [drafts EXCEPT ![id] = out]
      /\ stale' = IF row # rows[id] THEN stale \cup {id} ELSE stale
  BY <1>2, <1>3, <1>5, SessionsAre, FlushIs
<1>8. /\ holder[id] = Nobody /\ holder'[id] = "jobs" /\ drafts'[id] = out
      /\ \A i \in Ids \ {id} : holder'[i] = holder[i] /\ drafts'[i] = drafts[i]
  BY <1>4, <1>7 DEF TypeOK
<1> HIDE DEF row, new, out
<1>9. out.status = "closed"
  BY <1>1, <1>2, <1>4, MergedColumns DEF out
<1>10. row = rows[id] => Agrees(out)
  <2>1. row = rows[id] => out = new
    BY <1>1, <1>2, MergedFresh DEF out
  <2>2. QED
    BY <1>2, <2>1 DEF Agrees
<1>11. VersionsSound'
  BY <1>3, <1>8, SessionsAre DEF PositionsInv, VersionsSound, View, Nobody
<1>12. DraftsFollow'
  BY <1>3, <1>4, <1>8, <1>9, SessionsAre DEF PositionsInv, DraftsFollow, SamePrices, Nobody
<1>13. SeenLasts'
  <2>1. order # NoOrder => order.id \in Ids
    BY NoOrderIsNone DEF TypeOK
  <2>2. order # NoOrder => View("consumer", order.id)' = View("consumer", order.id)
    BY <1>3, <1>8, <2>1 DEF View, Nobody
  <2>3. QED
    BY <1>3, <1>6, <1>8, <2>2 DEF PositionsInv, SeenLasts, SamePrices
<1>14. VersionsAgree'
  BY <1>3, <1>7, <1>8, <1>10 DEF PositionsInv, VersionsAgree, TypeOK, Nobody
<1>15. QED
  BY <1>11, <1>12, <1>13, <1>14 DEF PositionsInv

LEMMA CommitExpirationsInv ==
  ASSUME TypeOK, PositionsInv, CommitExpirations
  PROVE  PositionsInv'
<1>1. UNCHANGED <<order, booked, pending, stale, marked>>
  BY DEF CommitExpirations, books
<1>2. Publish("jobs") /\ Release("jobs")
  BY DEF CommitExpirations, Publish
<1>3. \A id \in Ids : /\ rows'[id] = IF holder[id] = "jobs" THEN drafts[id] ELSE rows[id]
                      /\ IF holder[id] = "jobs" THEN holder'[id] = Nobody
                         ELSE holder'[id] = holder[id] /\ drafts'[id] = drafts[id]
  BY <1>2, SessionsAre, Released, Published
<1>4. seen'["consumer"] = seen["consumer"] /\ seen'["mtm"] = seen["mtm"]
  BY <1>2, SessionsAre, Released DEF Sessions
<1>5. \A id \in Ids : seen'["jobs"][id] = NoRow
  BY <1>2, SessionsAre, Released
<1> USE SessionsAre, <1>1, <1>3
<1>6. VersionsSound'
  BY DEF PositionsInv, VersionsSound, DraftsFollow, Sound, View, Nobody
<1>7. DraftsFollow'
  BY DEF PositionsInv, DraftsFollow, SamePrices, Nobody
<1>8. SeenLasts'
  <2>1. NoRow.status = "none"
    BY DEF NoRow
  <2>2. order \in Order => order.id \in Ids
    BY NoOrderIsNone
  <2>3. QED
    BY <1>4, <1>5, <2>1, <2>2 DEF PositionsInv, DraftsFollow, SeenLasts, SamePrices, View, TypeOK, Nobody
<1>9. VersionsAgree'
  BY DEF PositionsInv, VersionsAgree, TypeOK, Nobody
<1>10. QED
  BY <1>6, <1>7, <1>8, <1>9 DEF PositionsInv

-----------------------------------------------------------------------------
(* The theorems *)

LEMMA InitInv == Init => PositionsInv
<1> SUFFICES ASSUME Init PROVE PositionsInv
  OBVIOUS
<1>1. /\ \A id \in Ids : /\ rows[id] = NoRow /\ holder[id] = Nobody /\ booked[id] = 0 /\ pending[id] = 0
                         /\ \A s \in Sessions : seen[s][id] = NoRow
      /\ order = NoOrder /\ marked = {}
  BY DEF Init, Nothing
<1>2. NoRow.status = "none"
  BY DEF NoRow
<1>3. VersionsSound /\ DraftsFollow /\ SeenLasts /\ VersionsAgree
  BY <1>1, <1>2, SessionsAre DEF VersionsSound, DraftsFollow, SeenLasts, VersionsAgree, Sound, View, Agrees, Nobody, Sessions
<1>4. QED
  BY <1>3 DEF PositionsInv

LEMMA NextInv == TypeOK /\ PositionsInv /\ [Next]_vars => PositionsInv'
<1> SUFFICES ASSUME TypeOK, PositionsInv, [Next]_vars PROVE PositionsInv'
  OBVIOUS
<1> USE DEF tables, locks, books
<1>1. ASSUME NEW k \in Keys, NEW side \in {"buy", "sell"}, NEW qty \in Sizes, LoadPosition(k, Signed(side, qty))
      PROVE  PositionsInv'
  <2>1. Signed(side, qty) \in Int \ {0}
    BY FillType DEF Fills
  <2>2. QED
    BY <1>1, <2>1, LoadPositionInv
<1>2. ASSUME NEW p \in Prices, BookFill(p) PROVE PositionsInv'
  BY <1>2, BookFillInv, PositionsAssumption
<1>3. CASE CommitFills
  BY <1>3, CommitFillsInv
<1>4. CASE AbortFills
  BY <1>4, AbortFillsInv
<1>5. CASE BeginMark
  BY <1>5, BeginMarkInv
<1>6. ASSUME NEW id \in Ids, NEW p \in Prices, MarkRow(id, p) PROVE PositionsInv'
  BY <1>6, MarkRowInv, PositionsAssumption
<1>7. ASSUME NEW id \in Ids, SkipRow(id) PROVE PositionsInv'
  BY <1>7, DropInv DEF SkipRow
<1>8. CASE CommitMark
  BY <1>8, CommitMarkInv
<1>9. CASE AbortMark
  BY <1>9, AbortInv DEF AbortMark
<1>10. CASE BeginExpirations
  BY <1>10, BeginExpirationsInv
<1>11. ASSUME NEW id \in Ids, NEW v \in Prices \cup {0}, Expire(id, v) PROVE PositionsInv'
  BY <1>11, ExpireInv, PositionsAssumption
<1>12. ASSUME NEW id \in Ids, KeepOption(id) PROVE PositionsInv'
  BY <1>12, DropInv DEF KeepOption
<1>13. CASE CommitExpirations
  BY <1>13, CommitExpirationsInv
<1>14. CASE AbortExpirations
  BY <1>14, AbortInv DEF AbortExpirations
<1>15. CASE UNCHANGED vars
  BY <1>15 DEF vars, PositionsInv, VersionsSound, DraftsFollow, SeenLasts, VersionsAgree, View, Sound, Agrees, SamePrices
<1>16. QED
  BY <1>1, <1>2, <1>3, <1>4, <1>5, <1>6, <1>7, <1>8, <1>9, <1>10, <1>11, <1>12, <1>13, <1>14, <1>15 DEF Next

LEMMA InvariantHolds == Spec => [](TypeOK /\ PositionsInv)
<1>1. Spec => []TypeOK
  BY TypeCorrect
<1>2. QED
  BY <1>1, InitInv, NextInv, PTL DEF Spec

\* However the three sessions overlap, a row that each has written from its
\* last version agrees with itself: mark_to_market.py, fill_processor.py and
\* options_lifecycle.py compute market_value from the columns they loaded.
THEOREM RowsAgree == Spec => []RowsAgreeUnlessStale
<1>1. TypeOK /\ PositionsInv => RowsAgreeUnlessStale
  BY DEF PositionsInv, VersionsSound, VersionsAgree, Sound, Agrees, RowsAgreeUnlessStale
<1>2. QED
  BY <1>1, InvariantHolds, PTL

\* The revaluation that overlaps a fill loses none of its quantity, and the
\* highest and lowest price since entry bound the current one.
THEOREM OpenRowsKeepFills == Spec => []OpenRowsKeepTheirFills
<1>1. TypeOK /\ PositionsInv => OpenRowsKeepTheirFills
  BY DEF PositionsInv, VersionsSound, Sound, OpenRowsKeepTheirFills
<1>2. QED
  BY <1>1, InvariantHolds, PTL

\* No session, from whatever it has loaded, opens a closed position again.
THEOREM ClosedRowsStand == Spec => ClosedStands
<1>1. TypeOK /\ PositionsInv /\ [Next]_vars =>
        [\A id \in Ids : rows[id].status = "closed" => rows'[id].status = "closed"]_rows
  <2> SUFFICES ASSUME TypeOK, PositionsInv, [Next]_vars, NEW id \in Ids, rows[id].status = "closed"
               PROVE  rows' = rows \/ rows'[id].status = "closed"
    OBVIOUS
  <2>1. ASSUME NEW s \in Sessions, Publish(s) PROVE rows'[id].status = "closed"
    BY <2>1, Published DEF PositionsInv, DraftsFollow, Sessions, Nobody
  <2>2. CASE CommitFills \/ CommitMark \/ CommitExpirations
    BY <2>1, <2>2, SessionsAre DEF CommitFills, CommitMark, CommitExpirations
  <2>3. rows' = rows \/ CommitFills \/ CommitMark \/ CommitExpirations
    BY DEF Next, vars, tables, LoadPosition, BookFill, AbortFills, BeginMark, MarkRow, SkipRow, AbortMark,
           BeginExpirations, Expire, KeepOption, AbortExpirations
  <2>4. QED
    BY <2>2, <2>3
<1>2. QED
  BY <1>1, InvariantHolds, PTL DEF Spec, ClosedStands

-----------------------------------------------------------------------------
(* Equity *)

LEMMA IdsFinite == IsFiniteSet(Ids)
<1>1. IsFiniteSet(1..MaxRows) /\ IsFiniteSet(Keys)
  BY PositionsAssumption, FS_Interval
<1>2. QED
  BY <1>1, FS_Product DEF Ids

LEMMA WorthType == \A r \in Row : Worth(r) \in Nat
BY DEF Worth, Row

LEMMA NoWorth == Worth(NoRow) = 0
BY DEF Worth, NoRow

\* The market value of a table, row by row.
LEMMA TotalIs ==
  ASSUME NEW table \in [Ids -> Row]
  PROVE  Total(table) = SumFunctionOnSet([id \in Ids |-> Worth(table[id])], Ids)
<1> DEFINE values == [id \in Ids |-> table[id].value]
           worths == [id \in Ids |-> Worth(table[id])]
           opened == {id \in Ids : table[id].status = "open"}
<1>1. opened \in SUBSET Ids /\ \A id \in opened : values[id] \in Int
  BY DEF Row
<1>2. \A id \in Ids : worths[id] = IF id \in opened THEN values[id] ELSE 0
  BY DEF Worth
<1> HIDE DEF values, worths, opened
<1>3. SumFunctionOnSet(values, opened) = SumFunctionOnSet(worths, Ids)
  BY <1>1, <1>2, IdsFinite, SumPart
<1>4. QED
  BY <1>3 DEF Total, values, worths, opened

\* Two tables differ in value by what their rows differ.
LEMMA TotalsDiffer ==
  ASSUME NEW old \in [Ids -> Row], NEW new \in [Ids -> Row], NEW gains \in [Ids -> Int],
         \A id \in Ids : gains[id] = Worth(new[id]) - Worth(old[id])
  PROVE  /\ Total(new) = Total(old) + SumFunctionOnSet(gains, Ids)
         /\ Total(old) \in Int /\ SumFunctionOnSet(gains, Ids) \in Int
<1> DEFINE f == [id \in Ids |-> Worth(old[id])]
           h == [id \in Ids |-> Worth(new[id])]
<1>1. \A id \in Ids : f[id] \in Int /\ h[id] \in Int /\ h[id] = f[id] + gains[id] /\ gains[id] \in Int
  BY WorthType
<1>2. Total(old) = SumFunctionOnSet(f, Ids) /\ Total(new) = SumFunctionOnSet(h, Ids)
  BY TotalIs
<1> HIDE DEF f, h
<1>3. SumFunctionOnSet(h, Ids) = SumFunctionOnSet(f, Ids) + SumFunctionOnSet(gains, Ids)
  BY <1>1, IdsFinite, SumPlus
<1>4. SumFunctionOnSet(f, Ids) \in Int /\ SumFunctionOnSet(gains, Ids) \in Int
  BY <1>1, IdsFinite, SumType
<1>5. QED
  BY <1>2, <1>3, <1>4

LEMMA GainsType ==
  ASSUME TypeOK
  PROVE  /\ Gains \in [Ids -> Int] /\ SumFunctionOnSet(Gains, Ids) \in Int
         /\ \A id \in Ids : Gains[id] = Worth(View("consumer", id)) - Worth(rows[id])
<1>1. \A id \in Ids : Worth(View("consumer", id)) \in Nat /\ Worth(rows[id]) \in Nat
  BY ViewType, WorthType DEF TypeOK
<1>2. Gains \in [Ids -> Int] /\ \A id \in Ids : Gains[id] = Worth(View("consumer", id)) - Worth(rows[id])
  BY <1>1 DEF Gains
<1>3. QED
  BY <1>2, IdsFinite, SumType

\* A step that neither books nor ends the consumer's session: the rows it has
\* locked stay as they are, and of the others it sees what is committed.
LEMMA BesideTheConsumer ==
  ASSUME TypeOK, TypeOK', BooksBalance,
         UNCHANGED <<moved, odd>>,
         \A id \in Ids : /\ (holder'[id] = "consumer") <=> (holder[id] = "consumer")
                         /\ holder[id] = "consumer" => /\ drafts'[id] = drafts[id] /\ rows'[id] = rows[id]
                                                       /\ id \in stale => id \in stale'
  PROVE  BooksBalance'
<1>1. \A id \in Ids : Gains'[id] = Gains[id]
  <2> SUFFICES ASSUME NEW id \in Ids PROVE Gains'[id] = Gains[id]
    OBVIOUS
  <2>1. Gains[id] = IF holder[id] = "consumer" THEN Worth(drafts[id]) - Worth(rows[id]) ELSE 0
    BY GainsType, WorthType DEF View, TypeOK
  <2>2. Gains'[id] = IF holder'[id] = "consumer" THEN Worth(drafts'[id]) - Worth(rows'[id]) ELSE 0
    BY WorthType DEF Gains, View, TypeOK
  <2>3. QED
    BY <2>1, <2>2
<1>2. Gains \in [Ids -> Int]
  BY GainsType
<1>3. Gains' = [id \in Ids |-> Gains'[id]]
  BY DEF Gains
<1>4. Gains' = Gains
  BY <1>1, <1>2, <1>3
<1>5. Locked("consumer")' \cap stale' = {} => Locked("consumer") \cap stale = {}
  BY DEF Locked
<1>6. QED
  BY <1>4, <1>5 DEF BooksBalance

\* Nothing is locked and nothing moved.
LEMMA NothingMoved ==
  ASSUME TypeOK', moved' = 0, \A id \in Ids : holder'[id] # "consumer"
  PROVE  BooksBalance'
<1>1. \A id \in Ids : Gains'[id] = 0
  BY WorthType DEF Gains, View, TypeOK
<1>2. SumFunctionOnSet(Gains', Ids) = 0
  BY <1>1, IdsFinite, SumZero
<1>3. QED
  BY <1>2 DEF BooksBalance

LEMMA Distributes == \A a, b \in Int : \A c \in Nat : (a + b) * c = a * c + b * c /\ (-b) * c = -(b * c) /\ b * c \in Int
OBVIOUS

\* A fill of a row that agrees with itself, at its price, moves its value.
LEMMA FillMovesValue ==
  ASSUME NEW row \in Row, NEW fill \in Int \ {0}, NEW p \in Nat, ~Odd(row, fill, p),
         \/ row = NoRow
         \/ row.status = "open" /\ row.net # 0 /\ Agrees(row)
  PROVE  Worth(AfterFill(row, fill, p)) - Worth(row) + CashDelta(fill, p) = 0
<1> DEFINE new == AfterFill(row, fill, p)
<1>1. row.net \in Int /\ row.price \in Nat /\ row.net >= 0 /\ row.net + fill >= 0
  BY DEF Odd, Row
<1>2. /\ fill * p \in Int /\ CashDelta(fill, p) = -(fill * p)
  BY Distributes DEF CashDelta
<1>3. CASE row = NoRow
  <2>1. row.net = 0 /\ Worth(row) = 0
    BY <1>3, NoWorth DEF NoRow
  <2>2. fill > 0 /\ Abs(fill) = fill
    BY <1>1, <2>1 DEF Abs
  <2>3. new.status = "open" /\ new.value = fill * p
    BY <2>1, <2>2 DEF AfterFill, Scenario
  <2>4. QED
    BY <1>2, <2>1, <2>3 DEF Worth
<1>4. CASE row.status = "open" /\ row.net # 0 /\ Agrees(row)
  <2>1. p = row.price /\ Worth(row) = row.net * p /\ row.net * p \in Int
    BY <1>1, <1>4, Distributes DEF Odd, Agrees, Worth, Abs
  <2>2. Worth(new) = (row.net + fill) * p
    <3>1. CASE row.net + fill = 0
      <4>1. Scenario(row.net, fill) = "full_exit"
        BY <1>1, <1>4, <3>1 DEF Scenario, SameSide, Abs
      <4>2. new = ExpiredRow(row, p)
        BY <4>1 DEF AfterFill, ExpiredRow
      <4>3. Worth(new) = 0
        BY <4>2, ExpiredColumns DEF Worth
      <4>4. QED
        BY <3>1, <4>3
    <3>2. CASE row.net + fill # 0
      <4>1. Scenario(row.net, fill) \in {"scale_in", "scale_out"}
        BY <1>1, <1>4, <3>2 DEF Scenario, SameSide, Abs
      <4>2. new = [row EXCEPT !.net = row.net + fill, !.value = Abs(row.net + fill) * row.price]
        BY <4>1 DEF AfterFill
      <4>3. new.status = "open" /\ new.value = (row.net + fill) * p
        BY <1>1, <1>4, <2>1, <4>2 DEF Row, Abs
      <4>4. QED
        BY <4>3 DEF Worth
    <3>3. QED
      BY <3>1, <3>2
  <2>3. (row.net + fill) * p = row.net * p + fill * p
    BY <1>1, Distributes
  <2>4. QED
    BY <1>2, <2>1, <2>2, <2>3
<1>5. QED
  BY <1>3, <1>4

\* A booked fill moves between cash and its row what it takes from the other.
LEMMA BookFillBalances ==
  ASSUME TypeOK, TypeOK', PositionsInv, BooksBalance, NEW p \in Nat, BookFill(p)
  PROVE  BooksBalance'
<1> DEFINE id  == order.id
           row == seen["consumer"][id]
           cur == View("consumer", id)
           new == AfterFill(row, order.fill, p)
<1>1. id \in Ids /\ order.fill \in Int \ {0}
  BY NoOrderIsNone DEF TypeOK, BookFill, PositionsInv, SeenLasts
<1>2. row \in Row /\ cur \in Row /\ new \in Row
  BY <1>1, ViewType, AfterFillType, SessionsAre DEF TypeOK
<1>3. new # row
  BY <1>1, <1>2, AfterFillColumns
<1>4. Flush("consumer", id, new) /\ UNCHANGED rows /\ moved' = moved + CashDelta(order.fill, p)
      /\ odd' = (odd \/ Odd(row, order.fill, p))
  BY DEF BookFill, tables
<1>5. /\ holder' = [holder EXCEPT ![id] = "consumer"]
      /\ drafts' = [drafts EXCEPT ![id] = Merged(row, new, cur)]
      /\ stale' = IF row # cur THEN stale \cup {id} ELSE stale
  BY <1>1, <1>2, <1>3, <1>4, SessionsAre, FlushIs
<1>6. /\ holder'[id] = "consumer" /\ drafts'[id] = Merged(row, new, cur)
      /\ \A i \in Ids \ {id} : holder'[i] = holder[i] /\ drafts'[i] = drafts[i]
  BY <1>1, <1>5 DEF TypeOK
<1>7. \/ row = NoRow /\ cur = NoRow
      \/ row.status = "open" /\ row.net # 0
  BY DEF BookFill, PositionsInv, SeenLasts
<1>8. SUFFICES ASSUME ~odd', Locked("consumer")' \cap stale' = {}
               PROVE  moved' + SumFunctionOnSet(Gains', Ids) = 0
  BY DEF BooksBalance
<1>9. ~odd /\ ~Odd(row, order.fill, p)
  BY <1>4, <1>8, Zenon
<1>10. id \notin stale' /\ Locked("consumer") \subseteq Locked("consumer")' /\ stale \subseteq stale'
  BY <1>1, <1>5, <1>6, <1>8 DEF Locked
<1>11. row = cur /\ Agrees(cur)
  <2>1. row = cur /\ id \notin stale
    BY <1>5, <1>10
  <2>2. QED
    BY <1>1, <2>1, SessionsAre DEF PositionsInv, VersionsAgree, View
<1>12. moved + SumFunctionOnSet(Gains, Ids) = 0
  BY <1>8, <1>9, <1>10 DEF BooksBalance
<1>13. drafts'[id] = new
  BY <1>2, <1>6, <1>11, MergedFresh
<1>14. Worth(new) - Worth(cur) + CashDelta(order.fill, p) = 0
  BY <1>1, <1>2, <1>7, <1>9, <1>11, FillMovesValue
<1> HIDE DEF row, cur, new, id
<1>15. /\ Gains' \in [Ids -> Int] /\ Gains \in [Ids -> Int]
       /\ Gains[id] = Worth(cur) - Worth(rows[id]) /\ Gains'[id] = Worth(new) - Worth(rows[id])
       /\ \A i \in Ids \ {id} : Gains'[i] = Gains[i]
  <2>1. \A i \in Ids : Worth(View("consumer", i)') \in Nat /\ Worth(rows'[i]) \in Nat
    BY WorthType DEF View, TypeOK
  <2>2. Gains' = [i \in Ids |-> Worth(View("consumer", i)') - Worth(rows'[i])]
    BY DEF Gains, Worth
  <2>3. \A i \in Ids : View("consumer", i)' = IF i = id THEN new ELSE View("consumer", i)
    BY <1>1, <1>4, <1>6, <1>13 DEF View
  <2>4. /\ Gains \in [Ids -> Int] /\ \A i \in Ids : Gains[i] = Worth(View("consumer", i)) - Worth(rows[i])
    BY GainsType
  <2>5. Gains' \in [Ids -> Int]
    BY <2>1, <2>2
  <2>6. Gains[id] = Worth(cur) - Worth(rows[id])
    BY <1>1, <2>4 DEF cur
  <2>7. Gains'[id] = Worth(new) - Worth(rows[id])
    BY <1>1, <1>4, <2>2, <2>3
  <2>8. \A i \in Ids \ {id} : Gains'[i] = Gains[i]
    BY <1>4, <2>2, <2>3, <2>4
  <2>9. QED
    BY <2>4, <2>5, <2>6, <2>7, <2>8
<1>16. SumFunctionOnSet(Gains', Ids) = SumFunctionOnSet(Gains, Ids) + (Gains'[id] - Gains[id])
  BY <1>1, <1>15, IdsFinite, SumChange
<1>17. /\ SumFunctionOnSet(Gains, Ids) \in Int /\ Worth(cur) \in Int /\ Worth(new) \in Int /\ Worth(rows[id]) \in Int
       /\ moved \in Int /\ CashDelta(order.fill, p) \in Int
  BY <1>1, <1>2, GainsType, WorthType DEF TypeOK, CashDelta
<1>18. QED
  BY <1>4, <1>12, <1>14, <1>15, <1>16, <1>17

LEMMA NextBalances == TypeOK /\ TypeOK' /\ PositionsInv /\ BooksBalance /\ [Next]_vars => BooksBalance'
<1> SUFFICES ASSUME TypeOK, TypeOK', PositionsInv, BooksBalance, [Next]_vars PROVE BooksBalance'
  OBVIOUS
<1> USE SessionsAre
\* What the other two sessions do.
<1>1. ASSUME NEW s \in {"mtm", "jobs"}, NEW id \in Ids, NEW new \in Row, Flush(s, id, new), UNCHANGED <<rows, moved, odd>>
      PROVE  BooksBalance'
  <2>1. CASE UNCHANGED <<holder, drafts, stale>>
    BY <1>1, <2>1, BesideTheConsumer
  <2>2. CASE /\ holder[id] \in {Nobody, s} /\ holder' = [holder EXCEPT ![id] = s]
             /\ drafts' = [drafts EXCEPT ![id] = Merged(seen[s][id], new, View(s, id))]
             /\ stale' = IF seen[s][id] # View(s, id) THEN stale \cup {id} ELSE stale
    <3>1. \A i \in Ids : /\ (holder'[i] = "consumer") <=> (holder[i] = "consumer")
                         /\ holder[i] = "consumer" => drafts'[i] = drafts[i]
      BY <2>2 DEF TypeOK, Nobody
    <3>2. stale \subseteq stale'
      BY <2>2
    <3>3. QED
      BY <1>1, <3>1, <3>2, BesideTheConsumer
  <2>3. QED
    BY <1>1, <2>1, <2>2, FlushIs
<1>2. ASSUME NEW s \in {"mtm", "jobs"}, Release(s), UNCHANGED <<moved, odd>>,
             \A id \in Ids : holder[id] = "consumer" => rows'[id] = rows[id] /\ (id \in stale => id \in stale')
      PROVE  BooksBalance'
  <2>1. \A i \in Ids : /\ (holder'[i] = "consumer") <=> (holder[i] = "consumer")
                       /\ holder[i] = "consumer" => drafts'[i] = drafts[i]
    BY <1>2, Released DEF Nobody
  <2>2. QED
    BY <1>2, <2>1, BesideTheConsumer
<1>3. ASSUME NEW s \in {"mtm", "jobs"}, Publish(s), UNCHANGED <<moved, odd>>, stale' \in {stale, stale \ marked}
      PROVE  BooksBalance'
  <2>1. \A id \in Ids : holder[id] = "consumer" => rows'[id] = rows[id] /\ id \notin marked
    BY <1>3, Published DEF PositionsInv, VersionsAgree
  <2>2. QED
    BY <1>2, <1>3, <2>1 DEF Publish
<1>4. ASSUME UNCHANGED <<rows, locks, moved, odd, stale>> PROVE BooksBalance'
  BY <1>4, BesideTheConsumer DEF locks
\* One action after the other.
<1>5. ASSUME NEW k \in Keys, NEW fill, LoadPosition(k, fill) PROVE BooksBalance'
  BY <1>4, <1>5 DEF LoadPosition, tables
<1>6. ASSUME NEW p \in Prices, BookFill(p) PROVE BooksBalance'
  BY <1>6, BookFillBalances, PositionsAssumption
<1>7. CASE CommitFills
  <2>1. moved' = 0 /\ Release("consumer")
    BY <1>7 DEF CommitFills, Publish
  <2>2. \A id \in Ids : holder'[id] # "consumer"
    BY <2>1, Released DEF Nobody
  <2>3. QED
    BY <2>1, <2>2, NothingMoved
<1>8. CASE AbortFills
  <2>1. moved' = 0 /\ Release("consumer")
    BY <1>8 DEF AbortFills
  <2>2. \A id \in Ids : holder'[id] # "consumer"
    BY <2>1, Released DEF Nobody
  <2>3. QED
    BY <2>1, <2>2, NothingMoved
<1>9. CASE BeginMark
  BY <1>4, <1>9 DEF BeginMark, tables, books
<1>10. ASSUME NEW id \in Ids, NEW p \in Prices, MarkRow(id, p) PROVE BooksBalance'
  <2>1. Marked(seen["mtm"][id], p) \in Row
    BY MarkedType, PositionsAssumption DEF TypeOK
  <2>2. QED
    BY <1>1, <1>10, <2>1 DEF MarkRow, tables, books
<1>11. ASSUME NEW id \in Ids, SkipRow(id) PROVE BooksBalance'
  BY <1>4, <1>11 DEF SkipRow, tables, books
<1>12. CASE CommitMark
  BY <1>3, <1>12 DEF CommitMark, books
<1>13. CASE AbortMark
  BY <1>2, <1>13 DEF AbortMark, tables, books
<1>14. CASE BeginExpirations
  BY <1>4, <1>14 DEF BeginExpirations, tables, books
<1>15. ASSUME NEW id \in Ids, NEW v \in Prices \cup {0}, Expire(id, v) PROVE BooksBalance'
  <2>0. /\ seen["jobs"][id] \in Row
        /\ v \in Nat
    <3>1. seen["jobs"][id] \in Row
      BY SessionsAre DEF TypeOK
    <3>2. Prices \subseteq Nat
      BY PositionsAssumption
    <3>3. v \in Nat
      BY <3>2
    <3>4. QED
      BY <3>1, <3>3
  <2>1. ExpiredRow(seen["jobs"][id], v) \in Row
    BY <2>0, ExpiredType
  <2>2. QED
    BY <1>1, <1>15, <2>1 DEF Expire, ExpiredRow, tables, books
<1>16. ASSUME NEW id \in Ids, KeepOption(id) PROVE BooksBalance'
  BY <1>4, <1>16 DEF KeepOption, tables, books
<1>17. CASE CommitExpirations
  BY <1>3, <1>17 DEF CommitExpirations, books
<1>18. CASE AbortExpirations
  BY <1>2, <1>18 DEF AbortExpirations, tables, books
<1>19. CASE UNCHANGED vars
  BY <1>4, <1>19 DEF vars, tables, books
<1>20. QED
  BY <1>5, <1>6, <1>7, <1>8, <1>9, <1>10, <1>11, <1>12, <1>13, <1>14, <1>15, <1>16, <1>17, <1>18, <1>19 DEF Next

LEMMA InitBalances == Init => BooksBalance
<1> SUFFICES ASSUME Init PROVE moved + SumFunctionOnSet(Gains, Ids) = 0
  BY DEF BooksBalance
<1>1. \A id \in Ids : Gains[id] = 0
  BY NoWorth DEF Init, Nothing, Gains, View, Nobody
<1>2. QED
  BY <1>1, IdsFinite, SumZero DEF Init

\* What the consumer has booked and not committed moves value between cash and
\* the rows it has locked, whatever the other sessions do meanwhile.
THEOREM BooksStayBalanced == Spec => []BooksBalance
<1>1. TypeOK /\ PositionsInv /\ BooksBalance /\ [Next]_vars => BooksBalance'
  BY NextType, NextBalances
<1>2. QED
  BY <1>1, InitBalances, InvariantHolds, PTL DEF Spec

\* Fills at the row's price make and lose no equity: what a commit adds to
\* cash (cash_manager.py) is what the fills took from the rows (fill_processor.py).
THEOREM FillsMakeNoEquity == Spec => FillsConserveEquity
<1>1. TypeOK /\ TypeOK' /\ BooksBalance /\ [Next]_vars =>
        [booked' # booked /\ ~odd /\ Locked("consumer") \cap stale = {} => Equity' = Equity]_vars
  <2> SUFFICES ASSUME TypeOK, TypeOK', BooksBalance, [Next]_vars, booked' # booked,
                      ~odd, Locked("consumer") \cap stale = {}
               PROVE  Equity' = Equity
    OBVIOUS
  <2>1. CommitFills
    BY DEF Next, vars, books, LoadPosition, BookFill, AbortFills, BeginMark, MarkRow, SkipRow, CommitMark,
           AbortMark, BeginExpirations, Expire, KeepOption, CommitExpirations, AbortExpirations
  <2>2. cash' = cash + moved /\ rows' = [id \in Ids |-> View("consumer", id)]
    BY <2>1 DEF CommitFills, Publish
  <2>3. rows \in [Ids -> Row] /\ rows' \in [Ids -> Row]
    BY DEF TypeOK
  <2>4. \A id \in Ids : Gains[id] = Worth(rows'[id]) - Worth(rows[id])
    BY <2>2, GainsType
  <2>5. /\ Total(rows') = Total(rows) + SumFunctionOnSet(Gains, Ids)
        /\ Total(rows) \in Int /\ SumFunctionOnSet(Gains, Ids) \in Int
    BY <2>3, <2>4, GainsType, TotalsDiffer
  <2>6. moved + SumFunctionOnSet(Gains, Ids) = 0 /\ moved \in Int /\ cash \in Int
    BY DEF BooksBalance, TypeOK
  <2>7. Equity' = cash' + Total(rows')
    BY DEF Equity, Total
  <2>8. QED
    BY <2>2, <2>5, <2>6, <2>7 DEF Equity
<1>2. QED
  BY <1>1, TypeCorrect, BooksStayBalanced, PTL DEF Spec, FillsConserveEquity
=============================================================================
