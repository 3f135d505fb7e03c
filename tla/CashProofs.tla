----------------------------- MODULE CashProofs -----------------------------
(***************************************************************************)
(* Theorems about three places where money is counted: the cash balances   *)
(* (CashLedger), where a commit books exactly what its session moved unless *)
(* the session was overtaken; a backtest (Backtest), whose cash is explained *)
(* by its trades and whose exits are neither late nor flattering; and the  *)
(* shadow positions (ShadowPositions), which keep their exits.             *)
(***************************************************************************)
EXTENDS CashLedger, Backtest, ShadowPositions, SumTheorems, TLAPS

-----------------------------------------------------------------------------
(* The balances *)

LEMMA SeesInt ==
  ASSUME TypeOK, NEW s \in Sessions, NEW sc \in Scopes
  PROVE  Sees(s, sc) \in Int
BY DEF TypeOK, Sees

\* What a session has read is a scope and a balance.
LEMMA ReadTypes ==
  ASSUME TypeOK, NEW s \in Sessions
  PROVE  /\ read[s].scope \in Scopes /\ read[s].base \in Int /\ read[s].delta \in Int
         /\ read[s].open => read[s] \in Reading
<1>1. read[s] \in Reading \cup {Unread} BY DEF TypeOK
<1>2. CASE read[s] \in Reading BY <1>2 DEF Reading
<1>3. CASE read[s] = Unread BY <1>3, LedgerAssumption DEF Unread
<1> QED BY <1>1, <1>2, <1>3

\* A read opened by s on sc with movement delta.
LEMMA ReadStep ==
  ASSUME LedgerInv, NEW s \in Sessions, NEW sc \in Scopes, NEW delta \in Int, Read(s, sc, delta),
         cleared' \in BOOLEAN
  PROVE  LedgerInv'
<1> USE LedgerAssumption DEF LedgerInv
<1> DEFINE r == [open |-> TRUE, scope |-> sc, base |-> Sees(s, sc),
                 found |-> Found(s, sc), delta |-> delta]
<1>1. read' = [read EXCEPT ![s] = r] BY DEF Read
<1>2. r \in Reading BY SeesInt DEF Reading, Found
<1>3. /\ UNCHANGED <<balance, rows, writer, draft, moved, overtaken>>
      /\ \A t \in Sessions : read'[t] = IF t = s THEN r ELSE read[t]
  BY <1>1 DEF Read, TypeOK
<1>4. TypeOK' BY <1>1, <1>2, <1>3 DEF TypeOK
<1>5. DraftsAddUp' BY <1>3 DEF DraftsAddUp
<1>6. ReadsAreCurrent' BY <1>3 DEF ReadsAreCurrent, Sees
<1>7. MovesAreHeld' BY <1>3 DEF MovesAreHeld
<1>8. RowsComeFirst'
  <2>1. \A c \in Scopes \ rows' : balance'[c] = 0 BY <1>3 DEF RowsComeFirst
  <2>2. ASSUME NEW t \in Sessions, read'[t].open, writer'[read'[t].scope] = t
        PROVE  read'[t].found
    <3>1. CASE t = s
      <4>1. writer[sc] = s BY <1>3, <2>2, <3>1
      <4>2. Found(s, sc) = TRUE BY <4>1 DEF Found
      <4>3. read'[t].found = TRUE BY <1>3, <3>1, <4>2
      <4> QED BY <4>3
    <3>2. CASE t # s BY <1>3, <2>2, <3>2 DEF RowsComeFirst
    <3> QED BY <3>1, <3>2
  <2> QED BY <2>1, <2>2 DEF RowsComeFirst
<1> QED BY <1>4, <1>5, <1>6, <1>7, <1>8

LEMMA WriteStep ==
  ASSUME LedgerInv, NEW s \in Sessions, Write(s)
  PROVE  LedgerInv'
<1> USE LedgerAssumption DEF LedgerInv
<1> DEFINE sc == read[s].scope
           sum == read[s].base + read[s].delta
           after == moved[s][sc] + read[s].delta
<1>1. /\ read[s].open
      /\ sc \in Scopes /\ read[s].base \in Int /\ read[s].delta \in Int
      /\ moved[s][sc] \in Int /\ sum \in Int /\ after \in Int
  BY ReadTypes DEF Write, TypeOK
<1>2. /\ writer[sc] \in {s, Nobody}
      /\ read[s].found \/ sc \notin rows
      /\ draft' = [draft EXCEPT ![sc] = sum]
      /\ writer' = [writer EXCEPT ![sc] = s]
      /\ moved' = [moved EXCEPT ![s] = [moved[s] EXCEPT ![sc] = after]]
      /\ read' = [read EXCEPT ![s] = Unread]
      /\ UNCHANGED <<balance, rows, cleared, overtaken>>
  BY <1>1 DEF Write, TypeOK
<1>3. /\ \A c \in Scopes : draft'[c] = IF c = sc THEN sum ELSE draft[c]
      /\ \A c \in Scopes : writer'[c] = IF c = sc THEN s ELSE writer[c]
      /\ \A t \in Sessions, c \in Scopes :
           moved'[t][c] = IF t = s /\ c = sc THEN after ELSE moved[t][c]
      /\ \A t \in Sessions : read'[t] = IF t = s THEN Unread ELSE read[t]
  BY <1>1, <1>2 DEF TypeOK
<1>4. TypeOK' BY <1>1, <1>2 DEF TypeOK
<1>5. s # Nobody BY DEF Sessions
<1>6. DraftsAddUp'
  <2>1. ASSUME s \notin overtaken PROVE sum = balance[sc] + after
    <3>1. read[s].base = Sees(s, sc) BY <1>1, <1>2, <2>1 DEF ReadsAreCurrent
    <3>2. CASE writer[sc] = s
      <4>1. draft[sc] = balance[sc] + moved[s][sc]
        BY <1>1, <1>5, <2>1, <3>2 DEF DraftsAddUp
      <4> QED BY <1>1, <3>1, <3>2, <4>1 DEF Sees, TypeOK
    <3>3. CASE writer[sc] # s
      <4>1. moved[s][sc] = 0 BY <1>1, <3>3 DEF MovesAreHeld
      <4> QED BY <1>1, <3>1, <3>3, <4>1 DEF Sees, TypeOK
    <3> QED BY <3>2, <3>3
  <2> QED BY <1>1, <1>2, <1>3, <1>5, <2>1 DEF DraftsAddUp, TypeOK
<1>7. ReadsAreCurrent'
  <2> SUFFICES ASSUME NEW t \in Sessions, t \notin overtaken, read'[t].open,
                      read'[t].found \/ read'[t].scope \notin rows
               PROVE  read'[t].base = Sees(t, read[t].scope)'
    BY <1>2 DEF ReadsAreCurrent
  <2>1. t # s /\ read'[t] = read[t] BY <1>3 DEF Unread
  <2>2. read[t].scope \in Scopes BY <2>1, ReadTypes
  <2>3. Sees(t, read[t].scope)' = Sees(t, read[t].scope)
    BY <1>2, <1>3, <1>5, <2>1, <2>2 DEF Sees, Sessions
  <2> QED BY <2>1, <2>3 DEF ReadsAreCurrent
<1>8. MovesAreHeld'
  <2>1. \A t \in Sessions : t # Nobody BY DEF Sessions
  <2>2. ASSUME NEW t \in Sessions, NEW c \in Scopes, writer'[c] # t PROVE moved'[t][c] = 0
    <3>1. writer[c] # t /\ ~(t = s /\ c = sc) BY <1>1, <1>2, <1>3, <2>1, <2>2
    <3> QED BY <1>3, <3>1 DEF MovesAreHeld
  <2> QED BY <2>2 DEF MovesAreHeld
<1>9. RowsComeFirst'
  <2>1. \A c \in Scopes \ rows' : balance'[c] = 0 BY <1>2 DEF RowsComeFirst
  <2>2. ASSUME NEW t \in Sessions, read'[t].open, writer'[read'[t].scope] = t
        PROVE  read'[t].found
    <3>1. t # s /\ read'[t] = read[t] BY <1>3, <2>2 DEF Unread
    <3>2. read[t].scope \in Scopes BY <3>1, ReadTypes
    <3> QED BY <1>3, <2>2, <3>1, <3>2 DEF RowsComeFirst
  <2> QED BY <2>1, <2>2 DEF RowsComeFirst
<1> QED BY <1>4, <1>6, <1>7, <1>8, <1>9

LEMMA CheckStep ==
  ASSUME LedgerInv, NEW cost \in Amounts, CheckCash(cost)
  PROVE  LedgerInv'
<1> USE DEF LedgerInv
<1>1. UNCHANGED <<balance, rows, writer, draft, read, moved, overtaken>> /\ cleared' = TRUE
  BY DEF CheckCash
<1>2. TypeOK' BY <1>1 DEF TypeOK
<1>3. DraftsAddUp' /\ MovesAreHeld' BY <1>1 DEF DraftsAddUp, MovesAreHeld
<1>4. ReadsAreCurrent' BY <1>1 DEF ReadsAreCurrent, Sees
<1>5. RowsComeFirst' BY <1>1 DEF RowsComeFirst
<1> QED BY <1>2, <1>3, <1>4, <1>5

\* What the end of a session leaves.
LEMMA EndEffect ==
  ASSUME TypeOK, NEW s \in Sessions, End(s)
  PROVE  /\ \A c \in Scopes : writer'[c] = IF writer[c] = s THEN Nobody ELSE writer[c]
         /\ \A c \in Scopes : draft'[c] = IF writer[c] = s THEN 0 ELSE draft[c]
         /\ \A t \in Sessions : read'[t] = IF t = s THEN Unread ELSE read[t]
         /\ \A t \in Sessions, c \in Scopes : moved'[t][c] = IF t = s THEN 0 ELSE moved[t][c]
         /\ writer' \in [Scopes -> Sessions \cup {Nobody}]
         /\ draft' \in [Scopes -> Int]
         /\ read' \in [Sessions -> Reading \cup {Unread}]
         /\ moved' \in [Sessions -> [Scopes -> Int]]
         /\ cleared' \in BOOLEAN
<1>1. 0 \in Int OBVIOUS
<1>2. cleared' \in BOOLEAN BY DEF End
<1> QED BY <1>1, <1>2 DEF TypeOK, End

LEMMA RollbackStep ==
  ASSUME LedgerInv, NEW s \in Sessions, Rollback(s)
  PROVE  LedgerInv'
<1> USE LedgerAssumption DEF LedgerInv
<1>1. /\ \A c \in Scopes : writer'[c] = IF writer[c] = s THEN Nobody ELSE writer[c]
      /\ \A c \in Scopes : draft'[c] = IF writer[c] = s THEN 0 ELSE draft[c]
      /\ \A t \in Sessions : read'[t] = IF t = s THEN Unread ELSE read[t]
      /\ \A t \in Sessions, c \in Scopes : moved'[t][c] = IF t = s THEN 0 ELSE moved[t][c]
  BY EndEffect DEF Rollback
<1>2. balance' = balance /\ rows' = rows /\ overtaken' = overtaken \ {s} BY DEF Rollback
<1>3. s # Nobody BY DEF Sessions
<1>4. TypeOK' BY EndEffect, <1>2 DEF Rollback, TypeOK
<1>5. DraftsAddUp'
  <2> SUFFICES ASSUME NEW c \in Scopes, writer'[c] # Nobody, writer'[c] \notin overtaken'
               PROVE  draft'[c] = balance'[c] + moved'[writer'[c]][c]
    BY DEF DraftsAddUp
  <2>1. writer'[c] = writer[c] /\ writer[c] # s /\ draft'[c] = draft[c] BY <1>1
  <2>2. writer[c] \in Sessions BY <2>1 DEF TypeOK
  <2> QED BY <1>1, <1>2, <2>1, <2>2 DEF DraftsAddUp
<1>6. ReadsAreCurrent'
  <2> SUFFICES ASSUME NEW t \in Sessions, t \notin overtaken', read'[t].open,
                      read'[t].found \/ read'[t].scope \notin rows'
               PROVE  read'[t].base = Sees(t, read[t].scope)'
    BY DEF ReadsAreCurrent
  <2>1. t # s /\ read'[t] = read[t] BY <1>1 DEF Unread
  <2>2. read[t].scope \in Scopes BY <2>1, ReadTypes
  <2>3. Sees(t, read[t].scope)' = Sees(t, read[t].scope)
    BY <1>1, <1>2, <2>1, <2>2, t # Nobody DEF Sees, Sessions
  <2> QED BY <1>2, <2>1, <2>3 DEF ReadsAreCurrent
<1>7. MovesAreHeld' BY <1>1, <1>3 DEF MovesAreHeld
<1>8. RowsComeFirst'
  <2>1. \A c \in Scopes \ rows' : balance'[c] = 0 BY <1>2 DEF RowsComeFirst
  <2>2. ASSUME NEW t \in Sessions, read'[t].open, writer'[read'[t].scope] = t
        PROVE  read'[t].found
    <3>1. t # s /\ read'[t] = read[t] BY <1>1, <2>2 DEF Unread
    <3>2. read[t].scope \in Scopes BY <3>1, ReadTypes
    <3> QED BY <1>1, <2>2, <3>1, <3>2 DEF RowsComeFirst, Sessions
  <2> QED BY <2>1, <2>2 DEF RowsComeFirst
<1> QED BY <1>4, <1>5, <1>6, <1>7, <1>8

LEMMA CommitStep ==
  ASSUME LedgerInv, NEW s \in Sessions, Commit(s)
  PROVE  LedgerInv'
<1> USE LedgerAssumption DEF LedgerInv
<1>1. /\ \A c \in Scopes : writer'[c] = IF writer[c] = s THEN Nobody ELSE writer[c]
      /\ \A c \in Scopes : draft'[c] = IF writer[c] = s THEN 0 ELSE draft[c]
      /\ \A t \in Sessions : read'[t] = IF t = s THEN Unread ELSE read[t]
      /\ \A t \in Sessions, c \in Scopes : moved'[t][c] = IF t = s THEN 0 ELSE moved[t][c]
  BY EndEffect DEF Commit
<1>2. /\ balance' = [sc \in Scopes |-> Sees(s, sc)]
      /\ rows' = rows \cup Locks(s)
      /\ overtaken' = (overtaken \ {s})
                      \cup {t \in Sessions \ {s} : read[t].found /\ read[t].scope \in Locks(s)}
  BY DEF Commit
<1>3. \A t \in Sessions : t # Nobody BY DEF Sessions
<1>4. TypeOK'
  <2>1. balance' \in [Scopes -> Int] BY <1>2, SeesInt
  <2>2. rows' \subseteq Scopes BY <1>2 DEF TypeOK, Locks
  <2>3. overtaken' \subseteq Sessions BY <1>2 DEF TypeOK
  <2> QED BY EndEffect, <2>1, <2>2, <2>3 DEF Commit, TypeOK
<1>5. DraftsAddUp'
  <2> SUFFICES ASSUME NEW c \in Scopes, writer'[c] # Nobody, writer'[c] \notin overtaken'
               PROVE  draft'[c] = balance'[c] + moved'[writer'[c]][c]
    BY DEF DraftsAddUp
  <2>1. writer'[c] = writer[c] /\ writer[c] # s /\ draft'[c] = draft[c] BY <1>1
  <2>2. writer[c] \in Sessions BY <2>1 DEF TypeOK
  <2>3. balance'[c] = balance[c] BY <1>2, <2>1 DEF Sees
  <2>4. writer[c] \notin overtaken BY <1>2, <2>1
  <2> QED BY <1>1, <2>1, <2>2, <2>3, <2>4 DEF DraftsAddUp
<1>6. ReadsAreCurrent'
  <2> SUFFICES ASSUME NEW t \in Sessions, t \notin overtaken', read'[t].open,
                      read'[t].found \/ read'[t].scope \notin rows'
               PROVE  read'[t].base = Sees(t, read[t].scope)'
    BY DEF ReadsAreCurrent
  <2>1. t # s /\ read'[t] = read[t] BY <1>1 DEF Unread
  <2>2. read[t].scope \in Scopes BY <2>1, ReadTypes
  <2>3. t \notin overtaken /\ (read[t].found \/ read[t].scope \notin rows) BY <1>2, <2>1
  <2>4. read[t].scope \notin Locks(s) BY <1>2, <2>1
  <2>5. Sees(t, read[t].scope)' = Sees(t, read[t].scope)
    BY <1>1, <1>2, <1>3, <2>1, <2>2, <2>4 DEF Sees, Locks
  <2> QED BY <2>1, <2>3, <2>5 DEF ReadsAreCurrent
<1>7. MovesAreHeld' BY <1>1 DEF MovesAreHeld
<1>8. RowsComeFirst'
  <2>1. \A c \in Scopes \ rows' : balance'[c] = 0 BY <1>2 DEF RowsComeFirst, Sees, Locks
  <2>2. ASSUME NEW t \in Sessions, read'[t].open, writer'[read'[t].scope] = t
        PROVE  read'[t].found
    <3>1. t # s /\ read'[t] = read[t] BY <1>1, <2>2 DEF Unread
    <3>2. read[t].scope \in Scopes BY <3>1, ReadTypes
    <3> QED BY <1>1, <1>3, <2>2, <3>1, <3>2 DEF RowsComeFirst
  <2> QED BY <2>1, <2>2 DEF RowsComeFirst
<1> QED BY <1>4, <1>5, <1>6, <1>7, <1>8

-----------------------------------------------------------------------------

\* Every operation is a cash check, or a read, a write, a commit or a rollback
\* of a session.
LEMMA NextCases ==
  ASSUME TypeOK, Next
  PROVE  \/ \E cost \in Amounts : CheckCash(cost)
         \/ \E s \in Sessions :
              \/ \E sc \in Scopes, delta \in Int :
                   Read(s, sc, delta) /\ cleared' \in BOOLEAN
              \/ Write(s) \/ Commit(s) \/ Rollback(s)
<1> USE LedgerAssumption
<1>1. CASE \E s \in Sessions : Write(s) \/ Commit(s) \/ Rollback(s) BY <1>1
<1>2. ASSUME NEW a \in Amounts, NEW s \in Sessions, NEW sc \in Scopes,
             Read(s, sc, a) \/ Read(s, sc, -a)
      PROVE  \E delta \in Int : Read(s, sc, delta)
  <2>1. a \in Int /\ -a \in Int OBVIOUS
  <2> QED BY <1>2, <2>1
<1>3. ASSUME NEW a \in Amounts, Buy(a) \/ Sell(a) \/ Dividend(a)
      PROVE  /\ \E s \in Sessions, sc \in Scopes : Read(s, sc, a) \/ Read(s, sc, -a)
             /\ cleared' \in BOOLEAN
  BY <1>3 DEF Buy, Sell, Dividend, Sessions, TypeOK
<1>4. ASSUME NEW a \in Amounts, NEW s \in Admins, NEW sc \in Scopes, Adjust(s, sc, a)
      PROVE  (Read(s, sc, a) \/ Read(s, sc, -a)) /\ cleared' \in BOOLEAN
  BY <1>4 DEF Adjust, TypeOK
<1>5. Admins \subseteq Sessions BY DEF Sessions
<1> QED BY <1>1, <1>2, <1>3, <1>4, <1>5 DEF Next

LEMMA InitInv == Init => LedgerInv
<1> SUFFICES ASSUME Init PROVE LedgerInv OBVIOUS
<1> USE LedgerAssumption DEF Init
<1>1. TypeOK
  <2>1. Opening \in Int /\ 0 \in Int OBVIOUS
  <2> QED BY <2>1 DEF TypeOK
<1>2. \A s \in Sessions : ~read[s].open BY DEF Unread
<1>3. DraftsAddUp BY DEF DraftsAddUp
<1>4. ReadsAreCurrent BY <1>2 DEF ReadsAreCurrent
<1>5. MovesAreHeld BY DEF MovesAreHeld
<1>6. RowsComeFirst BY <1>2 DEF RowsComeFirst
<1> QED BY <1>1, <1>3, <1>4, <1>5, <1>6 DEF LedgerInv

LEMMA StutterStep == LedgerInv /\ UNCHANGED vars => LedgerInv'
<1> SUFFICES ASSUME LedgerInv, UNCHANGED vars PROVE LedgerInv' OBVIOUS
<1> USE DEF vars, LedgerInv
<1>1. TypeOK' BY DEF TypeOK
<1>2. DraftsAddUp' /\ MovesAreHeld' BY DEF DraftsAddUp, MovesAreHeld
<1>3. ReadsAreCurrent' BY DEF ReadsAreCurrent, Sees
<1>4. RowsComeFirst' BY DEF RowsComeFirst
<1> QED BY <1>1, <1>2, <1>3, <1>4

\* The inductive invariant: what a session has written is the committed balance
\* plus its movements, unless it was overtaken between a SELECT and an UPDATE
\* of update_balance.
THEOREM LedgerInvariant == Spec => []LedgerInv
<1>1. LedgerInv /\ [Next]_vars => LedgerInv'
  <2> SUFFICES ASSUME LedgerInv, [Next]_vars PROVE LedgerInv' OBVIOUS
  <2>1. CASE Next
    <3>1. CASE \E cost \in Amounts : CheckCash(cost) BY <3>1, CheckStep
    <3>2. ASSUME NEW s \in Sessions,
                 \/ \E sc \in Scopes, delta \in Int :
                      Read(s, sc, delta) /\ cleared' \in BOOLEAN
                 \/ Write(s) \/ Commit(s) \/ Rollback(s)
          PROVE  LedgerInv'
      BY <3>2, ReadStep, WriteStep, CommitStep, RollbackStep
    <3>3. TypeOK BY DEF LedgerInv
    <3> QED BY <2>1, <3>1, <3>2, <3>3, NextCases
  <2>2. CASE UNCHANGED vars BY <2>2, StutterStep
  <2> QED BY <2>1, <2>2
<1> QED BY InitInv, <1>1, PTL DEF Spec

\* Balances, locks and sessions keep their types.
THEOREM TypeCorrect == Spec => []TypeOK
<1>1. LedgerInv => TypeOK BY DEF LedgerInv
<1> QED BY LedgerInvariant, <1>1, PTL

\* A commit of update_balance's session changes the balances by exactly what
\* the session moved, unless another session had changed a row it had read.
THEOREM CommitsBook == Spec => CommitBooksItsMovements
<1>1. LedgerInv /\ [Next]_vars =>
        [balance' # balance =>
           \E s \in Sessions :
             /\ Locks(s) # {} /\ \A sc \in Locks(s) : writer'[sc] = Nobody
             /\ s \notin overtaken => \A sc \in Scopes : Booked(sc) = moved[s][sc]]_vars
  <2> SUFFICES ASSUME LedgerInv, Next, balance' # balance
               PROVE  \E s \in Sessions :
                        /\ Locks(s) # {} /\ \A sc \in Locks(s) : writer'[sc] = Nobody
                        /\ s \notin overtaken => \A sc \in Scopes : Booked(sc) = moved[s][sc]
    OBVIOUS
  <2>1. PICK s \in Sessions : Commit(s)
    BY NextCases DEF Read, Write, Rollback, CheckCash, LedgerInv
  <2>2. Locks(s) # {} BY <2>1 DEF Commit
  <2>3. ASSUME NEW sc \in Locks(s) PROVE writer'[sc] = Nobody
    BY <2>1, EndEffect DEF Commit, LedgerInv, Locks
  <2>4. ASSUME s \notin overtaken, NEW sc \in Scopes PROVE Booked(sc) = moved[s][sc]
    <3>1. balance'[sc] = Sees(s, sc) BY <2>1 DEF Commit
    <3>2. balance[sc] \in Int /\ moved[s][sc] \in Int BY DEF LedgerInv, TypeOK
    <3>3. CASE writer[sc] = s
      <4>1. s # Nobody BY LedgerAssumption DEF Sessions
      <4>2. draft[sc] = balance[sc] + moved[s][sc]
        BY <2>4, <3>3, <4>1 DEF LedgerInv, DraftsAddUp
      <4> QED BY <3>1, <3>2, <3>3, <4>2 DEF Sees, Booked
    <3>4. CASE writer[sc] # s
      <4>1. moved[s][sc] = 0 BY <3>4 DEF LedgerInv, MovesAreHeld
      <4> QED BY <3>1, <3>2, <3>4, <4>1 DEF Sees, Booked
    <3> QED BY <3>3, <3>4
  <2> QED BY <2>2, <2>3, <2>4
<1> QED BY LedgerInvariant, <1>1, PTL DEF Spec, CommitBooksItsMovements
-----------------------------------------------------------------------------
(* A backtest: sequences and sums *)

LEMMA Joined ==
  ASSUME NEW T, NEW s \in Seq(T), NEW t \in Seq(T)
  PROVE  /\ s \o t \in Seq(T) /\ Len(s \o t) = Len(s) + Len(t)
         /\ \A k \in 1..Len(s) : (s \o t)[k] = s[k]
         /\ \A k \in 1..Len(t) : (s \o t)[Len(s) + k] = t[k]
OBVIOUS

\* The first of several equal elements is the only one.
LEMMA RemoveOnly ==
  ASSUME NEW T, NEW s \in Seq(T), NEW i \in 1..Len(s), \A j \in 1..Len(s) : j # i => s[j] # s[i]
  PROVE  /\ RemoveFirst(s, s[i]) \in Seq(T)
         /\ Len(RemoveFirst(s, s[i])) = Len(s) - 1
         /\ \A k \in 1..(Len(s) - 1) : RemoveFirst(s, s[i])[k] = IF k < i THEN s[k] ELSE s[k + 1]
<1> DEFINE I == {k \in 1..Len(s) : s[k] = s[i]}
<1>1. I = {i}
  OBVIOUS
<1>2. (CHOOSE x \in I : \A y \in I : x <= y) = i
  BY <1>1
<1>3. RemoveFirst(s, s[i]) = RemoveAt(s, CHOOSE x \in I : \A y \in I : x <= y)
  BY <1>1 DEF RemoveFirst, SelectInSeq, Min
<1>4. RemoveFirst(s, s[i]) = SubSeq(s, 1, i - 1) \o SubSeq(s, i + 1, Len(s))
  BY <1>2, <1>3 DEF RemoveAt
<1> DEFINE A == SubSeq(s, 1, i - 1)
           C == SubSeq(s, i + 1, Len(s))
<1>5. A \in Seq(T) /\ Len(A) = i - 1 /\ \A k \in 1..(i - 1) : A[k] = s[k]
  OBVIOUS
<1>6. C \in Seq(T) /\ Len(C) = Len(s) - i /\ \A k \in 1..(Len(s) - i) : C[k] = s[k + i]
  OBVIOUS
<1> DEFINE r == A \o C
<1>7. RemoveFirst(s, s[i]) = r
  BY <1>4
<1> HIDE DEF A, C
<1>8. /\ r \in Seq(T) /\ Len(r) = Len(A) + Len(C)
      /\ \A k \in 1..Len(A) : r[k] = A[k]
      /\ \A k \in 1..Len(C) : r[Len(A) + k] = C[k]
  <2>1. A \in Seq(T) /\ C \in Seq(T)
    BY <1>5, <1>6
  <2>2. QED
    BY <2>1, Joined
<1> HIDE DEF r
<1>9. Len(s) \in Nat /\ i \in Int
  OBVIOUS
<1>10. r \in Seq(T) /\ Len(r) = Len(s) - 1
  BY <1>5, <1>6, <1>8, <1>9
<1>11. ASSUME NEW k \in 1..(Len(s) - 1) PROVE r[k] = IF k < i THEN s[k] ELSE s[k + 1]
  <2>1. CASE k < i
    <3>1. k \in 1..(i - 1)
      BY <1>9, <2>1
    <3>2. QED
      BY <1>5, <1>8, <2>1, <3>1
  <2>2. CASE k >= i
    <3> DEFINE j == k - (i - 1)
    <3>1. j \in 1..(Len(s) - i) /\ (i - 1) + j = k /\ j + i = k + 1
      BY <1>9, <2>2
    <3> HIDE DEF j
    <3>2. r[(i - 1) + j] = C[j] /\ C[j] = s[j + i]
      BY <1>5, <1>6, <1>8, <3>1
    <3>3. ~(k < i)
      BY <1>9, <2>2
    <3>4. QED
      BY <3>1, <3>2, <3>3
  <2>3. QED
    BY <2>1, <2>2
<1>12. QED
  BY <1>7, <1>10, <1>11

\* What a sequence of numbers adds up to.
Total(v) == SumFunctionOnSet(v, DOMAIN v)

LEMMA TotalType ==
  ASSUME NEW v \in Seq(Int)
  PROVE  Total(v) \in Int
<1>1. DOMAIN v = 1..Len(v) /\ IsFiniteSet(1..Len(v)) /\ Len(v) \in Nat
  BY PositionsAreFinite
<1>2. QED
  BY <1>1, SumType DEF Total

LEMMA TotalEmpty ==
  ASSUME NEW v \in Seq(Int), Len(v) = 0
  PROVE  Total(v) = 0
<1>1. DOMAIN v = {}
  OBVIOUS
<1>2. QED
  BY <1>1, SumEmpty DEF Total

LEMMA TotalAppend ==
  ASSUME NEW v \in Seq(Int), NEW w \in Seq(Int), Len(w) = Len(v) + 1,
         \A k \in 1..Len(v) : w[k] = v[k]
  PROVE  Total(w) = Total(v) + w[Len(w)]
<1> DEFINE n == Len(v)
<1>1. n \in Nat /\ DOMAIN v = 1..n /\ DOMAIN w = 1..(n + 1) /\ \A k \in 1..(n + 1) : w[k] \in Int
  OBVIOUS
<1>2. SumFunctionOnSet(w, 1..(n + 1)) = SumFunctionOnSet(w, 1..n) + w[n + 1]
  BY <1>1, SumNext
<1>3. SumFunctionOnSet(w, 1..n) = SumFunctionOnSet(v, 1..n)
  <2>1. IsFiniteSet(1..n) /\ \A k \in 1..n : w[k] \in Int /\ w[k] = v[k]
    BY <1>1, PositionsAreFinite
  <2>2. QED
    BY <2>1, SumSame
<1>4. QED
  BY <1>1, <1>2, <1>3 DEF Total

LEMMA TotalWithout ==
  ASSUME NEW v \in Seq(Int), NEW w \in Seq(Int), NEW i \in 1..Len(v), Len(w) = Len(v) - 1,
         \A k \in 1..Len(w) : w[k] = IF k < i THEN v[k] ELSE v[k + 1]
  PROVE  Total(w) = Total(v) - v[i]
<1> DEFINE n == Len(w)
<1>1. n \in Nat /\ DOMAIN w = 1..n /\ DOMAIN v = 1..(n + 1) /\ \A k \in 1..(n + 1) : v[k] \in Int
  OBVIOUS
<1>2. i \in 1..(n + 1) /\ \A k \in 1..n : w[k] = IF k < i THEN v[k] ELSE v[k + 1]
  OBVIOUS
<1>3. SumFunctionOnSet(w, 1..n) = SumFunctionOnSet(v, 1..(n + 1)) - v[i]
  BY <1>1, <1>2, SumWithout
<1>4. QED
  BY <1>1, <1>3 DEF Total

LEMMA TotalSame ==
  ASSUME NEW v \in Seq(Int), NEW w \in Seq(Int), Len(w) = Len(v), \A k \in 1..Len(v) : w[k] = v[k]
  PROVE  Total(w) = Total(v)
<1>1. v = w
  OBVIOUS
<1>2. QED
  BY <1>1
-----------------------------------------------------------------------------
(* A backtest: books and what closes a position *)

Pnl(b)   == [i \in DOMAIN b.closed |-> b.closed[i].pnl]
Lefts(b) == [i \in DOMAIN b.closed |-> LeftBehind(b.closed[i])]
Costs(b) == [i \in DOMAIN b.open |-> Invested(b.open[i])]

LEMMA TradeFields ==
  ASSUME NEW p \in Trades
  PROVE  /\ p.side \in Sides /\ p.quantity \in Int /\ p.entry \in Int /\ p.at \in Nat
         /\ p.stop \in OptionalLevels /\ p.target \in OptionalLevels
         /\ p.favorable \in Int /\ p.adverse \in Int /\ p.seen \in BOOLEAN
         /\ p.least \in Int /\ p.most \in Int
         /\ Cost(p) \in Int /\ Invested(p) \in Int
         /\ \A price_ \in Int : Gain(p, price_) \in Int
BY DEF Trades, Cost, Invested, Gain

LEMMA BookFields ==
  ASSUME NEW b \in Books
  PROVE  /\ b.cash \in Int /\ b.open \in Seq(Trades) /\ b.closed \in Seq(Records) /\ b.traded \in BOOLEAN
         /\ DOMAIN b.open = 1..Len(b.open) /\ DOMAIN b.closed = 1..Len(b.closed)
         /\ \A i \in DOMAIN b.open : b.open[i] \in Trades
         /\ \A i \in DOMAIN b.closed : /\ b.closed[i] \in Records
                                       /\ b.closed[i].trade \in Trades /\ b.closed[i].pnl \in Int
                                       /\ b.closed[i].reason \in Reasons
<1>1. /\ b.cash \in Int /\ b.open \in Seq(Trades) /\ b.closed \in Seq(Records) /\ b.traded \in BOOLEAN
  BY DEF Books
<1>2. /\ DOMAIN b.open = 1..Len(b.open) /\ DOMAIN b.closed = 1..Len(b.closed)
      /\ \A i \in DOMAIN b.open : b.open[i] \in Trades
      /\ \A i \in DOMAIN b.closed : b.closed[i] \in Records
  BY <1>1
<1>3. \A c \in Records : c.trade \in Trades /\ c.pnl \in Int /\ c.reason \in Reasons
  BY DEF Records
<1>4. QED
  BY <1>1, <1>2, <1>3

LEMMA BookSums ==
  ASSUME NEW b \in Books
  PROVE  /\ Pnl(b) \in Seq(Int) /\ Len(Pnl(b)) = Len(b.closed)
         /\ Lefts(b) \in Seq(Int) /\ Len(Lefts(b)) = Len(b.closed)
         /\ Costs(b) \in Seq(Int) /\ Len(Costs(b)) = Len(b.open)
         /\ \A i \in 1..Len(b.closed) : /\ Pnl(b)[i] = b.closed[i].pnl
                                        /\ Lefts(b)[i] = LeftBehind(b.closed[i])
         /\ \A i \in 1..Len(b.open) : Costs(b)[i] = Invested(b.open[i])
<1>1. /\ DOMAIN b.open = 1..Len(b.open) /\ DOMAIN b.closed = 1..Len(b.closed)
      /\ Len(b.open) \in Nat /\ Len(b.closed) \in Nat
      /\ \A i \in DOMAIN b.open : b.open[i] \in Trades
      /\ \A i \in DOMAIN b.closed : b.closed[i].trade \in Trades /\ b.closed[i].pnl \in Int
  BY BookFields
<1>2. \A i \in DOMAIN b.open : Invested(b.open[i]) \in Int
  BY <1>1, TradeFields
<1>3. \A i \in DOMAIN b.closed : LeftBehind(b.closed[i]) \in Int
  BY <1>1, TradeFields DEF LeftBehind
<1>4. QED
  BY <1>1, <1>2, <1>3 DEF Pnl, Lefts, Costs

LEMMA BalancedIs ==
  ASSUME NEW b \in Books
  PROVE  Balanced(b) <=> b.cash = Capital + Total(Pnl(b)) - Fee * (Len(b.closed) + Len(b.open))
                                  - Total(Costs(b)) + Total(Lefts(b))
<1>1. Total(Pnl(b)) = Sum(LAMBDA c : c.pnl, b.closed)
  BY DEF Total, Pnl, Sum
<1>2. Total(Costs(b)) = Sum(Invested, b.open)
  BY DEF Total, Costs, Sum
<1>3. Total(Lefts(b)) = Sum(LeftBehind, b.closed)
  BY DEF Total, Lefts, Sum
<1>4. QED
  BY <1>1, <1>2, <1>3, Zenon DEF Balanced

Ways == [price : Int, reason : Reasons]

LEMMA Distinct ==
  ASSUME NEW b \in Books, OnePerSide(b), NEW i \in DOMAIN b.open, NEW j \in DOMAIN b.open, i # j
  PROVE  b.open[i] # b.open[j]
BY DEF OnePerSide

LEMMA ClosedTradeType ==
  ASSUME NEW p \in Trades, NEW exit \in Ways, NEW t \in Int
  PROVE  /\ ClosedTrade(p, exit, t) \in Records
         /\ Gain(p, exit.price) \in Int /\ exit.price \in Int
<1>1. exit.price \in Int /\ exit.reason \in Reasons
  BY DEF Ways
<1>2. Gain(p, exit.price) \in Int /\ p.at \in Nat
  BY <1>1, TradeFields
<1>3. QED
  BY <1>1, <1>2 DEF ClosedTrade, Records

\* c is what closing the position at i leaves of b.
Shut(b, i, exit, t, c) ==
  /\ c.cash = b.cash + (IF b.open[i].side = "long" THEN exit.price * b.open[i].quantity
                        ELSE Cost(b.open[i]) + Gain(b.open[i], exit.price))
  /\ c.closed = Append(b.closed, ClosedTrade(b.open[i], exit, t))
  /\ i \in 1..Len(b.open) /\ Len(c.open) = Len(b.open) - 1
  /\ \A k \in 1..Len(c.open) : c.open[k] = IF k < i THEN b.open[k] ELSE b.open[k + 1]

LEMMA CloseBook ==
  ASSUME NEW b \in Books, OnePerSide(b), NEW i \in DOMAIN b.open, NEW exit \in Ways, NEW t \in Int,
         NEW c, c = Close(b, b.open[i], exit, t)
  PROVE  c \in Books /\ Shut(b, i, exit, t, c)
<1> DEFINE p == b.open[i]
           e == ClosedTrade(p, exit, t)
           cash == b.cash + (IF p.side = "long" THEN exit.price * p.quantity
                             ELSE Cost(p) + Gain(p, exit.price))
<1>1. b \in [cash : Int, open : Seq(Trades), closed : Seq(Records), traded : BOOLEAN]
  BY DEF Books
<1>2. p \in Trades /\ b.cash \in Int /\ DOMAIN b.open = 1..Len(b.open) /\ b.open \in Seq(Trades)
  BY BookFields
<1>3. e \in Records /\ Gain(p, exit.price) \in Int /\ exit.price \in Int
  BY <1>2, ClosedTradeType
<1>4. cash \in Int
  <2>1. p.quantity \in Int /\ Cost(p) \in Int
    BY <1>2, TradeFields
  <2> HIDE DEF p
  <2>2. QED
    BY <1>2, <1>3, <2>1
<1>5. /\ RemoveFirst(b.open, p) \in Seq(Trades)
      /\ Len(RemoveFirst(b.open, p)) = Len(b.open) - 1
      /\ \A k \in 1..(Len(b.open) - 1) : RemoveFirst(b.open, p)[k] = IF k < i THEN b.open[k] ELSE b.open[k + 1]
  <2>1. \A j \in 1..Len(b.open) : j # i => b.open[j] # b.open[i]
    BY <1>2, Distinct
  <2>2. b.open \in Seq(Trades) /\ i \in 1..Len(b.open) /\ p = b.open[i]
    BY <1>2
  <2> HIDE DEF p
  <2>3. QED
    BY <2>1, <2>2, RemoveOnly
<1>6. c = [b EXCEPT !.open = RemoveFirst(b.open, p), !.cash = cash, !.closed = Append(b.closed, e), !.traded = TRUE]
  BY DEF Close
<1> HIDE DEF p, e, cash
<1>7. c.open = RemoveFirst(b.open, p) /\ c.cash = cash /\ c.closed = Append(b.closed, e)
  BY <1>1, <1>6
<1>8. c \in Books
  <2> DEFINE closed == Append(b.closed, e)
             open == RemoveFirst(b.open, p)
  <2>1. closed \in Seq(Records) /\ open \in Seq(Trades)
    BY <1>1, <1>3, <1>5
  <2>2. c = [b EXCEPT !.open = open, !.cash = cash, !.closed = closed, !.traded = TRUE]
    BY <1>6
  <2> HIDE DEF closed, open
  <2>3. QED
    BY <1>1, <1>4, <2>1, <2>2 DEF Books
<1>9. QED
  BY <1>2, <1>5, <1>7, <1>8 DEF p, e, cash, Shut

\* What the sums become when a trade is closed, a position opened or taken out.
LEMMA ClosedAppended ==
  ASSUME NEW b \in Books, NEW c \in Books, NEW e \in Records, c.closed = Append(b.closed, e)
  PROVE  /\ Total(Pnl(c)) = Total(Pnl(b)) + e.pnl
         /\ Total(Lefts(c)) = Total(Lefts(b)) + LeftBehind(e)
         /\ Len(c.closed) = Len(b.closed) + 1
<1> DEFINE n == Len(b.closed)
<1>1. b.closed \in Seq(Records) /\ c.closed \in Seq(Records)
  BY BookFields
<1>2. n \in Nat /\ Len(c.closed) = n + 1 /\ c.closed[n + 1] = e /\ \A k \in 1..n : c.closed[k] = b.closed[k]
  BY <1>1
<1>3. /\ Pnl(b) \in Seq(Int) /\ Len(Pnl(b)) = n /\ Lefts(b) \in Seq(Int) /\ Len(Lefts(b)) = n
      /\ \A k \in 1..n : Pnl(b)[k] = b.closed[k].pnl /\ Lefts(b)[k] = LeftBehind(b.closed[k])
  BY BookSums
<1>4. /\ Pnl(c) \in Seq(Int) /\ Len(Pnl(c)) = n + 1 /\ Lefts(c) \in Seq(Int) /\ Len(Lefts(c)) = n + 1
      /\ \A k \in 1..(n + 1) : Pnl(c)[k] = c.closed[k].pnl /\ Lefts(c)[k] = LeftBehind(c.closed[k])
  BY <1>2, BookSums
<1> HIDE DEF n
<1>5. \A k \in 1..n : k \in 1..(n + 1)
  BY <1>2
<1>6. \A k \in 1..n : Pnl(c)[k] = Pnl(b)[k] /\ Lefts(c)[k] = Lefts(b)[k]
  BY <1>2, <1>3, <1>4, <1>5
<1>7. Pnl(c)[n + 1] = e.pnl /\ Lefts(c)[n + 1] = LeftBehind(e)
  BY <1>2, <1>4
<1>8. Total(Pnl(c)) = Total(Pnl(b)) + e.pnl
  <2>1. /\ Pnl(b) \in Seq(Int) /\ Pnl(c) \in Seq(Int) /\ Len(Pnl(c)) = Len(Pnl(b)) + 1
        /\ \A k \in 1..Len(Pnl(b)) : Pnl(c)[k] = Pnl(b)[k]
    BY <1>3, <1>4, <1>6
  <2>2. Total(Pnl(c)) = Total(Pnl(b)) + Pnl(c)[Len(Pnl(c))]
    BY <2>1, TotalAppend
  <2>3. QED
    BY <1>4, <1>7, <2>2
<1>9. Total(Lefts(c)) = Total(Lefts(b)) + LeftBehind(e)
  <2>1. /\ Lefts(b) \in Seq(Int) /\ Lefts(c) \in Seq(Int) /\ Len(Lefts(c)) = Len(Lefts(b)) + 1
        /\ \A k \in 1..Len(Lefts(b)) : Lefts(c)[k] = Lefts(b)[k]
    BY <1>3, <1>4, <1>6
  <2>2. Total(Lefts(c)) = Total(Lefts(b)) + Lefts(c)[Len(Lefts(c))]
    BY <2>1, TotalAppend
  <2>3. QED
    BY <1>4, <1>7, <2>2
<1>10. QED
  BY <1>2, <1>8, <1>9 DEF n

LEMMA CostsAppended ==
  ASSUME NEW b \in Books, NEW c \in Books, NEW p \in Trades, c.open = Append(b.open, p)
  PROVE  Total(Costs(c)) = Total(Costs(b)) + Invested(p) /\ Len(c.open) = Len(b.open) + 1
<1> DEFINE n == Len(b.open)
<1>1. b.open \in Seq(Trades) /\ c.open \in Seq(Trades)
  BY BookFields
<1>2. n \in Nat /\ Len(c.open) = n + 1 /\ c.open[n + 1] = p /\ \A k \in 1..n : c.open[k] = b.open[k]
  BY <1>1
<1>3. Costs(b) \in Seq(Int) /\ Len(Costs(b)) = n /\ \A k \in 1..n : Costs(b)[k] = Invested(b.open[k])
  BY BookSums
<1>4. Costs(c) \in Seq(Int) /\ Len(Costs(c)) = n + 1 /\ \A k \in 1..(n + 1) : Costs(c)[k] = Invested(c.open[k])
  BY <1>2, BookSums
<1> HIDE DEF n
<1>5. \A k \in 1..n : k \in 1..(n + 1)
  BY <1>2
<1>6. \A k \in 1..n : Costs(c)[k] = Costs(b)[k]
  BY <1>2, <1>3, <1>4, <1>5
<1>7. Costs(c)[n + 1] = Invested(p)
  BY <1>2, <1>4
<1>8. Total(Costs(c)) = Total(Costs(b)) + Invested(p)
  BY <1>3, <1>4, <1>6, <1>7, TotalAppend
<1>9. QED
  BY <1>2, <1>8 DEF n

LEMMA CostsWithout ==
  ASSUME NEW b \in Books, NEW c \in Books, NEW i \in 1..Len(b.open), Len(c.open) = Len(b.open) - 1,
         \A k \in 1..Len(c.open) : c.open[k] = IF k < i THEN b.open[k] ELSE b.open[k + 1]
  PROVE  Total(Costs(c)) = Total(Costs(b)) - Invested(b.open[i])
<1> DEFINE n == Len(c.open)
<1>1. n \in Nat /\ Len(b.open) = n + 1 /\ i \in 1..(n + 1)
  BY BookFields
<1>2. Costs(b) \in Seq(Int) /\ Len(Costs(b)) = n + 1 /\ \A k \in 1..(n + 1) : Costs(b)[k] = Invested(b.open[k])
  BY <1>1, BookSums
<1>3. Costs(c) \in Seq(Int) /\ Len(Costs(c)) = n /\ \A k \in 1..n : Costs(c)[k] = Invested(c.open[k])
  BY BookSums
<1>4. \A k \in 1..n : c.open[k] = IF k < i THEN b.open[k] ELSE b.open[k + 1]
  OBVIOUS
<1> HIDE DEF n
<1>5. \A k \in 1..n : Costs(c)[k] = IF k < i THEN Costs(b)[k] ELSE Costs(b)[k + 1]
  <2> TAKE k \in 1..n
  <2>1. k \in 1..(n + 1) /\ k + 1 \in 1..(n + 1)
    BY <1>1
  <2>2. CASE k < i
    BY <1>2, <1>3, <1>4, <2>1, <2>2
  <2>3. CASE ~(k < i)
    BY <1>2, <1>3, <1>4, <2>1, <2>3
  <2>4. QED
    BY <2>2, <2>3
<1>6. Total(Costs(c)) = Total(Costs(b)) - Costs(b)[i]
  <2>1. i \in 1..Len(Costs(b)) /\ Len(Costs(c)) = Len(Costs(b)) - 1
    BY <1>1, <1>2, <1>3
  <2>2. \A k \in 1..Len(Costs(c)) : Costs(c)[k] = IF k < i THEN Costs(b)[k] ELSE Costs(b)[k + 1]
    BY <1>3, <1>5
  <2>3. QED
    BY <1>2, <1>3, <2>1, <2>2, TotalWithout
<1>7. QED
  BY <1>1, <1>2, <1>6

LEMMA BookTotals ==
  ASSUME NEW b \in Books
  PROVE  Total(Pnl(b)) \in Int /\ Total(Lefts(b)) \in Int /\ Total(Costs(b)) \in Int
BY BookSums, TotalType

\* The books stay balanced when a position is closed.
LEMMA CloseBalance ==
  ASSUME NEW b \in Books, OnePerSide(b), NEW i \in DOMAIN b.open, NEW exit \in Ways, NEW t \in Int,
         NEW c \in Books, Shut(b, i, exit, t, c)
  PROVE  /\ OnePerSide(c)
         /\ Balanced(b) => Balanced(c)
<1> DEFINE p == b.open[i]
           e == ClosedTrade(p, exit, t)
           n == Len(b.closed)
           m == Len(b.open)
<1>1. /\ c.cash = b.cash + (IF p.side = "long" THEN exit.price * p.quantity ELSE Cost(p) + Gain(p, exit.price))
      /\ c.closed = Append(b.closed, e)
      /\ Len(c.open) = m - 1 /\ i \in 1..m
      /\ \A k \in 1..Len(c.open) : c.open[k] = IF k < i THEN b.open[k] ELSE b.open[k + 1]
  BY DEF Shut
<1>2. p \in Trades /\ b.closed \in Seq(Records) /\ b.cash \in Int /\ n \in Nat /\ m \in Nat
      /\ DOMAIN b.open = 1..m /\ DOMAIN c.open = 1..(m - 1)
  BY <1>1, BookFields
<1>3. e.pnl = Gain(p, exit.price) /\ e.trade = p /\ e \in Records
      /\ Gain(p, exit.price) \in Int /\ exit.price \in Int
  BY <1>2, ClosedTradeType DEF ClosedTrade
<1>4. OnePerSide(c)
  <2> SUFFICES ASSUME NEW j \in 1..(m - 1), NEW k \in 1..(m - 1), j # k
               PROVE  c.open[j].symbol # c.open[k].symbol \/ c.open[j].side # c.open[k].side
    BY <1>2 DEF OnePerSide
  <2> DEFINE jj == IF j < i THEN j ELSE j + 1
             kk == IF k < i THEN k ELSE k + 1
  <2>1. jj \in 1..m /\ kk \in 1..m /\ jj # kk
    BY <1>1, <1>2
  <2>2. c.open[j] = b.open[jj] /\ c.open[k] = b.open[kk]
    BY <1>1
  <2> HIDE DEF jj, kk
  <2>3. QED
    BY <1>2, <2>1, <2>2 DEF OnePerSide
<1>5. Len(c.closed) = n + 1 /\ c.closed[n + 1] = e /\ \A k \in 1..n : c.closed[k] = b.closed[k]
  BY <1>1, <1>2, <1>3
<1>6. Total(Pnl(c)) = Total(Pnl(b)) + Gain(p, exit.price) /\ Total(Lefts(c)) = Total(Lefts(b)) + LeftBehind(e)
  BY <1>1, <1>3, ClosedAppended
<1>7. Total(Costs(c)) = Total(Costs(b)) - Invested(p)
  BY <1>1, CostsWithout
<1>8. Total(Pnl(b)) \in Int /\ Total(Lefts(b)) \in Int /\ Total(Costs(b)) \in Int
  BY BookTotals
<1> HIDE DEF p, e, n, m
<1>9. c.cash = b.cash + Gain(p, exit.price) + Invested(p) + LeftBehind(e)
  <2>1. p.side \in Sides /\ p.entry \in Int /\ p.quantity \in Int /\ Cost(p) \in Int
    BY <1>2, TradeFields
  <2>2. CASE p.side = "long"
    <3>1. Invested(p) = p.entry * p.quantity /\ LeftBehind(e) = 0
          /\ Gain(p, exit.price) = (exit.price - p.entry) * p.quantity
      BY <1>3, <2>2 DEF Invested, LeftBehind, Cost, Gain
    <3>2. (exit.price - p.entry) * p.quantity = exit.price * p.quantity - p.entry * p.quantity
      BY <1>3, <2>1
    <3>3. exit.price * p.quantity \in Int /\ p.entry * p.quantity \in Int
      BY <1>3, <2>1
    <3>4. c.cash = b.cash + exit.price * p.quantity
      BY <1>1, <2>2
    <3> DEFINE x == exit.price * p.quantity
               y == p.entry * p.quantity
    <3>5. c.cash = b.cash + x /\ Gain(p, exit.price) = x - y /\ Invested(p) = y /\ x \in Int /\ y \in Int
      BY <3>1, <3>2, <3>3, <3>4
    <3> HIDE DEF x, y
    <3>6. QED
      BY <1>2, <3>1, <3>5
  <2>3. CASE p.side = "short"
    <3>1. Invested(p) = 0 /\ LeftBehind(e) = Cost(p)
      BY <1>3, <2>3 DEF Invested, LeftBehind
    <3>2. c.cash = b.cash + (Cost(p) + Gain(p, exit.price))
      BY <1>1, <2>3
    <3>3. QED
      BY <1>2, <1>3, <2>1, <3>1, <3>2
  <2>4. QED
    BY <2>1, <2>2, <2>3 DEF Sides
<1>10. Invested(p) \in Int /\ LeftBehind(e) \in Int
  BY <1>2, <1>3, TradeFields DEF LeftBehind
<1>11. Fee * (Len(c.closed) + Len(c.open)) = Fee * (n + m) /\ Fee * (n + m) \in Int /\ Capital \in Int
  <2>1. Len(c.closed) + Len(c.open) = n + m /\ n + m \in Int
    BY <1>1, <1>2, <1>5
  <2> DEFINE k == n + m
  <2>2. Len(c.closed) + Len(c.open) = k /\ k \in Int
    BY <2>1
  <2> HIDE DEF k
  <2>3. Fee \in Int /\ Capital \in Int
    BY BacktestAssumption
  <2>4. Fee * k \in Int
    BY <2>2, <2>3
  <2>5. QED
    BY <2>2, <2>3, <2>4 DEF k
<1>12. ASSUME Balanced(b) PROVE Balanced(c)
  <2> DEFINE fees == Fee * (n + m)
  <2>1. b.cash = Capital + Total(Pnl(b)) - fees - Total(Costs(b)) + Total(Lefts(b))
    BY <1>12, BalancedIs DEF n, m
  <2>2. Fee * (Len(c.closed) + Len(c.open)) = fees /\ fees \in Int
    BY <1>11
  <2> HIDE DEF fees
  <2>3. c.cash = Capital + Total(Pnl(c)) - fees - Total(Costs(c)) + Total(Lefts(c))
    <3> DEFINE gain == Gain(p, exit.price)
               cost == Total(Costs(b))
               left == Total(Lefts(b))
               pnl == Total(Pnl(b))
               in == Invested(p)
               out == LeftBehind(e)
    <3>1. /\ gain \in Int /\ b.cash \in Int /\ Capital \in Int /\ cost \in Int
          /\ left \in Int /\ pnl \in Int /\ in \in Int /\ out \in Int /\ fees \in Int
      BY <1>2, <1>3, <1>8, <1>10, <1>11, <2>2
    <3>2. /\ c.cash = b.cash + gain + in + out
          /\ Total(Pnl(c)) = pnl + gain /\ Total(Costs(c)) = cost - in /\ Total(Lefts(c)) = left + out
      BY <1>6, <1>7, <1>9
    <3>3. b.cash = Capital + pnl - fees - cost + left
      BY <2>1
    <3> HIDE DEF gain, cost, left, pnl, in, out
    <3>4. b.cash + gain + in + out = Capital + (pnl + gain) - fees - (cost - in) + (left + out)
      BY <3>1, <3>3
    <3>5. QED
      BY <3>2, <3>4
  <2>4. QED
    BY <2>2, <2>3, BalancedIs, Zenon
<1>13. QED
  BY <1>4, <1>12

-----------------------------------------------------------------------------
(* A backtest: the positions are closed one after the other *)

MaybeWays == {None} \cup [1..1 -> Ways]

OneClosed(a, p, exits, t) == IF exits[p] = None THEN a ELSE Close(a, p, exits[p][1], t)

\* What the library chooses for it.
Closing(b, exits, t) ==
  CHOOSE it : it = [s \in SUBSET (DOMAIN b.open) |->
    IF s = {} THEN b ELSE OneClosed(it[s \ {Highest(s)}], b.open[Highest(s)], exits, t)]

LEMMA CloseEachIsFold ==
  ASSUME NEW b, NEW exits, NEW t
  PROVE  CloseEach(b, exits, t) = Closing(b, exits, t)[DOMAIN b.open]
BY DEF CloseEach, Closing, FoldLeft, MapThenFoldSet, Highest, Max, OneClosed

\* The book after each position, on the way from b to c.
ClosingPath(path, b, exits, t, c) ==
  /\ path[0] = b /\ path[Len(b.open)] = c
  /\ \A k \in 1..Len(b.open) : path[k] = OneClosed(path[k - 1], b.open[k], exits, t)

\* The books a backtest can have: one position on a side.
GoodBooks == {b \in Books : OnePerSide(b)}

\* A book from which the positions of b up to k that have an exit are gone, and
\* the others are there.
Gone(a, b, exits, t, k) ==
  /\ \A i \in DOMAIN a.open : \E j \in DOMAIN b.open :
       a.open[i] = b.open[j] /\ (j <= k => exits[b.open[j]] = None)
  /\ \A j \in DOMAIN b.open : (j <= k => exits[b.open[j]] = None) => \E i \in DOMAIN a.open : a.open[i] = b.open[j]
  /\ \A i \in DOMAIN a.closed :
       \/ i \in DOMAIN b.closed /\ a.closed[i] = b.closed[i]
       \/ \E j \in DOMAIN b.open : /\ exits[b.open[j]] # None
                                   /\ a.closed[i] = ClosedTrade(b.open[j], exits[b.open[j]][1], t)

LEMMA RemoveType ==
  ASSUME NEW T, NEW s \in Seq(T), NEW e
  PROVE  RemoveFirst(s, e) \in Seq(T)
<1>1. CASE ~ \E i \in 1..Len(s) : s[i] = e
  BY <1>1 DEF RemoveFirst
<1>2. CASE \E i \in 1..Len(s) : s[i] = e
  <2> DEFINE I == {i \in 1..Len(s) : s[i] = e}
             m == CHOOSE x \in I : \A y \in I : x <= y
  <2>1. I # {} /\ I \subseteq 1..Len(s) /\ Len(s) \in Nat
    BY <1>2
  <2> HIDE DEF I
  <2>2. \E x \in I : \A y \in I : x <= y
    <3>1. PICK x \in I : \A y \in I : ~(<<y, x>> \in OpToRel(<, Nat))
      <4>1. I \subseteq Nat
        BY <2>1
      <4>2. QED
        BY <2>1, <4>1, NatLessThanWellFounded, WFMin, Zenon
    <3>2. \A y \in I : x <= y
      <4> TAKE y \in I
      <4>1. x \in Nat /\ y \in Nat
        BY <2>1
      <4>2. ~(y < x)
        BY <3>1, <4>1 DEF OpToRel
      <4>3. QED
        BY <4>1, <4>2
    <3>3. QED
      BY <3>2
  <2>3. m \in I
    BY <2>2
  <2>4. RemoveFirst(s, e) = SubSeq(s, 1, m - 1) \o SubSeq(s, m + 1, Len(s))
    BY <1>2, <2>1 DEF RemoveFirst, SelectInSeq, RemoveAt, Min, I
  <2> HIDE DEF m
  <2>5. m \in 1..Len(s)
    BY <2>1, <2>3
  <2>6. SubSeq(s, 1, m - 1) \in Seq(T) /\ SubSeq(s, m + 1, Len(s)) \in Seq(T)
    BY <2>1, <2>5
  <2>7. QED
    BY <2>4, <2>6, Joined
<1>3. QED
  BY <1>1, <1>2

LEMMA OneClosedType ==
  ASSUME NEW a \in Books, NEW p \in Trades, NEW exits, exits[p] \in MaybeWays, NEW t \in Int
  PROVE  OneClosed(a, p, exits, t) \in Books
<1>1. CASE exits[p] = None
  BY <1>1 DEF OneClosed
<1>2. CASE exits[p] # None
  <2> DEFINE exit == exits[p][1]
             e == ClosedTrade(p, exit, t)
             cash == a.cash + (IF p.side = "long" THEN exit.price * p.quantity ELSE Cost(p) + Gain(p, exit.price))
             open == RemoveFirst(a.open, p)
             closed == Append(a.closed, e)
  <2>1. exit \in Ways
    BY <1>2 DEF MaybeWays
  <2>2. a.cash \in Int /\ a.open \in Seq(Trades) /\ a.closed \in Seq(Records)
    BY BookFields
  <2>3. e \in Records /\ Gain(p, exit.price) \in Int /\ exit.price \in Int
    <3> HIDE DEF exit
    <3>1. QED
      BY <2>1, ClosedTradeType
  <2>4. cash \in Int
    <3>1. p.quantity \in Int /\ Cost(p) \in Int
      BY TradeFields
    <3> HIDE DEF exit
    <3>2. QED
      BY <2>2, <2>3, <3>1
  <2>5. open \in Seq(Trades) /\ closed \in Seq(Records)
    <3> HIDE DEF e
    <3>1. QED
      BY <2>2, <2>3, RemoveType
  <2>6. OneClosed(a, p, exits, t) = [a EXCEPT !.open = open, !.cash = cash, !.closed = closed, !.traded = TRUE]
    BY <1>2 DEF OneClosed, Close
  <2> HIDE DEF open, cash, closed
  <2>7. QED
    BY <2>4, <2>5, <2>6 DEF Books
<1>3. QED
  BY <1>1, <1>2

LEMMA ClosingPathExists ==
  ASSUME NEW b \in Books, NEW exits, \A i \in DOMAIN b.open : exits[b.open[i]] \in MaybeWays, NEW t \in Int
  PROVE  \E path \in [0..Len(b.open) -> Books] : ClosingPath(path, b, exits, t, CloseEach(b, exits, t))
<1> DEFINE n == Len(b.open)
           step == [z \in (1..n) \X Books |-> OneClosed(z[2], b.open[z[1]], exits, t)]
           Is(it) == it = [s \in SUBSET (DOMAIN b.open) |->
                       IF s = {} THEN b ELSE OneClosed(it[s \ {Highest(s)}], b.open[Highest(s)], exits, t)]
           it == Closing(b, exits, t)
<1>1. n \in Nat /\ DOMAIN b.open = 1..n /\ \A i \in 1..n : b.open[i] \in Trades
  BY BookFields
<1>2. \A k \in 1..n, a \in Books : OneClosed(a, b.open[k], exits, t) \in Books
  BY <1>1, OneClosedType
<1>3. step \in [(1..n) \X Books -> Books] /\ \A k \in 1..n, a \in Books : step[<<k, a>>] = OneClosed(a, b.open[k], exits, t)
  BY <1>2
<1> HIDE DEF step, n
<1>4. PICK g \in [SUBSET (1..n) -> Books] : FoldsPositions(g, b, step, n)
  BY <1>1, <1>3, SequenceFoldExists
<1>5. \A s \in SUBSET (1..n) :
        g[s] = IF s = {} THEN b ELSE OneClosed(g[s \ {Highest(s)}], b.open[Highest(s)], exits, t)
  <2> TAKE s \in SUBSET (1..n)
  <2>1. CASE s = {}
    BY <1>4, <2>1 DEF FoldsPositions
  <2>2. CASE s # {}
    <3>1. Highest(s) \in 1..n /\ g[s \ {Highest(s)}] \in Books
      BY <1>1, <1>4, <2>2, HighestIn
    <3>2. g[s] = step[<<Highest(s), g[s \ {Highest(s)}]>>]
      BY <1>4, <2>2 DEF FoldsPositions
    <3>3. QED
      BY <1>3, <2>2, <3>1, <3>2
  <2>3. QED
    BY <2>1, <2>2
<1>6. Is(g)
  BY <1>1, <1>5
<1>7. Is(it)
  <2>1. it = CHOOSE h : Is(h)
    BY DEF Closing
  <2> HIDE DEF Is, it
  <2>2. QED
    BY <1>6, <2>1
<1>8. CloseEach(b, exits, t) = it[1..n]
  BY <1>1, CloseEachIsFold
<1> HIDE DEF it
<1>9. \A s \in SUBSET (1..n) :
        it[s] = IF s = {} THEN b ELSE OneClosed(it[s \ {Highest(s)}], b.open[Highest(s)], exits, t)
  BY <1>1, <1>7
<1> HIDE DEF Is
<1>10. it[{}] = b
  BY <1>9
<1>11. ASSUME NEW k \in 1..n, it[1..(k - 1)] \in Books
       PROVE  it[1..k] = step[<<k, it[1..(k - 1)]>>]
  <2>1. 1..k \in SUBSET (1..n) /\ 1..k # {} /\ Highest(1..k) = k /\ (1..k) \ {k} = 1..(k - 1)
    <3>1. k \in Nat \ {0}
      BY <1>1
    <3>2. 1..k \in SUBSET (1..n)
      BY <1>1
    <3>3. QED
      BY <3>1, <3>2, TopOfPrefix
  <2>2. it[1..k] = OneClosed(it[1..(k - 1)], b.open[k], exits, t)
    BY <1>9, <2>1
  <2>3. QED
    BY <1>3, <1>11, <2>2
<1>12. PICK path \in [0..n -> Books] : PathOf(path, b, step, n, it[1..n])
  <2>1. n \in Nat /\ step \in [(1..n) \X Books -> Books]
    BY <1>1, <1>3
  <2>2. FoldsPrefixes(it, b, step, n, Books)
    BY <1>10, <1>11 DEF FoldsPrefixes
  <2>3. QED
    BY <2>1, <2>2, FoldPath
<1>13. \A k \in 1..n : path[k] = OneClosed(path[k - 1], b.open[k], exits, t)
  <2> TAKE k \in 1..n
  <2>1. path[k - 1] \in Books
    BY <1>1, <1>12
  <2>2. QED
    BY <1>3, <1>12, <2>1 DEF PathOf
<1>14. QED
  BY <1>8, <1>12, <1>13 DEF n, ClosingPath, PathOf

\* What has gone once the next position is looked at.
LEMMA GoneStep ==
  ASSUME NEW b \in GoodBooks, NEW exits, \A i \in DOMAIN b.open : exits[b.open[i]] \in MaybeWays, NEW t \in Int,
         NEW k \in 1..Len(b.open), NEW a \in GoodBooks, Gone(a, b, exits, t, k - 1),
         NEW c, c = OneClosed(a, b.open[k], exits, t)
  PROVE  /\ c \in GoodBooks /\ Gone(c, b, exits, t, k)
         /\ Balanced(a) => Balanced(c)
<1> DEFINE n == Len(b.open)
           p == b.open[k]
<1>1. /\ b \in Books /\ a \in Books /\ OnePerSide(b) /\ OnePerSide(a)
      /\ DOMAIN b.open = 1..n /\ n \in Nat /\ DOMAIN a.open = 1..Len(a.open) /\ Len(a.open) \in Nat
  BY BookFields DEF GoodBooks
<1>2. /\ \A i \in DOMAIN a.open : \E j \in DOMAIN b.open :
           a.open[i] = b.open[j] /\ (j <= k - 1 => exits[b.open[j]] = None)
      /\ \A j \in DOMAIN b.open :
           (j <= k - 1 => exits[b.open[j]] = None) => \E i \in DOMAIN a.open : a.open[i] = b.open[j]
      /\ \A i \in DOMAIN a.closed :
           \/ i \in DOMAIN b.closed /\ a.closed[i] = b.closed[i]
           \/ \E j \in DOMAIN b.open : /\ exits[b.open[j]] # None
                                       /\ a.closed[i] = ClosedTrade(b.open[j], exits[b.open[j]][1], t)
  BY DEF Gone
<1>3. CASE exits[p] = None
  <2>1. c = a
    BY <1>3 DEF OneClosed
  <2>2. \A j \in DOMAIN b.open : (j <= k => exits[b.open[j]] = None) <=> (j <= k - 1 => exits[b.open[j]] = None)
    BY <1>1, <1>3
  <2>3. Gone(a, b, exits, t, k)
    BY <1>2, <2>2 DEF Gone
  <2>4. QED
    BY <2>1, <2>3
<1>4. CASE exits[p] # None
  <2> DEFINE exit == exits[p][1]
  <2>1. exit \in Ways /\ c = Close(a, p, exit, t)
    BY <1>1, <1>4 DEF MaybeWays, OneClosed
  <2> HIDE DEF exit
  <2>2. PICK i \in DOMAIN a.open : a.open[i] = p
    BY <1>1, <1>2
  <2>3. c \in Books /\ Shut(a, i, exit, t, c)
    BY <1>1, <2>1, <2>2, CloseBook
  <2>4. OnePerSide(c) /\ (Balanced(a) => Balanced(c))
    BY <1>1, <2>1, <2>3, CloseBalance
  <2>5. /\ c.closed = Append(a.closed, ClosedTrade(p, exit, t))
        /\ i \in 1..Len(a.open) /\ Len(c.open) = Len(a.open) - 1
        /\ \A m \in 1..Len(c.open) : c.open[m] = IF m < i THEN a.open[m] ELSE a.open[m + 1]
    BY <2>2, <2>3 DEF Shut
  <2>6. DOMAIN c.open = 1..(Len(a.open) - 1) /\ a.closed \in Seq(Records) /\ ClosedTrade(p, exit, t) \in Records
    BY <1>1, <2>1, <2>3, <2>5, BookFields, ClosedTradeType
  <2>7. ASSUME NEW m \in DOMAIN c.open
        PROVE  \E j \in DOMAIN b.open : c.open[m] = b.open[j] /\ (j <= k => exits[b.open[j]] = None)
    <3> DEFINE mm == IF m < i THEN m ELSE m + 1
    <3>1. mm \in DOMAIN a.open /\ mm # i /\ c.open[m] = a.open[mm]
      <4>1. m \in 1..(Len(a.open) - 1) /\ m \in 1..Len(c.open)
        BY <2>5, <2>6
      <4>2. c.open[m] = a.open[mm]
        BY <2>5, <4>1
      <4>3. mm \in 1..Len(a.open) /\ mm # i
        BY <1>1, <2>5, <4>1
      <4>4. QED
        BY <1>1, <4>2, <4>3
    <3> HIDE DEF mm
    <3>2. PICK j \in DOMAIN b.open : a.open[mm] = b.open[j] /\ (j <= k - 1 => exits[b.open[j]] = None)
      BY <1>2, <3>1
    <3>3. a.open[mm] # a.open[i]
      BY <1>1, <3>1, Distinct
    <3>4. j # k
      BY <2>2, <3>2, <3>3
    <3>5. j <= k => j <= k - 1
      BY <1>1, <3>4
    <3>6. QED
      BY <3>1, <3>2, <3>5
  <2>8. ASSUME NEW j \in DOMAIN b.open, j <= k => exits[b.open[j]] = None
        PROVE  \E m \in DOMAIN c.open : c.open[m] = b.open[j]
    <3>1. j # k
      BY <1>1, <1>4, <2>8
    <3>2. j <= k - 1 => exits[b.open[j]] = None
      BY <1>1, <2>8
    <3>3. PICK l \in DOMAIN a.open : a.open[l] = b.open[j]
      BY <1>2, <3>2
    <3>4. k \in DOMAIN b.open /\ b.open[j] # b.open[k]
      BY <1>1, <3>1, Distinct
    <3>5. l # i
      BY <2>2, <3>3, <3>4
    <3> DEFINE m == IF l < i THEN l ELSE l - 1
    <3>6. m \in 1..Len(c.open) /\ (IF m < i THEN m = l ELSE m + 1 = l)
      <4>1. l \in 1..Len(a.open) /\ i \in 1..Len(a.open) /\ Len(a.open) \in Nat /\ Len(c.open) = Len(a.open) - 1
        BY <1>1, <2>5, <3>3
      <4>2. l < i \/ l > i
        BY <3>5, <4>1
      <4>3. QED
        BY <4>1, <4>2
    <3> HIDE DEF m
    <3>7. c.open[m] = a.open[l]
      BY <2>5, <3>6
    <3>8. QED
      BY <2>5, <2>6, <3>3, <3>6, <3>7
  <2>9. ASSUME NEW m \in DOMAIN c.closed
        PROVE  \/ m \in DOMAIN b.closed /\ c.closed[m] = b.closed[m]
               \/ \E j \in DOMAIN b.open : /\ exits[b.open[j]] # None
                                           /\ c.closed[m] = ClosedTrade(b.open[j], exits[b.open[j]][1], t)
    <3>1. CASE m \in DOMAIN a.closed
      <4>1. c.closed[m] = a.closed[m]
        BY <2>5, <2>6, <3>1
      <4>2. QED
        BY <1>2, <3>1, <4>1
    <3>2. CASE m \notin DOMAIN a.closed
      <4>1. c.closed[m] = ClosedTrade(p, exit, t)
        BY <2>5, <2>6, <3>2
      <4>2. k \in DOMAIN b.open
        BY <1>1
      <4>3. QED
        BY <1>4, <4>1, <4>2 DEF exit
    <3>3. QED
      BY <3>1, <3>2
  <2>10. Gone(c, b, exits, t, k)
    BY <2>7, <2>8, <2>9 DEF Gone
  <2>11. QED
    BY <2>3, <2>4, <2>10 DEF GoodBooks
<1>5. QED
  BY <1>3, <1>4

\* What is left when all of them have been looked at.
LEMMA CloseEachLeaves ==
  ASSUME NEW b \in GoodBooks, NEW exits, \A i \in DOMAIN b.open : exits[b.open[i]] \in MaybeWays, NEW t \in Int
  PROVE  /\ CloseEach(b, exits, t) \in GoodBooks
         /\ Gone(CloseEach(b, exits, t), b, exits, t, Len(b.open))
         /\ Balanced(b) => Balanced(CloseEach(b, exits, t))
<1> DEFINE n == Len(b.open)
<1>1. b \in Books /\ n \in Nat /\ DOMAIN b.open = 1..n
  BY BookFields DEF GoodBooks
<1>2. PICK path \in [0..n -> Books] : ClosingPath(path, b, exits, t, CloseEach(b, exits, t))
  BY <1>1, ClosingPathExists
<1>3. /\ path[0] = b /\ path[n] = CloseEach(b, exits, t)
      /\ \A k \in 1..n : path[k] = OneClosed(path[k - 1], b.open[k], exits, t)
  BY <1>2 DEF ClosingPath
<1> DEFINE Left(k) == /\ path[k] \in GoodBooks /\ Gone(path[k], b, exits, t, k)
                      /\ Balanced(b) => Balanced(path[k])
           B == {k \in Nat : k <= n => Left(k)}
<1>4. 0 \in B
  <2>1. Gone(b, b, exits, t, 0)
    BY <1>1 DEF Gone
  <2>2. QED
    BY <1>3, <2>1
<1>5. ASSUME NEW k \in Nat, k \in B PROVE k + 1 \in B
  <2> SUFFICES ASSUME k + 1 <= n PROVE Left(k + 1)
    OBVIOUS
  <2>1. Left(k)
    BY <1>1, <1>5
  <2>2. k + 1 \in 1..n /\ (k + 1) - 1 = k
    BY <1>1
  <2>3. path[k + 1] = OneClosed(path[k], b.open[k + 1], exits, t)
    BY <1>3, <2>2
  <2>4. Gone(path[k], b, exits, t, (k + 1) - 1)
    BY <2>1, <2>2
  <2>5. /\ path[k + 1] \in GoodBooks /\ Gone(path[k + 1], b, exits, t, k + 1)
        /\ Balanced(path[k]) => Balanced(path[k + 1])
    BY <2>1, <2>2, <2>3, <2>4, GoneStep
  <2>6. QED
    BY <2>1, <2>5
<1> HIDE DEF B
<1>6. \A k \in Nat : k \in B
  BY <1>4, <1>5, NumberInduction
<1>7. Left(n)
  BY <1>1, <1>6 DEF B
<1>8. QED
  BY <1>3, <1>7

-----------------------------------------------------------------------------
(* A backtest: what is done to a book during a bar *)

\* What the books are between two calls of the engine.
Sound(b) == b \in GoodBooks /\ Balanced(b) /\ OneSided(b)

\* The exits so far are on time, the bar at index included.
InTime(p) ==
  Judged(p) => /\ ~Stopped(p) /\ ~Reached(p)
               /\ engine = "conditions" /\ MaxHold # 0 /\ p.symbol = Symbols[at] => index - p.at < MaxHold

Timely(b) ==
  /\ \A i \in DOMAIN b.open : InTime(b.open[i])
  /\ \A i \in DOMAIN b.closed : Judged(b.closed[i].trade) => ClosedInTime(b.closed[i])

LEMMA ExitIsWay ==
  ASSUME NEW x \in Int, NEW reason \in Reasons
  PROVE  /\ Exit(x, reason) \in MaybeWays /\ Exit(x, reason) # None
         /\ Exit(x, reason)[1] \in Ways
         /\ Exit(x, reason)[1].price = x /\ Exit(x, reason)[1].reason = reason
<1> DEFINE w == [price |-> x, reason |-> reason]
<1>1. w \in Ways /\ w.price = x /\ w.reason = reason
  BY DEF Ways
<1>2. Exit(x, reason) = <<w>>
  BY DEF Exit, Some
<1> HIDE DEF w
<1>3. <<w>> \in [1..1 -> Ways] /\ <<w>> # <<>> /\ <<w>>[1] = w
  BY <1>1
<1>4. QED
  BY <1>1, <1>2, <1>3 DEF MaybeWays, None

LEMMA BarFields ==
  ASSUME NEW bar \in Bars
  PROVE  bar.high \in Int /\ bar.low \in Int /\ bar.close \in Int
BY BacktestAssumption

LEMMA LevelOf ==
  ASSUME NEW l \in OptionalLevels, l # None
  PROVE  l[1] \in Int
BY DEF OptionalLevels

LEMMA ConstantTypes ==
  /\ Capital \in Int /\ Slip \in Int /\ Fee \in Int
  /\ Warmup \in Nat /\ Stop \in Nat /\ Target \in Nat /\ MaxHold \in Nat
  /\ Interval \in Nat \ {0}
BY BacktestAssumption

LEMMA ConditionExitWay ==
  ASSUME NEW p \in Trades, NEW bar \in Bars
  PROVE  ConditionExit(p, bar) \in MaybeWays
<1>1. Below(p, Stop) \in Int /\ Below(p, -Target) \in Int
  BY TradeFields, ConstantTypes DEF Below
<1>2. {"stop_loss", "take_profit", "time_exit"} \subseteq Reasons
  BY DEF Reasons
<1>3. /\ Exit(Below(p, Stop), "stop_loss") \in MaybeWays
      /\ Exit(Below(p, -Target), "take_profit") \in MaybeWays
      /\ Exit(bar.close, "time_exit") \in MaybeWays
  BY <1>1, <1>2, ExitIsWay, BarFields
<1>4. None \in MaybeWays
  BY DEF MaybeWays
<1>5. QED
  BY <1>3, <1>4, Zenon DEF ConditionExit

LEMMA PythonExitWay ==
  ASSUME NEW p \in Trades, NEW bar \in Bars
  PROVE  PythonExit(p, bar) \in MaybeWays
<1>1. p.stop \in OptionalLevels /\ p.target \in OptionalLevels
  BY TradeFields
<1>2. {"stop_loss", "take_profit", "time_exit"} \subseteq Reasons
  BY DEF Reasons
<1>3. /\ p.stop # None => Exit(p.stop[1], "stop_loss") \in MaybeWays
      /\ p.target # None => Exit(p.target[1], "take_profit") \in MaybeWays
  BY <1>1, <1>2, LevelOf, ExitIsWay
<1>4. None \in MaybeWays
  BY DEF MaybeWays
<1>5. QED
  BY <1>3, <1>4, Zenon DEF PythonExit

LEMMA ExitOfWay ==
  ASSUME NEW p \in Trades, NEW symbol, NEW bar \in Bars
  PROVE  ExitOf(p, symbol, bar) \in MaybeWays
<1>1. None \in MaybeWays
  BY DEF MaybeWays
<1>2. QED
  BY <1>1, ConditionExitWay, PythonExitWay DEF ExitOf

\* Books whose positions have been closed stay on their side.
LEMMA GoneSide ==
  ASSUME NEW b \in GoodBooks, OneSided(b), NEW exits, NEW t, NEW c \in GoodBooks,
         Gone(c, b, exits, t, Len(b.open))
  PROVE  OneSided(c)
<1> SUFFICES ASSUME engine = "conditions"
             PROVE  /\ \A i \in DOMAIN c.open : c.open[i].side = side
                    /\ \A i \in DOMAIN c.closed : c.closed[i].trade.side = side
  BY DEF OneSided
<1>1. /\ \A i \in DOMAIN b.open : b.open[i].side = side
      /\ \A i \in DOMAIN b.closed : b.closed[i].trade.side = side
  BY DEF OneSided
<1>2. ASSUME NEW i \in DOMAIN c.open PROVE c.open[i].side = side
  <2>1. PICK j \in DOMAIN b.open : c.open[i] = b.open[j]
    BY DEF Gone
  <2>2. QED
    BY <1>1, <2>1
<1>3. ASSUME NEW i \in DOMAIN c.closed PROVE c.closed[i].trade.side = side
  <2>1. CASE i \in DOMAIN b.closed /\ c.closed[i] = b.closed[i]
    BY <1>1, <2>1
  <2>2. ASSUME NEW j \in DOMAIN b.open, c.closed[i] = ClosedTrade(b.open[j], exits[b.open[j]][1], t)
        PROVE  c.closed[i].trade.side = side
    <3>1. c.closed[i].trade = b.open[j]
      BY <2>2 DEF ClosedTrade
    <3>2. QED
      BY <1>1, <3>1
  <2>3. QED
    BY <2>1, <2>2 DEF Gone
<1>4. QED
  BY <1>2, <1>3

\* CloseEach keeps books sound.
LEMMA CloseEachSound ==
  ASSUME NEW b, Sound(b), NEW exits, \A i \in DOMAIN b.open : exits[b.open[i]] \in MaybeWays, NEW t \in Int
  PROVE  Sound(CloseEach(b, exits, t)) /\ Gone(CloseEach(b, exits, t), b, exits, t, Len(b.open))
<1>1. b \in GoodBooks /\ Balanced(b) /\ OneSided(b)
  BY DEF Sound
<1> DEFINE c == CloseEach(b, exits, t)
<1>2. c \in GoodBooks /\ Gone(c, b, exits, t, Len(b.open)) /\ Balanced(c)
  BY <1>1, CloseEachLeaves
<1> HIDE DEF c
<1>3. OneSided(c)
  BY <1>1, <1>2, GoneSide
<1>4. QED
  BY <1>2, <1>3 DEF Sound, c

LEMMA SoundFields ==
  ASSUME NEW b, Sound(b)
  PROVE  /\ b \in Books /\ OnePerSide(b) /\ DOMAIN b.open = 1..Len(b.open) /\ Len(b.open) \in Nat
         /\ \A i \in DOMAIN b.open : b.open[i] \in Trades
BY BookFields DEF Sound, GoodBooks

\* The same positions, but for what has been seen of them.
SamePositions(b, c) ==
  /\ c.cash = b.cash /\ c.closed = b.closed /\ Len(c.open) = Len(b.open)
  /\ \A i \in DOMAIN b.open :
       /\ c.open[i].symbol = b.open[i].symbol /\ c.open[i].side = b.open[i].side
       /\ c.open[i].quantity = b.open[i].quantity /\ c.open[i].entry = b.open[i].entry

LEMMA SameSound ==
  ASSUME NEW b, Sound(b), NEW c \in Books, SamePositions(b, c)
  PROVE  Sound(c)
<1> DEFINE n == Len(b.open)
<1>1. b \in Books /\ OnePerSide(b) /\ n \in Nat /\ Balanced(b) /\ OneSided(b) /\ DOMAIN b.open = 1..n
  BY SoundFields DEF Sound
<1>2. Len(c.open) = n /\ DOMAIN c.open = 1..n /\ c.cash = b.cash /\ c.closed = b.closed
  BY BookFields DEF SamePositions
<1>3. \A i \in 1..n : /\ c.open[i].symbol = b.open[i].symbol /\ c.open[i].side = b.open[i].side
                      /\ c.open[i].quantity = b.open[i].quantity /\ c.open[i].entry = b.open[i].entry
  BY <1>1 DEF SamePositions
<1>4. OnePerSide(c)
  BY <1>1, <1>2, <1>3 DEF OnePerSide
<1>5. OneSided(c)
  BY <1>1, <1>2, <1>3 DEF OneSided
<1>6. \A i \in 1..n : Invested(c.open[i]) = Invested(b.open[i])
  BY <1>3 DEF Invested, Cost
<1>7. Total(Costs(c)) = Total(Costs(b))
  <2>1. Costs(b) \in Seq(Int) /\ Len(Costs(b)) = n /\ \A i \in 1..n : Costs(b)[i] = Invested(b.open[i])
    BY <1>1, BookSums
  <2>2. Costs(c) \in Seq(Int) /\ Len(Costs(c)) = n /\ \A i \in 1..n : Costs(c)[i] = Invested(c.open[i])
    BY <1>2, BookSums
  <2>3. \A i \in 1..n : Costs(c)[i] = Costs(b)[i]
    BY <1>6, <2>1, <2>2
  <2> HIDE DEF n
  <2>4. QED
    BY <2>1, <2>2, <2>3, TotalSame
<1>8. Pnl(c) = Pnl(b) /\ Lefts(c) = Lefts(b)
  BY <1>2 DEF Pnl, Lefts
<1>9. Balanced(c)
  <2>1. b.cash = Capital + Total(Pnl(b)) - Fee * (Len(b.closed) + Len(b.open)) - Total(Costs(b)) + Total(Lefts(b))
    BY <1>1, BalancedIs
  <2>2. c.cash = Capital + Total(Pnl(c)) - Fee * (Len(c.closed) + Len(c.open)) - Total(Costs(c)) + Total(Lefts(c))
    BY <1>2, <1>7, <1>8, <2>1
  <2>3. QED
    BY <2>2, BalancedIs
<1>10. QED
  BY <1>4, <1>5, <1>9 DEF Sound, GoodBooks

\* A sequence of positions in place of the open ones.
LEMMA Reopened ==
  ASSUME NEW b \in Books, NEW f \in [1..Len(b.open) -> Trades], NEW c, c = [b EXCEPT !.open = f]
  PROVE  c \in Books /\ c.open = f /\ c.cash = b.cash /\ c.closed = b.closed /\ Len(c.open) = Len(b.open)
<1>1. Len(b.open) \in Nat
  BY BookFields
<1>2. f \in Seq(Trades) /\ Len(f) = Len(b.open)
  BY <1>1
<1>3. QED
  BY <1>2 DEF Books

\* A bar is seen.
SeenBy(p, symbol, bar) ==
  IF p.symbol # symbol THEN p
  ELSE [p EXCEPT !.seen = TRUE,
                 !.least = IF p.seen THEN Lesser(@, bar.low) ELSE bar.low,
                 !.most = IF p.seen THEN Greater(@, bar.high) ELSE bar.high]

LEMMA SeenByType ==
  ASSUME NEW p \in Trades, NEW symbol, NEW bar \in Bars
  PROVE  SeenBy(p, symbol, bar) \in Trades
<1> DEFINE least == IF p.seen THEN Lesser(p.least, bar.low) ELSE bar.low
           most == IF p.seen THEN Greater(p.most, bar.high) ELSE bar.high
<1>1. least \in Int /\ most \in Int
  BY TradeFields, BarFields DEF Lesser, Greater
<1>2. SeenBy(p, symbol, bar) = IF p.symbol # symbol THEN p ELSE [p EXCEPT !.seen = TRUE, !.least = least, !.most = most]
  BY DEF SeenBy
<1> HIDE DEF least, most
<1>3. QED
  BY <1>1, <1>2 DEF Trades

LEMMA SeenSound ==
  ASSUME NEW b, Sound(b), NEW symbol, NEW bar \in Bars
  PROVE  /\ Sound(Seen(b, symbol, bar)) /\ Len(Seen(b, symbol, bar).open) = Len(b.open)
         /\ Seen(b, symbol, bar).closed = b.closed
         /\ \A i \in DOMAIN b.open : Seen(b, symbol, bar).open[i] = SeenBy(b.open[i], symbol, bar)
<1> DEFINE n == Len(b.open)
           f == [i \in 1..n |-> SeenBy(b.open[i], symbol, bar)]
           c == Seen(b, symbol, bar)
<1>1. b \in Books /\ DOMAIN b.open = 1..n /\ n \in Nat /\ \A i \in 1..n : b.open[i] \in Trades
  BY SoundFields
<1>2. c = [b EXCEPT !.open = f]
  BY DEF Seen, SeenBy
<1>3. f \in [1..n -> Trades] /\ \A i \in 1..n : f[i] = SeenBy(b.open[i], symbol, bar)
  BY <1>1, SeenByType
<1> HIDE DEF f, c
<1>4. c \in Books /\ c.open = f /\ c.cash = b.cash /\ c.closed = b.closed /\ Len(c.open) = n
  BY <1>1, <1>2, <1>3, Reopened
<1>5. \A p \in Trades : LET q == SeenBy(p, symbol, bar) IN
        q.symbol = p.symbol /\ q.side = p.side /\ q.quantity = p.quantity /\ q.entry = p.entry
  BY DEF SeenBy, Trades
<1>6. SamePositions(b, c)
  BY <1>1, <1>3, <1>4, <1>5 DEF SamePositions
<1>7. QED
  BY <1>1, <1>3, <1>4, <1>6, SameSound DEF c

\* The excursions of a position.
ExcursionOf(p, symbol, bar) ==
  LET up == bar.high - p.entry
      down == p.entry - bar.low
  IN IF p.symbol # symbol THEN p
     ELSE [p EXCEPT !.favorable = Greater(@, IF p.side = "long" THEN up ELSE down),
                    !.adverse   = Greater(@, IF p.side = "long" THEN down ELSE up)]

LEMMA ExcursionOfType ==
  ASSUME NEW p \in Trades, NEW symbol, NEW bar \in Bars
  PROVE  ExcursionOf(p, symbol, bar) \in Trades
<1> DEFINE up == bar.high - p.entry
           down == p.entry - bar.low
           favorable == Greater(p.favorable, IF p.side = "long" THEN up ELSE down)
           adverse == Greater(p.adverse, IF p.side = "long" THEN down ELSE up)
<1>1. up \in Int /\ down \in Int
  BY TradeFields, BarFields
<1>2. ExcursionOf(p, symbol, bar)
        = IF p.symbol # symbol THEN p ELSE [p EXCEPT !.favorable = favorable, !.adverse = adverse]
  BY DEF ExcursionOf
<1> HIDE DEF up, down
<1>3. favorable \in Int /\ adverse \in Int
  BY <1>1, TradeFields DEF Greater
<1> HIDE DEF favorable, adverse
<1>4. QED
  BY <1>2, <1>3 DEF Trades

LEMMA ExcursionSound ==
  ASSUME NEW b, Sound(b), NEW symbol, NEW bar \in Bars
  PROVE  /\ Sound(Excursion(b, symbol, bar)) /\ Len(Excursion(b, symbol, bar).open) = Len(b.open)
         /\ Excursion(b, symbol, bar).closed = b.closed
         /\ \A i \in DOMAIN b.open : Excursion(b, symbol, bar).open[i] = ExcursionOf(b.open[i], symbol, bar)
<1> DEFINE n == Len(b.open)
           f == [i \in 1..n |-> ExcursionOf(b.open[i], symbol, bar)]
           c == Excursion(b, symbol, bar)
<1>1. b \in Books /\ DOMAIN b.open = 1..n /\ n \in Nat /\ \A i \in 1..n : b.open[i] \in Trades
  BY SoundFields
<1>2. c = [b EXCEPT !.open = f]
  BY DEF Excursion, ExcursionOf
<1>3. f \in [1..n -> Trades] /\ \A i \in 1..n : f[i] = ExcursionOf(b.open[i], symbol, bar)
  BY <1>1, ExcursionOfType
<1> HIDE DEF f, c
<1>4. c \in Books /\ c.open = f /\ c.cash = b.cash /\ c.closed = b.closed /\ Len(c.open) = n
  BY <1>1, <1>2, <1>3, Reopened
<1>5. \A p \in Trades : LET q == ExcursionOf(p, symbol, bar) IN
        q.symbol = p.symbol /\ q.side = p.side /\ q.quantity = p.quantity /\ q.entry = p.entry
  BY DEF ExcursionOf, Trades
<1>6. SamePositions(b, c)
  BY <1>1, <1>3, <1>4, <1>5 DEF SamePositions
<1>7. QED
  BY <1>1, <1>3, <1>4, <1>6, SameSound DEF c

LEMMA RecordedSound ==
  ASSUME NEW b, Sound(b)
  PROVE  /\ Sound(Recorded(b)) /\ Recorded(b).open = b.open /\ Recorded(b).closed = b.closed
<1>1. b \in Books
  BY SoundFields
<1>2. /\ Recorded(b) \in Books /\ Recorded(b).open = b.open /\ Recorded(b).closed = b.closed
      /\ Recorded(b).cash = b.cash
  BY <1>1 DEF Recorded, Books
<1>3. SamePositions(b, Recorded(b))
  BY <1>2 DEF SamePositions
<1>4. QED
  BY <1>2, <1>3, SameSound

-----------------------------------------------------------------------------
(* A backtest: no exit is late and none is flattering *)

\* What a position is held against.
Hit(p, bar)  == StopOf(p) # None /\ Hurts(p, StopOf(p)[1], bar)
Made(p, bar) == TargetOf(p) # None /\ Helps(p, TargetOf(p)[1], bar)

LEMMA SomeIs == \A x : Some(x) # None /\ Some(x)[1] = x
BY DEF Some, None

LEMMA LevelTypes ==
  ASSUME NEW p \in Trades
  PROVE  /\ StopOf(p) # None => StopOf(p)[1] \in Int
         /\ TargetOf(p) # None => TargetOf(p)[1] \in Int
<1>1. Below(p, Stop) \in Int /\ Below(p, -Target) \in Int
  BY TradeFields, ConstantTypes DEF Below
<1>2. p.stop \in OptionalLevels /\ p.target \in OptionalLevels
  BY TradeFields
<1>3. StopOf(p) # None => StopOf(p)[1] \in Int
  BY <1>1, <1>2, LevelOf, SomeIs DEF StopOf
<1>4. TargetOf(p) # None => TargetOf(p)[1] \in Int
  BY <1>1, <1>2, LevelOf, SomeIs DEF TargetOf
<1>5. QED
  BY <1>3, <1>4

\* The exit of a position of the symbol being replayed, and what it says of the bar.
LEMMA ExitMeaning ==
  ASSUME NEW p \in Trades, NEW bar \in Bars
  PROVE  LET exit == ExitOf(p, p.symbol, bar) IN
         /\ Hit(p, bar) => exit # None /\ exit[1].reason = "stop_loss"
         /\ ~Hit(p, bar) /\ Made(p, bar) => exit # None /\ exit[1].reason = "take_profit"
         /\ ~Hit(p, bar) /\ ~Made(p, bar) =>
              \/ exit = None /\ (engine = "conditions" /\ MaxHold # 0 => ~(index - p.at >= MaxHold))
              \/ exit # None /\ exit[1].reason = "time_exit"
<1>1. Below(p, Stop) \in Int /\ Below(p, -Target) \in Int /\ bar.close \in Int
  BY TradeFields, ConstantTypes, BarFields DEF Below
<1>2. {"stop_loss", "take_profit", "time_exit"} \subseteq Reasons
  BY DEF Reasons
<1>3. CASE engine = "python"
  <2>1. ExitOf(p, p.symbol, bar) = PythonExit(p, bar) /\ StopOf(p) = p.stop /\ TargetOf(p) = p.target
    BY <1>3 DEF ExitOf, StopOf, TargetOf
  <2>2. p.stop # None => Exit(p.stop[1], "stop_loss") # None /\ Exit(p.stop[1], "stop_loss")[1].reason = "stop_loss"
    BY <1>2, TradeFields, LevelOf, ExitIsWay
  <2>3. p.target # None =>
          Exit(p.target[1], "take_profit") # None /\ Exit(p.target[1], "take_profit")[1].reason = "take_profit"
    BY <1>2, TradeFields, LevelOf, ExitIsWay
  <2>4. engine # "conditions"
    BY <1>3
  <2>5. CASE Hit(p, bar)
    BY <2>1, <2>2, <2>5 DEF Hit, PythonExit
  <2>6. CASE ~Hit(p, bar) /\ Made(p, bar)
    BY <2>1, <2>3, <2>6 DEF Hit, Made, PythonExit
  <2>7. CASE ~Hit(p, bar) /\ ~Made(p, bar)
    BY <2>1, <2>4, <2>7 DEF Hit, Made, PythonExit
  <2>8. QED
    BY <2>5, <2>6, <2>7
<1>4. CASE engine # "python"
  <2>1. /\ ExitOf(p, p.symbol, bar) = ConditionExit(p, bar)
        /\ StopOf(p) = (IF Stop = 0 THEN None ELSE Some(Below(p, Stop)))
        /\ TargetOf(p) = (IF Target = 0 THEN None ELSE Some(Below(p, -Target)))
    BY <1>4 DEF ExitOf, StopOf, TargetOf
  <2>2. /\ Exit(Below(p, Stop), "stop_loss") # None
        /\ Exit(Below(p, Stop), "stop_loss")[1].reason = "stop_loss"
        /\ Exit(Below(p, -Target), "take_profit") # None
        /\ Exit(Below(p, -Target), "take_profit")[1].reason = "take_profit"
        /\ Exit(bar.close, "time_exit") # None
        /\ Exit(bar.close, "time_exit")[1].reason = "time_exit"
    BY <1>1, <1>2, ExitIsWay
  <2>3. Hit(p, bar) <=> Stop # 0 /\ Hurts(p, Below(p, Stop), bar)
    BY <2>1, SomeIs DEF Hit
  <2>4. Made(p, bar) <=> Target # 0 /\ Helps(p, Below(p, -Target), bar)
    BY <2>1, SomeIs DEF Made
  <2>5. CASE Hit(p, bar)
    BY <2>1, <2>2, <2>3, <2>5, Zenon DEF ConditionExit
  <2>6. CASE ~Hit(p, bar) /\ Made(p, bar)
    BY <2>1, <2>2, <2>3, <2>4, <2>6, Zenon DEF ConditionExit
  <2>7. CASE ~Hit(p, bar) /\ ~Made(p, bar)
    BY <2>1, <2>2, <2>3, <2>4, <2>7, Zenon DEF ConditionExit
  <2>8. QED
    BY <2>5, <2>6, <2>7
<1>5. QED
  BY <1>3, <1>4

\* A position that had met neither its stop nor its target meets them in the bar it sees.
LEMMA MetInBar ==
  ASSUME NEW p \in Trades, NEW bar \in Bars, ~Stopped(p), ~Reached(p),
         NEW q, q = SeenBy(p, p.symbol, bar)
  PROVE  /\ Stopped(q) <=> Hit(q, bar)
         /\ Reached(q) <=> Made(q, bar)
<1> DEFINE least == IF p.seen THEN Lesser(p.least, bar.low) ELSE bar.low
           most == IF p.seen THEN Greater(p.most, bar.high) ELSE bar.high
<1>1. q = [p EXCEPT !.seen = TRUE, !.least = least, !.most = most]
  BY DEF SeenBy
<1>2. q.seen /\ q.least = least /\ q.most = most /\ q.side = p.side /\ q.entry = p.entry
      /\ q.stop = p.stop /\ q.target = p.target
  BY <1>1 DEF Trades
<1>3. StopOf(q) = StopOf(p) /\ TargetOf(q) = TargetOf(p)
  BY <1>2 DEF StopOf, TargetOf, Below
<1>4. /\ p.least \in Int /\ p.most \in Int /\ bar.low \in Int /\ bar.high \in Int
      /\ StopOf(p) # None => StopOf(p)[1] \in Int
      /\ TargetOf(p) # None => TargetOf(p)[1] \in Int
  BY TradeFields, BarFields, LevelTypes
<1>5. ASSUME NEW l \in Int
      PROVE  /\ Hurts(q, l, Stretch(q)) <=> (p.seen /\ Hurts(p, l, Stretch(p))) \/ Hurts(q, l, bar)
             /\ Helps(q, l, Stretch(q)) <=> (p.seen /\ Helps(p, l, Stretch(p))) \/ Helps(q, l, bar)
  BY <1>2, <1>4, TradeFields DEF Hurts, Helps, Stretch, Lesser, Greater
<1>6. Stopped(q) <=> Hit(q, bar)
  BY <1>2, <1>3, <1>4, <1>5 DEF Stopped, Hit
<1>7. Reached(q) <=> Made(q, bar)
  BY <1>2, <1>3, <1>4, <1>5 DEF Reached, Made
<1>8. QED
  BY <1>6, <1>7

\* What a bar makes of a position that has been kept in time.
LEMMA JudgedPosition ==
  ASSUME NEW p \in Trades, NEW bar \in Bars, at \in 1..Len(Symbols), index \in Nat,
         Judged(p) => KeptInTime(p),
         NEW q, q = SeenBy(p, Symbols[at], bar), NEW exit, exit = ExitOf(q, Symbols[at], bar)
  PROVE  /\ exit = None => InTime(q)
         /\ exit # None /\ Judged(q) => ClosedInTime(ClosedTrade(q, exit[1], index))
<1>1. q \in Trades /\ q.symbol = p.symbol /\ (Judged(q) <=> Judged(p))
  <2>1. q \in Trades
    BY SeenByType
  <2>2. q.symbol = p.symbol
    BY DEF SeenBy, Trades
  <2>3. QED
    BY <2>1, <2>2 DEF Judged
<1>2. CASE ~Judged(q)
  BY <1>2 DEF InTime
<1>3. CASE Judged(q) /\ p.symbol # Symbols[at]
  <2>1. q = p /\ engine = "conditions"
    BY <1>1, <1>3 DEF SeenBy, Judged
  <2>2. exit = None
    BY <1>3, <2>1 DEF ExitOf
  <2>3. InTime(q)
    BY <1>1, <1>3, <2>1 DEF InTime, KeptInTime
  <2>4. QED
    BY <2>2, <2>3
<1>4. CASE Judged(q) /\ p.symbol = Symbols[at]
  <2>1. ~Stopped(p) /\ ~Reached(p)
    BY <1>1, <1>4 DEF KeptInTime
  <2>2. (Stopped(q) <=> Hit(q, bar)) /\ (Reached(q) <=> Made(q, bar))
    BY <1>4, <2>1, MetInBar
  <2>3. exit = ExitOf(q, q.symbol, bar)
    BY <1>1, <1>4
  <2>4. /\ Hit(q, bar) => exit # None /\ exit[1].reason = "stop_loss"
        /\ ~Hit(q, bar) /\ Made(q, bar) => exit # None /\ exit[1].reason = "take_profit"
        /\ ~Hit(q, bar) /\ ~Made(q, bar) =>
             \/ exit = None /\ (engine = "conditions" /\ MaxHold # 0 => ~(index - q.at >= MaxHold))
             \/ exit # None /\ exit[1].reason = "time_exit"
    BY <1>1, <2>3, ExitMeaning
  <2>5. exit # None => /\ ClosedTrade(q, exit[1], index).trade = q
                       /\ ClosedTrade(q, exit[1], index).reason = exit[1].reason
    BY DEF ClosedTrade
  <2>6. CASE Hit(q, bar)
    BY <2>2, <2>4, <2>5, <2>6 DEF ClosedInTime
  <2>7. CASE ~Hit(q, bar) /\ Made(q, bar)
    BY <2>2, <2>4, <2>5, <2>7 DEF ClosedInTime
  <2>8. CASE ~Hit(q, bar) /\ ~Made(q, bar)
    <3>1. CASE exit = None /\ (engine = "conditions" /\ MaxHold # 0 => ~(index - q.at >= MaxHold))
      <4>1. ~(index - q.at >= MaxHold) => index - q.at < MaxHold
        <5>1. q.at \in Nat
          BY <1>1, TradeFields
        <5>2. MaxHold \in Nat
          BY ConstantTypes
        <5>3. QED
          BY <5>1, <5>2
      <4>2. QED
        BY <2>2, <2>8, <3>1, <4>1 DEF InTime
    <3>2. CASE exit # None /\ exit[1].reason = "time_exit"
      BY <2>2, <2>5, <2>8, <3>2 DEF ClosedInTime
    <3>3. QED
      BY <2>4, <2>8, <3>1, <3>2
  <2>9. QED
    BY <2>6, <2>7, <2>8
<1>5. QED
  BY <1>2, <1>3, <1>4

\* What the bars have done to the book when the exits have been checked.
LEMMA ExitedKeeps ==
  ASSUME at \in 1..Len(Symbols), index \in Nat, Sound(book), ExitsOnTime, NEW bar \in Bars
  PROVE  Sound(Exited(bar)) /\ Timely(Exited(bar))
<1> DEFINE symbol == Symbols[at]
           b == Seen(book, symbol, bar)
           exits == [p \in Range(b.open) |-> ExitOf(p, symbol, bar)]
           c == Exited(bar)
<1>1. /\ Sound(b) /\ Len(b.open) = Len(book.open) /\ b.closed = book.closed
      /\ \A i \in DOMAIN book.open : b.open[i] = SeenBy(book.open[i], symbol, bar)
  BY SeenSound
<1>2. c = CloseEach(b, exits, index)
  BY DEF Exited, CheckExits
<1> HIDE DEF b
<1>3. DOMAIN b.open = DOMAIN book.open /\ \A i \in DOMAIN book.open : b.open[i] \in Trades /\ book.open[i] \in Trades
  BY <1>1, SoundFields
<1>4. \A i \in DOMAIN b.open : exits[b.open[i]] = ExitOf(b.open[i], symbol, bar)
  BY DEF Range
<1> HIDE DEF exits, c
<1>5. \A i \in DOMAIN b.open : exits[b.open[i]] \in MaybeWays
  BY <1>3, <1>4, ExitOfWay
<1>6. index \in Int
  OBVIOUS
<1>7. Sound(c) /\ Gone(c, b, exits, index, Len(b.open))
  BY <1>1, <1>2, <1>5, <1>6, CloseEachSound
<1>8. ASSUME NEW j \in DOMAIN b.open
      PROVE  /\ exits[b.open[j]] = None => InTime(b.open[j])
             /\ exits[b.open[j]] # None /\ Judged(b.open[j]) => ClosedInTime(ClosedTrade(b.open[j], exits[b.open[j]][1], index))
  <2>1. book.open[j] \in Trades /\ (Judged(book.open[j]) => KeptInTime(book.open[j]))
    BY <1>3 DEF ExitsOnTime
  <2>2. b.open[j] = SeenBy(book.open[j], symbol, bar) /\ exits[b.open[j]] = ExitOf(b.open[j], symbol, bar)
    BY <1>1, <1>3, <1>4
  <2>3. QED
    BY <2>1, <2>2, JudgedPosition
<1>9. ASSUME NEW i \in DOMAIN c.open PROVE InTime(c.open[i])
  <2>1. PICK j \in DOMAIN b.open : c.open[i] = b.open[j] /\ (j <= Len(b.open) => exits[b.open[j]] = None)
    BY <1>7 DEF Gone
  <2>2. j <= Len(b.open)
    BY <1>1, SoundFields
  <2>3. QED
    BY <1>8, <2>1, <2>2
<1>10. ASSUME NEW i \in DOMAIN c.closed, Judged(c.closed[i].trade) PROVE ClosedInTime(c.closed[i])
  <2>1. CASE i \in DOMAIN b.closed /\ c.closed[i] = b.closed[i]
    BY <1>1, <1>10, <2>1 DEF ExitsOnTime
  <2>2. ASSUME NEW j \in DOMAIN b.open, exits[b.open[j]] # None,
               c.closed[i] = ClosedTrade(b.open[j], exits[b.open[j]][1], index)
        PROVE  ClosedInTime(c.closed[i])
    <3>1. c.closed[i].trade = b.open[j]
      BY <2>2 DEF ClosedTrade
    <3>2. QED
      BY <1>8, <1>10, <2>2, <3>1
  <2>3. QED
    BY <1>7, <2>1, <2>2 DEF Gone
<1>11. QED
  BY <1>7, <1>9, <1>10 DEF Timely, c

\* Positions closed by a signal were in time, and the others are.
LEMMA BySignalKeeps ==
  ASSUME index \in Nat, NEW b, Sound(b), NEW closing, NEW bar \in Bars
  PROVE  /\ Sound(BySignal(b, closing, bar))
         /\ Timely(b) => Timely(BySignal(b, closing, bar))
         /\ \A i \in DOMAIN BySignal(b, closing, bar).open :
              \E j \in DOMAIN b.open : BySignal(b, closing, bar).open[i] = b.open[j] /\ b.open[j] \notin closing
<1> DEFINE exits == [p \in Range(b.open) |-> IF p \in closing THEN Exit(bar.close, "signal") ELSE None]
           c == BySignal(b, closing, bar)
<1>1. c = CloseEach(b, exits, index)
  BY DEF BySignal
<1>2. \A i \in DOMAIN b.open : exits[b.open[i]] = IF b.open[i] \in closing THEN Exit(bar.close, "signal") ELSE None
  BY DEF Range
<1> HIDE DEF exits, c
<1>3. /\ Exit(bar.close, "signal") \in MaybeWays /\ Exit(bar.close, "signal") # None
      /\ Exit(bar.close, "signal")[1].reason = "signal" /\ None \in MaybeWays
  <2>1. "signal" \in Reasons /\ bar.close \in Int
    BY BarFields DEF Reasons
  <2>2. QED
    BY <2>1, ExitIsWay DEF MaybeWays
<1>4. \A i \in DOMAIN b.open : exits[b.open[i]] \in MaybeWays
  BY <1>2, <1>3
<1>5. index \in Int
  OBVIOUS
<1>6. Sound(c) /\ Gone(c, b, exits, index, Len(b.open))
  BY <1>1, <1>4, <1>5, CloseEachSound
<1>7. ASSUME NEW i \in DOMAIN c.open
      PROVE  \E j \in DOMAIN b.open : c.open[i] = b.open[j] /\ b.open[j] \notin closing
  <2>1. PICK j \in DOMAIN b.open : c.open[i] = b.open[j] /\ (j <= Len(b.open) => exits[b.open[j]] = None)
    BY <1>6 DEF Gone
  <2>2. j <= Len(b.open)
    BY SoundFields
  <2>3. QED
    BY <1>2, <1>3, <2>1, <2>2
<1>8. ASSUME Timely(b) PROVE Timely(c)
  <2>1. /\ \A i \in DOMAIN b.open : InTime(b.open[i])
        /\ \A i \in DOMAIN b.closed : Judged(b.closed[i].trade) => ClosedInTime(b.closed[i])
    BY <1>8 DEF Timely
  <2>2. \A i \in DOMAIN c.open : InTime(c.open[i])
    BY <1>7, <2>1
  <2>3. ASSUME NEW i \in DOMAIN c.closed, Judged(c.closed[i].trade) PROVE ClosedInTime(c.closed[i])
    <3>1. CASE i \in DOMAIN b.closed /\ c.closed[i] = b.closed[i]
      BY <2>1, <2>3, <3>1
    <3>2. ASSUME NEW j \in DOMAIN b.open, exits[b.open[j]] # None,
                 c.closed[i] = ClosedTrade(b.open[j], exits[b.open[j]][1], index)
          PROVE  ClosedInTime(c.closed[i])
      <4>1. c.closed[i].trade = b.open[j] /\ c.closed[i].reason = "signal"
        BY <1>2, <1>3, <3>2 DEF ClosedTrade
      <4>2. InTime(b.open[j]) /\ Judged(b.open[j])
        BY <2>1, <2>3, <4>1
      <4>3. QED
        BY <4>1, <4>2 DEF InTime, ClosedInTime
    <3>3. QED
      BY <1>6, <3>1, <3>2 DEF Gone
  <2>4. QED
    BY <2>2, <2>3 DEF Timely
<1>9. QED
  BY <1>6, <1>7, <1>8 DEF c

-----------------------------------------------------------------------------
(* A backtest: positions are opened *)

LEMMA EquityType ==
  ASSUME NEW b, Sound(b), NEW bar \in Bars
  PROVE  EquityOf(b, bar) \in Int
<1> DEFINE v == [i \in DOMAIN b.open |-> Gain(b.open[i], bar.close)]
<1>1. /\ b.cash \in Int /\ DOMAIN b.open = 1..Len(b.open) /\ Len(b.open) \in Nat
      /\ \A i \in DOMAIN b.open : b.open[i] \in Trades
  BY SoundFields, BookFields
<1>2. \A i \in DOMAIN b.open : Gain(b.open[i], bar.close) \in Int
  BY <1>1, TradeFields, BarFields
<1>3. v \in Seq(Int)
  BY <1>1, <1>2
<1>4. Total(v) \in Int
  <2> HIDE DEF v
  <2>1. QED
    BY <1>3, TotalType
<1>5. EquityOf(b, bar) = b.cash + Total(v)
  BY DEF EquityOf, Sum, Total
<1> HIDE DEF v
<1>6. QED
  BY <1>1, <1>4, <1>5

LEMMA NearestType ==
  ASSUME NEW a \in Int, NEW d \in Int, d > 0
  PROVE  Nearest(a, d) \in Int
<1>1. 2 * a + d \in Int /\ 2 * d \in Int /\ 2 * d > 0
  OBVIOUS
<1> DEFINE n == 2 * a + d
           m == 2 * d
<1>2. n \in Int /\ m \in Int /\ m > 0
  BY <1>1
<1> HIDE DEF n, m
<1>3. n \div m \in Int
  BY <1>2
<1>4. QED
  BY <1>3 DEF Nearest, n, m

LEMMA SizeType ==
  ASSUME sizing \in Sizings, NEW equity \in Int, NEW close \in Int
  PROVE  Size(equity, close) \in Int
<1>1. sizing.amount \in Int /\ sizing.stop \in Int
  BY BacktestAssumption
<1>2. equity * sizing.amount \in Int /\ 100 * close \in Int /\ 100 * sizing.stop \in Int
  BY <1>1
<1>3. /\ close > 0 => Nearest(sizing.amount, close) \in Int
      /\ close > 0 => Nearest(equity * sizing.amount, 100 * close) \in Int
      /\ sizing.stop > 0 => Nearest(equity * sizing.amount, 100 * sizing.stop) \in Int
  <2>1. close > 0 => 100 * close > 0
    OBVIOUS
  <2>2. sizing.stop > 0 => 100 * sizing.stop > 0
    BY <1>1
  <2>3. QED
    BY <1>1, <1>2, <2>1, <2>2, NearestType
<1>4. (~(close <= 0) => close > 0) /\ (~(sizing.stop <= 0) => sizing.stop > 0) /\ 0 \in Int
  BY <1>1
<1>5. QED
  BY <1>1, <1>3, <1>4 DEF Size

\* c is what opening p leaves of b.
Opened(b, p, c, symbol, s) ==
  /\ p \in Trades /\ p.symbol = symbol /\ p.side = s /\ p.seen = FALSE /\ p.at = index
  /\ c \in Books /\ c.open = Append(b.open, p) /\ c.closed = b.closed
  /\ c.cash = b.cash - Fee - Invested(p)

LEMMA OpenBook ==
  ASSUME index \in Nat, NEW b \in Books, NEW symbol \in AllSymbols, NEW s \in Sides, NEW quantity \in Int,
         NEW bar \in Bars, NEW stop \in OptionalLevels, NEW target \in OptionalLevels,
         NEW p, p = Trade(symbol, s, quantity, FillPrice(s, bar), stop, target),
         NEW c, c = Open(b, symbol, s, quantity, bar, stop, target)
  PROVE  Opened(b, p, c, symbol, s)
<1> DEFINE paid == FillPrice(s, bar)
           cash == b.cash - Fee - (IF s = "long" THEN paid * quantity ELSE 0)
<1>1. paid \in Int /\ paid * quantity \in Int
  BY BarFields, ConstantTypes DEF FillPrice
<1>2. p = [symbol |-> symbol, side |-> s, quantity |-> quantity, entry |-> paid, at |-> index,
           stop |-> stop, target |-> target, favorable |-> 0, adverse |-> 0,
           seen |-> FALSE, least |-> paid, most |-> paid]
  BY DEF Trade
<1>3. c = [b EXCEPT !.open = Append(b.open, p), !.cash = cash, !.traded = TRUE]
  BY DEF Open
<1>4. cash = b.cash - Fee - Invested(p)
  BY <1>2 DEF Invested, Cost
<1> HIDE DEF paid
<1>5. p \in Trades
  BY <1>1, <1>2 DEF Trades
<1>6. p.symbol = symbol /\ p.side = s /\ p.seen = FALSE /\ p.at = index
  BY <1>2
<1>7. cash \in Int
  BY <1>1, BookFields, ConstantTypes
<1> HIDE DEF cash
<1>8. /\ c.open = Append(b.open, p) /\ c.closed = b.closed /\ c.cash = cash /\ c \in Books
  <2> DEFINE open == Append(b.open, p)
  <2>1. open \in Seq(Trades)
    BY <1>5, BookFields
  <2>2. c = [b EXCEPT !.open = open, !.cash = cash, !.traded = TRUE]
    BY <1>3
  <2> HIDE DEF open
  <2>3. c.open = open /\ c.closed = b.closed /\ c.cash = cash /\ c \in Books
    BY <1>7, <2>1, <2>2 DEF Books
  <2>4. QED
    BY <2>3 DEF open
<1>9. QED
  BY <1>4, <1>5, <1>6, <1>8 DEF Opened

LEMMA OpenKeeps ==
  ASSUME index \in Nat, NEW b, Sound(b), NEW symbol \in AllSymbols, NEW s \in Sides,
         engine = "conditions" => s = side, ~Has(b, symbol, s), NEW quantity \in Int, NEW bar \in Bars,
         NEW stop \in OptionalLevels, NEW target \in OptionalLevels,
         NEW c, c = Open(b, symbol, s, quantity, bar, stop, target)
  PROVE  Sound(c) /\ (Timely(b) => Timely(c))
<1> DEFINE p == Trade(symbol, s, quantity, FillPrice(s, bar), stop, target)
           m == Len(b.open)
           n == Len(b.closed)
<1>1. /\ b \in Books /\ OnePerSide(b) /\ OneSided(b) /\ Balanced(b)
      /\ DOMAIN b.open = 1..m /\ m \in Nat /\ n \in Nat /\ b.open \in Seq(Trades) /\ b.cash \in Int
  BY SoundFields, BookFields DEF Sound
<1>2. /\ p \in Trades /\ p.symbol = symbol /\ p.side = s /\ p.seen = FALSE /\ p.at = index
      /\ c \in Books /\ c.open = Append(b.open, p) /\ c.closed = b.closed
      /\ c.cash = b.cash - Fee - Invested(p)
  <2> HIDE DEF p
  <2>1. p = Trade(symbol, s, quantity, FillPrice(s, bar), stop, target)
    BY DEF p
  <2>2. Opened(b, p, c, symbol, s)
    BY <1>1, <2>1, OpenBook
  <2>3. QED
    BY <2>2 DEF Opened
<1> HIDE DEF p
<1>3. DOMAIN c.open = 1..(m + 1) /\ c.open[m + 1] = p /\ \A i \in 1..m : c.open[i] = b.open[i]
  BY <1>1, <1>2
<1>4. \A i \in 1..m : b.open[i].symbol # symbol \/ b.open[i].side # s
  BY DEF Has
<1>5. OnePerSide(c)
  <2> SUFFICES ASSUME NEW i \in 1..(m + 1), NEW j \in 1..(m + 1), i # j
               PROVE  c.open[i].symbol # c.open[j].symbol \/ c.open[i].side # c.open[j].side
    BY <1>3 DEF OnePerSide
  <2>1. CASE i \in 1..m /\ j \in 1..m
    <3>1. b.open[i].symbol # b.open[j].symbol \/ b.open[i].side # b.open[j].side
      BY <1>1, <2>1 DEF OnePerSide
    <3>2. c.open[i] = b.open[i] /\ c.open[j] = b.open[j]
      BY <1>3, <2>1
    <3>3. QED
      BY <3>1, <3>2
  <2>2. CASE i \in 1..m /\ j = m + 1
    BY <1>2, <1>3, <1>4, <2>2
  <2>3. CASE i = m + 1 /\ j \in 1..m
    BY <1>2, <1>3, <1>4, <2>3
  <2>4. QED
    BY <1>1, <2>1, <2>2, <2>3
<1>6. OneSided(c)
  <2> SUFFICES ASSUME engine = "conditions"
               PROVE  /\ \A i \in 1..(m + 1) : c.open[i].side = side
                      /\ \A i \in DOMAIN c.closed : c.closed[i].trade.side = side
    BY <1>3 DEF OneSided
  <2>1. /\ \A i \in 1..m : b.open[i].side = side
        /\ \A i \in DOMAIN b.closed : b.closed[i].trade.side = side
    BY <1>1 DEF OneSided
  <2>2. \A i \in 1..(m + 1) : i \in 1..m \/ i = m + 1
    BY <1>1
  <2>3. QED
    BY <1>2, <1>3, <2>1, <2>2
<1>7. Balanced(c)
  <2> DEFINE fees == Fee * (n + m)
  <2>1. b.cash = Capital + Total(Pnl(b)) - fees - Total(Costs(b)) + Total(Lefts(b))
    BY <1>1, BalancedIs
  <2>2. Total(Costs(c)) = Total(Costs(b)) + Invested(p) /\ Len(c.open) = m + 1
    BY <1>1, <1>2, CostsAppended
  <2>3. Pnl(c) = Pnl(b) /\ Lefts(c) = Lefts(b) /\ Len(c.closed) = n
    BY <1>2 DEF Pnl, Lefts
  <2>4. Fee * (n + (m + 1)) = fees + Fee /\ fees \in Int /\ Fee \in Int /\ Capital \in Int
    <3> DEFINE k == n + m
    <3>1. n + (m + 1) = k + 1 /\ k \in Int /\ Fee \in Int /\ Capital \in Int
      <4>1. n \in Nat /\ m \in Nat
        BY <1>1
      <4>2. Fee \in Int /\ Capital \in Int
        BY ConstantTypes
      <4> HIDE DEF n, m
      <4>3. QED
        BY <4>1, <4>2
    <3> HIDE DEF k
    <3>2. Fee * (k + 1) = Fee * k + Fee /\ Fee * k \in Int
      BY <3>1
    <3>3. QED
      BY <3>1, <3>2 DEF k
  <2> HIDE DEF fees
  <2>5. Total(Pnl(b)) \in Int /\ Total(Lefts(b)) \in Int /\ Total(Costs(b)) \in Int /\ Invested(p) \in Int
    BY <1>1, <1>2, BookTotals, TradeFields
  <2>6. c.cash = Capital + Total(Pnl(b)) - (fees + Fee) - (Total(Costs(b)) + Invested(p)) + Total(Lefts(b))
    <3> DEFINE cost == Total(Costs(b))
               left == Total(Lefts(b))
               pnl == Total(Pnl(b))
               in == Invested(p)
    <3>1. /\ cost \in Int /\ left \in Int /\ pnl \in Int /\ in \in Int /\ fees \in Int
          /\ Fee \in Int /\ Capital \in Int /\ b.cash \in Int
      BY <1>1, <2>4, <2>5
    <3>2. c.cash = b.cash - Fee - in /\ b.cash = Capital + pnl - fees - cost + left
      BY <1>2, <2>1
    <3> HIDE DEF cost, left, pnl, in
    <3>3. b.cash - Fee - in = Capital + pnl - (fees + Fee) - (cost + in) + left
      BY <3>1, <3>2
    <3>4. c.cash = Capital + pnl - (fees + Fee) - (cost + in) + left
      BY <3>2, <3>3
    <3>5. QED
      BY <3>4 DEF cost, left, pnl, in
  <2>7. Fee * (Len(c.closed) + Len(c.open)) = fees + Fee
    BY <2>2, <2>3, <2>4
  <2>8. QED
    BY <1>2, <2>2, <2>3, <2>6, <2>7, BalancedIs
<1>8. ASSUME Timely(b) PROVE Timely(c)
  <2>1. /\ \A i \in 1..m : InTime(b.open[i])
        /\ \A i \in DOMAIN b.closed : Judged(b.closed[i].trade) => ClosedInTime(b.closed[i])
    BY <1>1, <1>8 DEF Timely
  <2>2. InTime(p)
    <3>1. index - p.at = 0 /\ (MaxHold # 0 => 0 < MaxHold)
      BY <1>2, ConstantTypes
    <3>2. QED
      BY <1>2, <3>1 DEF InTime, Stopped, Reached
  <2>3. \A i \in 1..(m + 1) : i \in 1..m \/ i = m + 1
    BY <1>1
  <2>4. QED
    BY <1>2, <1>3, <2>1, <2>2, <2>3 DEF Timely
<1>9. QED
  BY <1>2, <1>5, <1>6, <1>7, <1>8 DEF Sound, GoodBooks

\* An entry of a condition strategy: the other side is closed before it.
LEMMA EntryKeeps ==
  ASSUME BTypeOK, engine = "conditions", NEW b, Sound(b), NEW symbol \in AllSymbols, NEW bar \in Bars
  PROVE  Sound(ProcessEntry(b, symbol, bar)) /\ (Timely(b) => Timely(ProcessEntry(b, symbol, bar)))
<1> DEFINE c == BySignal(b, Opposite(b, symbol), bar)
           quantity == Size(EquityOf(c, bar), bar.close)
           d == Open(c, symbol, side, quantity, bar, None, None)
<1>1. index \in Nat /\ side \in Sides /\ sizing \in Sizings
  BY DEF BTypeOK
<1>2. Sound(c) /\ (Timely(b) => Timely(c))
  BY <1>1, BySignalKeeps
<1>3. /\ ProcessEntry(b, symbol, bar) = c \/ ProcessEntry(b, symbol, bar) = d
      /\ ProcessEntry(b, symbol, bar) # c => ~Has(c, symbol, side)
  BY DEF ProcessEntry
<1> HIDE DEF c
<1>4. quantity \in Int
  BY <1>1, <1>2, EquityType, SizeType, BarFields
<1>5. None \in OptionalLevels
  BY DEF OptionalLevels
<1> HIDE DEF quantity
<1>6. ~Has(c, symbol, side) => Sound(d) /\ (Timely(c) => Timely(d))
  BY <1>1, <1>2, <1>4, <1>5, OpenKeeps
<1> HIDE DEF d
<1>7. QED
  BY <1>2, <1>3, <1>6

\* A signal of a Python strategy.
LEMMA SignalKeeps ==
  ASSUME BTypeOK, engine = "python", NEW b, Sound(b), NEW signal \in Signals, NEW bar \in Bars
  PROVE  Sound(ProcessSignal(b, signal, bar)) /\ (Timely(b) => Timely(ProcessSignal(b, signal, bar)))
<1> DEFINE quantity == IF signal.quantity > 0 THEN signal.quantity ELSE Size(EquityOf(b, bar), bar.close)
           d == Open(b, signal.symbol, signal.side, quantity, bar, signal.stop, signal.target)
<1>1. index \in Nat /\ sizing \in Sizings
  BY DEF BTypeOK
<1>2. /\ signal.side \in Sides /\ signal.quantity \in Int /\ signal.symbol \in AllSymbols
      /\ signal.stop \in OptionalLevels /\ signal.target \in OptionalLevels
  BY BacktestAssumption DEF AllSymbols
<1>3. /\ ProcessSignal(b, signal, bar) = b \/ ProcessSignal(b, signal, bar) = d
      /\ ProcessSignal(b, signal, bar) # b => ~Has(b, signal.symbol, signal.side)
  BY DEF ProcessSignal
<1>4. quantity \in Int
  BY <1>1, <1>2, EquityType, SizeType, BarFields
<1> HIDE DEF quantity
<1>5. ~Has(b, signal.symbol, signal.side) => Sound(d) /\ (Timely(b) => Timely(d))
  <2>1. engine = "conditions" => signal.side = side
    OBVIOUS
  <2> DEFINE symbol == signal.symbol
             s == signal.side
             stop == signal.stop
             target == signal.target
  <2>2. d = Open(b, symbol, s, quantity, bar, stop, target)
    OBVIOUS
  <2>3. /\ symbol \in AllSymbols /\ s \in Sides /\ (engine = "conditions" => s = side)
        /\ stop \in OptionalLevels /\ target \in OptionalLevels
    BY <1>2, <2>1
  <2> HIDE DEF symbol, s, stop, target, d
  <2>4. ~Has(b, symbol, s) => Sound(d) /\ (Timely(b) => Timely(d))
    BY <1>1, <1>4, <2>2, <2>3, OpenKeeps
  <2>5. QED
    BY <2>4 DEF symbol, s
<1> HIDE DEF d
<1>6. QED
  BY <1>3, <1>5

\* What the library chooses for the signals of a bar.
Processing(b, given, bar) ==
  CHOOSE it : it = [s \in SUBSET (DOMAIN given) |->
    IF s = {} THEN b ELSE ProcessSignal(it[s \ {Highest(s)}], given[Highest(s)], bar)]

LEMMA ProcessSignalsIsFold ==
  ASSUME NEW b, NEW given, NEW bar
  PROVE  ProcessSignals(b, given, bar) = Processing(b, given, bar)[DOMAIN given]
BY DEF ProcessSignals, Processing, FoldLeft, MapThenFoldSet, Highest, Max

\* The books a signal may find.
FairBooks == {b \in GoodBooks : Sound(b) /\ Timely(b)}

\* All signals of a bar.
LEMMA SignalsKeep ==
  ASSUME BTypeOK, engine = "python", NEW b, Sound(b), Timely(b), NEW n \in Nat, NEW given \in [1..n -> Signals],
         NEW bar \in Bars
  PROVE  Sound(ProcessSignals(b, given, bar)) /\ Timely(ProcessSignals(b, given, bar))
<1> DEFINE V == FairBooks
           step == [z \in (1..n) \X V |-> ProcessSignal(z[2], given[z[1]], bar)]
           Is(it) == it = [s \in SUBSET (1..n) |->
                       IF s = {} THEN b ELSE ProcessSignal(it[s \ {Highest(s)}], given[Highest(s)], bar)]
           it == Processing(b, given, bar)
<1>1. b \in V
  BY DEF FairBooks, Sound
<1>2. \A k \in 1..n, a \in V : ProcessSignal(a, given[k], bar) \in V
  <2> TAKE k \in 1..n, a \in V
  <2>1. Sound(a) /\ Timely(a) /\ given[k] \in Signals
    BY DEF FairBooks
  <2>2. Sound(ProcessSignal(a, given[k], bar)) /\ Timely(ProcessSignal(a, given[k], bar))
    BY <2>1, SignalKeeps
  <2>3. QED
    BY <2>2 DEF FairBooks, Sound
<1> HIDE DEF V
<1>3. step \in [(1..n) \X V -> V] /\ \A k \in 1..n, a \in V : step[<<k, a>>] = ProcessSignal(a, given[k], bar)
  BY <1>2
<1> HIDE DEF step
<1>4. PICK g \in [SUBSET (1..n) -> V] : FoldsPositions(g, b, step, n)
  BY <1>1, <1>3, SequenceFoldExists
<1>5. \A s \in SUBSET (1..n) :
        g[s] = IF s = {} THEN b ELSE ProcessSignal(g[s \ {Highest(s)}], given[Highest(s)], bar)
  <2> TAKE s \in SUBSET (1..n)
  <2>1. CASE s = {}
    BY <1>4, <2>1 DEF FoldsPositions
  <2>2. CASE s # {}
    <3>1. Highest(s) \in 1..n /\ g[s \ {Highest(s)}] \in V
      BY <1>4, <2>2, HighestIn
    <3>2. g[s] = step[<<Highest(s), g[s \ {Highest(s)}]>>]
      BY <1>4, <2>2 DEF FoldsPositions
    <3>3. QED
      BY <1>3, <2>2, <3>1, <3>2
  <2>3. QED
    BY <2>1, <2>2
<1>6. Is(g)
  BY <1>5
<1>7. Is(it)
  <2>1. it = CHOOSE h : Is(h)
    BY DEF Processing
  <2> HIDE DEF Is, it
  <2>2. QED
    BY <1>6, <2>1
<1>8. ProcessSignals(b, given, bar) = it[1..n]
  BY ProcessSignalsIsFold
<1> HIDE DEF it
<1>9. \A s \in SUBSET (1..n) :
        it[s] = IF s = {} THEN b ELSE ProcessSignal(it[s \ {Highest(s)}], given[Highest(s)], bar)
  BY <1>7
<1> HIDE DEF Is
<1>10. it[{}] = b
  BY <1>9
<1>11. ASSUME NEW k \in 1..n, it[1..(k - 1)] \in V
       PROVE  it[1..k] = step[<<k, it[1..(k - 1)]>>]
  <2>1. 1..k \in SUBSET (1..n) /\ 1..k # {} /\ Highest(1..k) = k /\ (1..k) \ {k} = 1..(k - 1)
    <3>1. k \in Nat \ {0} /\ 1..k \in SUBSET (1..n)
      OBVIOUS
    <3>2. QED
      BY <3>1, TopOfPrefix
  <2>2. it[1..k] = ProcessSignal(it[1..(k - 1)], given[k], bar)
    BY <1>9, <2>1
  <2>3. QED
    BY <1>3, <1>11, <2>2
<1>12. PICK path \in [0..n -> V] : PathOf(path, b, step, n, it[1..n])
  <2>1. FoldsPrefixes(it, b, step, n, V)
    BY <1>10, <1>11 DEF FoldsPrefixes
  <2>2. QED
    BY <1>1, <1>3, <2>1, FoldPath
<1>13. it[1..n] \in V
  BY <1>12 DEF PathOf
<1>14. QED
  BY <1>8, <1>13 DEF V, FairBooks

\* The excursions change nothing an exit looks at, and a recorded point nothing of the positions.
LEMMA AfterBarKeeps ==
  ASSUME NEW b, Sound(b), NEW symbol, NEW bar \in Bars
  PROVE  LET c == Recorded(Excursion(b, symbol, bar)) IN
         Sound(c) /\ (Timely(b) => Timely(c))
<1> DEFINE e == Excursion(b, symbol, bar)
           c == Recorded(e)
<1>1. /\ Sound(e) /\ Len(e.open) = Len(b.open) /\ e.closed = b.closed
      /\ \A i \in DOMAIN b.open : e.open[i] = ExcursionOf(b.open[i], symbol, bar)
  BY ExcursionSound
<1> HIDE DEF e
<1>2. Sound(c) /\ c.open = e.open /\ c.closed = e.closed
  BY <1>1, RecordedSound
<1> HIDE DEF c
<1>3. DOMAIN e.open = DOMAIN b.open /\ \A i \in DOMAIN b.open : b.open[i] \in Trades
  BY <1>1, SoundFields
<1>4. ASSUME NEW p \in Trades, InTime(p), NEW q, q = ExcursionOf(p, symbol, bar) PROVE InTime(q)
  <2>1. /\ q.symbol = p.symbol /\ q.side = p.side /\ q.entry = p.entry /\ q.at = p.at
        /\ q.stop = p.stop /\ q.target = p.target
        /\ q.seen = p.seen /\ q.least = p.least /\ q.most = p.most
    BY <1>4 DEF ExcursionOf, Trades
  <2>2. StopOf(q) = StopOf(p) /\ TargetOf(q) = TargetOf(p) /\ (Judged(q) <=> Judged(p))
    BY <2>1 DEF StopOf, TargetOf, Judged, Below
  <2>3. (Stopped(q) <=> Stopped(p)) /\ (Reached(q) <=> Reached(p))
    BY <2>1, <2>2 DEF Stopped, Reached, Hurts, Helps, Stretch
  <2>4. QED
    BY <1>4, <2>1, <2>2, <2>3 DEF InTime
<1>5. ASSUME Timely(b) PROVE Timely(c)
  <2>1. /\ \A i \in DOMAIN b.open : InTime(b.open[i])
        /\ \A i \in DOMAIN b.closed : Judged(b.closed[i].trade) => ClosedInTime(b.closed[i])
    BY <1>5 DEF Timely
  <2>2. \A i \in DOMAIN b.open : InTime(e.open[i])
    BY <1>1, <1>3, <1>4, <2>1
  <2>3. QED
    BY <1>1, <1>2, <1>3, <2>1, <2>2 DEF Timely
<1>6. QED
  BY <1>2, <1>5 DEF c, e

-----------------------------------------------------------------------------
(* A backtest: its steps *)

\* The invariant and the exits, together.
BInv ==
  /\ BTypeOK /\ Sound(book) /\ ExitsOnTime
  /\ first = None \/ done => book.open = <<>>

\* Another bar has been replayed.
LEMMA TimelyNext ==
  ASSUME engine' = engine, at' = at, index' = index + 1, index \in Nat, book' \in Books, Timely(book')
  PROVE  ExitsOnTime'
<1>1. ASSUME NEW i \in DOMAIN book'.open PROVE (Judged(book.open[i]) => KeptInTime(book.open[i]))'
  <2> DEFINE p == book'.open[i]
  <2>1. InTime(p)
    BY DEF Timely
  <2>2. p \in Trades
    BY BookFields
  <2> HIDE DEF p
  <2>3. index + 1 - 1 - p.at = index - p.at
    <3>1. p.at \in Nat
      BY <2>2, TradeFields
    <3>2. QED
      BY <3>1
  <2>4. /\ Judged(book.open[i])' <=> Judged(p)
        /\ Stopped(book.open[i])' <=> Stopped(p)
        /\ Reached(book.open[i])' <=> Reached(p)
    BY DEF p, Judged, Stopped, StopOf, Reached, TargetOf, Hurts, Helps, Stretch, Below
  <2>5. QED
    BY <2>1, <2>3, <2>4 DEF p, InTime, KeptInTime
<1>2. ASSUME NEW i \in DOMAIN book'.closed
      PROVE  (Judged(book.closed[i].trade) => ClosedInTime(book.closed[i]))'
  <2> DEFINE c == book'.closed[i]
  <2>1. Judged(c.trade) => ClosedInTime(c)
    BY DEF Timely
  <2> HIDE DEF c
  <2>2. /\ Judged(book.closed[i].trade)' <=> Judged(c.trade)
        /\ Stopped(book.closed[i].trade)' <=> Stopped(c.trade)
        /\ Reached(book.closed[i].trade)' <=> Reached(c.trade)
    BY DEF c, Judged, Stopped, StopOf, Reached, TargetOf, Hurts, Helps, Stretch, Below
  <2>3. QED
    BY <2>1, <2>2 DEF c, ClosedInTime
<1>3. QED
  BY <1>1, <1>2 DEF ExitsOnTime

LEMMA SoundNext ==
  ASSUME engine' = engine, side' = side, Sound(book')
  PROVE  Sound(book)'
<1>1. GoodBooks' = GoodBooks
  BY DEF GoodBooks, OnePerSide
<1>2. Balanced(book') => Balanced(book)'
  BY DEF Balanced, Sum, Invested, LeftBehind, Cost
<1>3. OneSided(book') => OneSided(book)'
  BY DEF OneSided
<1>4. QED
  BY <1>1, <1>2, <1>3 DEF Sound

LEMMA SymbolsAre ==
  /\ Len(Symbols) \in Nat
  /\ \A i \in 1..Len(Symbols) : Symbols[i] \in AllSymbols
<1>1. Symbols \in Seq(Range(Symbols))
  BY BacktestAssumption
<1> DEFINE R == Range(Symbols)
<1> HIDE DEF R
<1>2. Symbols \in Seq(R)
  BY <1>1 DEF R
<1>3. Len(Symbols) \in Nat /\ \A i \in 1..Len(Symbols) : Symbols[i] \in R
  BY <1>2
<1>4. QED
  BY <1>3 DEF R, AllSymbols

\* The position a backtest is at, at a bar.
LEMMA CurveType ==
  ASSUME BTypeOK, NEW b, Sound(b), NEW bar \in Bars, NEW i \in Nat
  PROVE  RecordEquity(b, bar, i) \in [equity : Int, peak : Int, drop : Int]
<1>1. curve \in [equity : Int, peak : Int, drop : Int]
  BY DEF BTypeOK
<1> DEFINE e == EquityOf(b, bar)
           peak == Greater(curve.peak, e)
           drop == Greater(curve.drop, peak - e)
<1>2. e \in Int
  BY EquityType
<1> HIDE DEF e
<1>3. peak \in Int /\ drop \in Int
  BY <1>1, <1>2 DEF Greater
<1>4. RecordEquity(b, bar, i) = curve \/ RecordEquity(b, bar, i) = [equity |-> e, peak |-> peak, drop |-> drop]
  BY DEF RecordEquity, e
<1> HIDE DEF peak, drop
<1>5. QED
  BY <1>1, <1>2, <1>3, <1>4

\* One bar, whatever is played.
LEMMA WalkStep ==
  ASSUME BInv, NEW bar \in Bars, NEW played, Walk(bar, played),
         at <= Len(Symbols) /\ ~done => Sound(played) /\ Timely(played)
  PROVE  BInv'
<1> DEFINE x == IF IsWarm THEN played ELSE Exited(bar)
           after == Excursion(x, Symbols[at], bar)
<1>1. BTypeOK /\ Sound(book) /\ ExitsOnTime
  BY DEF BInv
<1>2. /\ engine \in {"conditions", "python"} /\ side \in Sides /\ sizing \in Sizings
      /\ at \in 1..Len(Symbols) + 1 /\ index \in Nat /\ warm \in BOOLEAN
      /\ first \in {None} \cup [1..1 -> [at : Nat, bar : Bars, index : Nat]]
  BY <1>1 DEF BTypeOK
<1>3. /\ ~done /\ at <= Len(Symbols)
      /\ warm' = IsWarm
      /\ curve' = RecordEquity(after, bar, index) /\ book' = Recorded(after)
      /\ first' = (IF first = None \/ first[1].at = at
                   THEN Some([at |-> at, bar |-> bar, index |-> index]) ELSE first)
      /\ index' = index + 1
      /\ engine' = engine /\ side' = side /\ sizing' = sizing /\ at' = at /\ done' = done
  BY DEF Walk
<1>4. at \in 1..Len(Symbols)
  BY <1>2, <1>3, SymbolsAre
<1>5. Sound(x) /\ Timely(x)
  <2>1. Sound(Exited(bar)) /\ Timely(Exited(bar))
    BY <1>1, <1>2, <1>4, ExitedKeeps
  <2>2. Sound(played) /\ Timely(played)
    BY <1>3
  <2>3. QED
    BY <2>1, <2>2
<1> HIDE DEF x
<1>6. Sound(book') /\ Timely(book')
  BY <1>3, <1>5, AfterBarKeeps
<1>7. Sound(after)
  BY <1>5, ExcursionSound
<1> HIDE DEF after
<1>8. book' \in Books
  BY <1>6, SoundFields
<1>9. ExitsOnTime'
  BY <1>2, <1>3, <1>6, <1>8, TimelyNext
<1>10. Sound(book)'
  BY <1>3, <1>6, SoundNext
<1>11. first' \in [1..1 -> [at : Nat, bar : Bars, index : Nat]]
  <2> DEFINE f == [at |-> at, bar |-> bar, index |-> index]
  <2>1. f \in [at : Nat, bar : Bars, index : Nat]
    BY <1>2, <1>4
  <2> HIDE DEF f
  <2>2. Some(f) \in [1..1 -> [at : Nat, bar : Bars, index : Nat]]
    BY <2>1 DEF Some
  <2>3. first' = Some(f) \/ (first # None /\ first' = first)
    BY <1>3 DEF f
  <2>4. QED
    BY <1>2, <2>2, <2>3
<1>12. BTypeOK'
  <2>1. curve' \in [equity : Int, peak : Int, drop : Int]
    BY <1>1, <1>2, <1>3, <1>7, CurveType
  <2>2. warm' \in BOOLEAN /\ index' \in Nat
    BY <1>2, <1>3 DEF IsWarm
  <2>3. done' \in BOOLEAN
    BY <1>1, <1>3 DEF BTypeOK
  <2>4. QED
    BY <1>2, <1>3, <1>8, <1>11, <2>1, <2>2, <2>3 DEF BTypeOK
<1>13. first' # None /\ ~done'
  <2>1. 1 \in DOMAIN first' /\ DOMAIN None = {}
    BY <1>11 DEF None
  <2>2. QED
    BY <1>3, <2>1
<1>14. QED
  BY <1>9, <1>10, <1>12, <1>13 DEF BInv

LEMMA ReplayStep ==
  ASSUME BInv, NEW bar \in Bars, Replay(bar)
  PROVE  BInv'
<1> DEFINE symbol == Symbols[at]
<1>1. BTypeOK /\ Sound(book) /\ ExitsOnTime /\ at \in 1..Len(Symbols) + 1 /\ index \in Nat
  BY DEF BInv, BTypeOK
<1>2. engine = "conditions" /\ at \in 1..Len(Symbols)
  BY <1>1, SymbolsAre DEF Replay
<1>3. symbol \in AllSymbols
  BY <1>2, SymbolsAre
<1>4. Sound(Exited(bar)) /\ Timely(Exited(bar))
  BY <1>1, <1>2, ExitedKeeps
<1>5. Sound(ProcessEntry(Exited(bar), symbol, bar)) /\ Timely(ProcessEntry(Exited(bar), symbol, bar))
  BY <1>1, <1>2, <1>3, <1>4, EntryKeeps
<1>6. ASSUME NEW e, Sound(e), Timely(e)
      PROVE  Sound(ConditionExits(e, symbol, bar)) /\ Timely(ConditionExits(e, symbol, bar))
  BY <1>1, <1>6, BySignalKeeps DEF ConditionExits
<1>7. PICK entry \in BOOLEAN, exit \in BOOLEAN :
        LET entered == IF entry THEN ProcessEntry(Exited(bar), symbol, bar) ELSE Exited(bar)
        IN Walk(bar, IF exit THEN ConditionExits(entered, symbol, bar) ELSE entered)
  BY DEF Replay
<1> DEFINE entered == IF entry THEN ProcessEntry(Exited(bar), symbol, bar) ELSE Exited(bar)
           played == IF exit THEN ConditionExits(entered, symbol, bar) ELSE entered
<1>8. Sound(entered) /\ Timely(entered)
  BY <1>4, <1>5
<1>9. Walk(bar, played)
  BY <1>7
<1> HIDE DEF entered
<1>10. Sound(played) /\ Timely(played)
  BY <1>6, <1>8
<1> HIDE DEF played
<1>11. QED
  BY <1>9, <1>10, WalkStep

LEMMA ReplayPythonStep ==
  ASSUME BInv, NEW bar \in Bars, ReplayPython(bar)
  PROVE  BInv'
<1>1. BTypeOK /\ Sound(book) /\ ExitsOnTime /\ at \in 1..Len(Symbols) + 1 /\ index \in Nat
  BY DEF BInv, BTypeOK
<1>2. engine = "python" /\ at \in 1..Len(Symbols)
  BY <1>1, SymbolsAre DEF ReplayPython
<1>3. Sound(Exited(bar)) /\ Timely(Exited(bar))
  BY <1>1, <1>2, ExitedKeeps
<1>4. PICK given \in SeqOf(Signals, MaxGiven) : Walk(bar, ProcessSignals(Exited(bar), given, bar))
  BY DEF ReplayPython
<1>5. PICK n \in 0..MaxGiven : given \in [1..n -> Signals]
  BY <1>4 DEF SeqOf
<1>6. n \in Nat
  BY <1>5, BacktestAssumption
<1>7. Sound(ProcessSignals(Exited(bar), given, bar)) /\ Timely(ProcessSignals(Exited(bar), given, bar))
  BY <1>1, <1>2, <1>3, <1>5, <1>6, SignalsKeep
<1>8. QED
  BY <1>4, <1>7, WalkStep

LEMMA NextSymbolStep ==
  ASSUME BInv, NextSymbol
  PROVE  BInv'
<1>1. /\ BTypeOK /\ Sound(book) /\ ExitsOnTime /\ at \in 1..Len(Symbols) + 1
      /\ first = None \/ done => book.open = <<>>
  BY DEF BInv, BTypeOK
<1>2. /\ at <= Len(Symbols) /\ at' = at + 1 /\ index' = 0
      /\ engine' = engine /\ side' = side /\ sizing' = sizing /\ warm' = warm /\ book' = book
      /\ first' = first /\ curve' = curve /\ done' = done
  BY DEF NextSymbol
<1>3. at' \in 1..Len(Symbols) + 1 /\ at' # 1
  BY <1>1, <1>2, SymbolsAre
<1>4. BTypeOK'
  BY <1>1, <1>2, <1>3 DEF BTypeOK
<1>5. Sound(book)'
  BY <1>1, <1>2, SoundNext
<1>6. ASSUME NEW i \in DOMAIN book'.open PROVE (Judged(book.open[i]) => KeptInTime(book.open[i]))'
  <2> DEFINE p == book.open[i]
  <2>1. p \in Trades /\ i \in DOMAIN book.open
    BY <1>1, <1>2, SoundFields
  <2>2. Judged(p) => KeptInTime(p)
    BY <1>1, <2>1 DEF ExitsOnTime
  <2> HIDE DEF p
  <2>3. 0 - 1 - p.at < MaxHold \/ MaxHold = 0
    <3>1. p.at \in Nat /\ MaxHold \in Nat
      BY <2>1, TradeFields, ConstantTypes
    <3>2. QED
      BY <3>1
  <2>4. /\ Judged(book.open[i])' => Judged(p) /\ engine = "conditions"
        /\ Stopped(book.open[i])' <=> Stopped(p)
        /\ Reached(book.open[i])' <=> Reached(p)
    BY <1>2, <1>3 DEF p, Judged, Stopped, StopOf, Reached, TargetOf, Hurts, Helps, Stretch, Below
  <2>5. book'.open[i] = p /\ engine' = engine /\ index' = 0
    BY <1>2 DEF p
  <2>6. QED
    BY <2>2, <2>3, <2>4, <2>5 DEF KeptInTime
<1>7. ASSUME NEW i \in DOMAIN book'.closed
      PROVE  (Judged(book.closed[i].trade) => ClosedInTime(book.closed[i]))'
  <2> DEFINE c == book.closed[i]
  <2>1. Judged(c.trade) => ClosedInTime(c)
    BY <1>1, <1>2 DEF ExitsOnTime
  <2> HIDE DEF c
  <2>2. /\ Judged(book.closed[i].trade)' => Judged(c.trade)
        /\ Stopped(book.closed[i].trade)' <=> Stopped(c.trade)
        /\ Reached(book.closed[i].trade)' <=> Reached(c.trade)
    BY <1>2, <1>3 DEF c, Judged, Stopped, StopOf, Reached, TargetOf, Hurts, Helps, Stretch, Below
  <2>3. book'.closed[i] = c
    BY <1>2 DEF c
  <2>4. QED
    BY <2>1, <2>2, <2>3 DEF ClosedInTime
<1>8. ExitsOnTime'
  BY <1>6, <1>7 DEF ExitsOnTime
<1>9. QED
  BY <1>1, <1>2, <1>4, <1>5, <1>8 DEF BInv

LEMMA FinishStep ==
  ASSUME BInv, Finish
  PROVE  BInv'
<1> DEFINE exits == [p \in Range(book.open) |-> Exit(first[1].bar.close, "end_of_data")]
           c == CloseEach(book, exits, first[1].index)
<1>1. /\ BTypeOK /\ Sound(book) /\ ExitsOnTime
      /\ first = None \/ done => book.open = <<>>
  BY DEF BInv
<1>2. /\ ~done /\ done' = TRUE /\ book' = (IF first = None THEN book ELSE c)
      /\ engine' = engine /\ side' = side /\ sizing' = sizing /\ at' = at /\ index' = index /\ warm' = warm
      /\ first' = first /\ curve' = curve
  BY DEF Finish
<1>3. first \in {None} \cup [1..1 -> [at : Nat, bar : Bars, index : Nat]]
  BY <1>1 DEF BTypeOK
<1>4. ASSUME first # None
      PROVE  /\ Sound(c) /\ c.open = <<>>
             /\ \A i \in DOMAIN c.closed :
                  \/ i \in DOMAIN book.closed /\ c.closed[i] = book.closed[i]
                  \/ c.closed[i].reason = "end_of_data"
  <2>1. first[1].bar \in Bars /\ first[1].index \in Nat
    BY <1>3, <1>4
  <2> DEFINE exit == Exit(first[1].bar.close, "end_of_data")
  <2>2. exit \in MaybeWays /\ exit # None /\ exit[1].reason = "end_of_data"
    <3>1. first[1].bar.close \in Int /\ "end_of_data" \in Reasons
      BY <2>1, BarFields DEF Reasons
    <3>2. QED
      BY <3>1, ExitIsWay
  <2>3. \A i \in DOMAIN book.open : exits[book.open[i]] = exit
    BY DEF Range
  <2> HIDE DEF exits, exit
  <2>4. Sound(c) /\ Gone(c, book, exits, first[1].index, Len(book.open))
    <3>1. \A i \in DOMAIN book.open : exits[book.open[i]] \in MaybeWays
      BY <2>2, <2>3
    <3>2. first[1].index \in Int
      BY <2>1
    <3>3. QED
      BY <1>1, <3>1, <3>2, CloseEachSound
  <2> HIDE DEF c
  <2>5. DOMAIN c.open = {}
    <3> SUFFICES ASSUME NEW i \in DOMAIN c.open PROVE FALSE
      OBVIOUS
    <3>1. PICK j \in DOMAIN book.open : j <= Len(book.open) => exits[book.open[j]] = None
      BY <2>4 DEF Gone
    <3>2. j <= Len(book.open)
      BY <1>1, SoundFields
    <3>3. QED
      BY <2>2, <2>3, <3>1, <3>2
  <2>6. c.open = <<>>
    <3>1. c.open \in Seq(Trades)
      BY <2>4, SoundFields, BookFields
    <3>2. Len(c.open) = 0
      <4>1. Len(c.open) \in Nat /\ DOMAIN c.open = 1..Len(c.open)
        BY <3>1
      <4>2. Len(c.open) > 0 => 1 \in 1..Len(c.open)
        BY <4>1
      <4>3. 1 \notin DOMAIN c.open
        BY <2>5
      <4>4. QED
        BY <4>1, <4>2, <4>3
    <3>3. QED
      BY <3>1, <3>2
  <2>7. ASSUME NEW i \in DOMAIN c.closed
        PROVE  \/ i \in DOMAIN book.closed /\ c.closed[i] = book.closed[i]
               \/ c.closed[i].reason = "end_of_data"
    <3>1. ASSUME NEW j \in DOMAIN book.open, c.closed[i] = ClosedTrade(book.open[j], exits[book.open[j]][1], first[1].index)
          PROVE  c.closed[i].reason = "end_of_data"
      BY <2>2, <2>3, <3>1 DEF ClosedTrade
    <3>2. QED
      BY <2>4, <3>1 DEF Gone
  <2>8. QED
    BY <2>4, <2>6, <2>7
<1> HIDE DEF exits, c
<1>5. /\ Sound(book') /\ book'.open = <<>>
      /\ \A i \in DOMAIN book'.closed :
           \/ i \in DOMAIN book.closed /\ book'.closed[i] = book.closed[i]
           \/ book'.closed[i].reason = "end_of_data"
  BY <1>1, <1>2, <1>4
<1>6. BTypeOK'
  <2>1. book' \in Books
    BY <1>5, SoundFields
  <2>2. QED
    BY <1>1, <1>2, <2>1 DEF BTypeOK
<1>7. Sound(book)'
  BY <1>2, <1>5, SoundNext
<1>8. ASSUME NEW i \in DOMAIN book'.closed
      PROVE  (Judged(book.closed[i].trade) => ClosedInTime(book.closed[i]))'
  <2>1. CASE book'.closed[i].reason = "end_of_data"
    BY <2>1 DEF ClosedInTime
  <2>2. CASE i \in DOMAIN book.closed /\ book'.closed[i] = book.closed[i]
    <3> DEFINE r == book.closed[i]
    <3>1. Judged(r.trade) => ClosedInTime(r)
      BY <1>1, <2>2 DEF ExitsOnTime
    <3> HIDE DEF r
    <3>2. book'.closed[i] = r
      BY <2>2 DEF r
    <3>3. /\ Judged(book.closed[i].trade)' => Judged(r.trade)
          /\ Stopped(book.closed[i].trade)' <=> Stopped(r.trade)
          /\ Reached(book.closed[i].trade)' <=> Reached(r.trade)
      BY <1>2, <3>2 DEF Judged, Stopped, StopOf, Reached, TargetOf, Hurts, Helps, Stretch, Below
    <3>4. QED
      BY <3>1, <3>2, <3>3 DEF ClosedInTime
  <2>3. QED
    BY <1>5, <2>1, <2>2
<1>9. ExitsOnTime'
  <2>1. DOMAIN book'.open = {}
    BY <1>5
  <2>2. QED
    BY <1>8, <2>1 DEF ExitsOnTime
<1>10. QED
  BY <1>5, <1>6, <1>7, <1>9 DEF BInv

LEMMA BInitInv == BInit => BInv
<1> SUFFICES ASSUME BInit PROVE BInv
  OBVIOUS
<1>1. /\ engine \in {"conditions", "python"} /\ side \in Sides /\ sizing \in Sizings
      /\ at = 1 /\ index = 0 /\ warm = FALSE /\ first = None /\ done = FALSE
      /\ book = [cash |-> Capital, open |-> <<>>, closed |-> <<>>, traded |-> FALSE]
      /\ curve = [equity |-> Capital, peak |-> Capital, drop |-> 0]
  BY DEF BInit
<1>2. book \in Books /\ book.open = <<>> /\ book.closed = <<>> /\ book.cash = Capital
  BY <1>1, ConstantTypes DEF Books
<1>3. BTypeOK
  <2>1. at \in 1..Len(Symbols) + 1
    BY <1>1, SymbolsAre
  <2>2. curve \in [equity : Int, peak : Int, drop : Int]
    BY <1>1, ConstantTypes
  <2>3. QED
    BY <1>1, <1>2, <2>1, <2>2 DEF BTypeOK
<1>4. Balanced(book)
  <2>1. Total(Pnl(book)) = 0 /\ Total(Lefts(book)) = 0 /\ Total(Costs(book)) = 0
    BY <1>2, BookSums, TotalEmpty
  <2>2. Fee * (Len(book.closed) + Len(book.open)) = 0
    BY <1>2, ConstantTypes
  <2>3. Capital = Capital + 0 - 0 - 0 + 0
    BY ConstantTypes
  <2>4. QED
    BY <1>2, <2>1, <2>2, <2>3, BalancedIs
<1>5. OnePerSide(book) /\ OneSided(book)
  BY <1>2 DEF OnePerSide, OneSided
<1>6. ExitsOnTime
  BY <1>2 DEF ExitsOnTime
<1>7. QED
  BY <1>2, <1>3, <1>4, <1>5, <1>6 DEF BInv, Sound, GoodBooks

LEMMA BStutter == BInv /\ UNCHANGED bvars => BInv'
<1> SUFFICES ASSUME BInv, UNCHANGED bvars PROVE BInv'
  OBVIOUS
<1>1. /\ engine' = engine /\ side' = side /\ sizing' = sizing /\ at' = at /\ index' = index /\ warm' = warm
      /\ book' = book /\ first' = first /\ curve' = curve /\ done' = done
  BY DEF bvars
<1>2. Sound(book)'
  BY <1>1, SoundNext DEF BInv
<1>3. BTypeOK'
  BY <1>1 DEF BInv, BTypeOK
<1>4. ExitsOnTime'
  <2>1. ASSUME NEW i \in DOMAIN book'.open PROVE (Judged(book.open[i]) => KeptInTime(book.open[i]))'
    <3>1. Judged(book.open[i]) => KeptInTime(book.open[i])
      BY <1>1 DEF BInv, ExitsOnTime
    <3>2. (Judged(book.open[i])' <=> Judged(book.open[i])) /\ (KeptInTime(book.open[i])' <=> KeptInTime(book.open[i]))
      BY <1>1 DEF Judged, KeptInTime, Stopped, StopOf, Reached, TargetOf, Hurts, Helps, Stretch, Below
    <3>3. QED
      BY <3>1, <3>2
  <2>2. ASSUME NEW i \in DOMAIN book'.closed
        PROVE  (Judged(book.closed[i].trade) => ClosedInTime(book.closed[i]))'
    <3>1. Judged(book.closed[i].trade) => ClosedInTime(book.closed[i])
      BY <1>1 DEF BInv, ExitsOnTime
    <3>2. /\ Judged(book.closed[i].trade)' <=> Judged(book.closed[i].trade)
          /\ ClosedInTime(book.closed[i])' <=> ClosedInTime(book.closed[i])
      BY <1>1 DEF Judged, ClosedInTime, Stopped, StopOf, Reached, TargetOf, Hurts, Helps, Stretch, Below
    <3>3. QED
      BY <3>1, <3>2
  <2>3. QED
    BY <2>1, <2>2 DEF ExitsOnTime
<1>5. QED
  BY <1>1, <1>2, <1>3, <1>4 DEF BInv

\* What holds of a backtest after every step: the types, the balanced books, one
\* position of a symbol on a side, and the exits on time.
LEMMA BInvariant == BSpec => []BInv
<1>1. BInit => BInv
  BY BInitInv
<1>2. BInv /\ [BNext]_bvars => BInv'
  <2> SUFFICES ASSUME BInv, [BNext]_bvars PROVE BInv'
    OBVIOUS
  <2>1. ASSUME NEW bar \in Bars, Replay(bar) PROVE BInv'
    BY <2>1, ReplayStep
  <2>2. ASSUME NEW bar \in Bars, ReplayPython(bar) PROVE BInv'
    BY <2>2, ReplayPythonStep
  <2>3. CASE NextSymbol
    BY <2>3, NextSymbolStep
  <2>4. CASE Finish
    BY <2>4, FinishStep
  <2>5. CASE UNCHANGED bvars
    BY <2>5, BStutter
  <2>6. QED
    BY <2>1, <2>2, <2>3, <2>4, <2>5 DEF BNext
<1>3. QED
  BY <1>1, <1>2, PTL DEF BSpec

\* The books of a backtest are the ones its engine can have: they balance, no
\* symbol has two positions on a side, and nothing is open before the first bar
\* and after the end (_process_entry, _close_position, the end of run).
THEOREM BooksStayGood == BSpec => []BacktestInv
<1>1. BInv => BacktestInv
  BY DEF BInv, BacktestInv, Sound, GoodBooks
<1>2. QED
  BY <1>1, BInvariant, PTL

\* No backtest holds a position past its stop, its target or its last bar, and no
\* trade took a profit in a bar that had met its stop (_check_exits).
THEOREM ExitsAreOnTime == BSpec => []ExitsOnTime
<1>1. BInv => ExitsOnTime
  BY DEF BInv
<1>2. QED
  BY <1>1, BInvariant, PTL

-----------------------------------------------------------------------------
(* A backtest: its metrics *)

\* A trade counts for a streak of wins, or of losses.
Won(w, x) == (x > 0) = w

NoStreak == [now |-> 0, max |-> 0]
StreakStates == [now : Nat, max : Nat]

\* What the library chooses for the fold.
Counting(w) ==
  CHOOSE it : it = [s \in SUBSET (DOMAIN Pnls) |->
    IF s = {} THEN NoStreak ELSE Streak(w, it[s \ {Highest(s)}], Pnls[Highest(s)])]

LEMMA MaxStreakIsFold ==
  ASSUME NEW w
  PROVE  MaxStreak(w) = Counting(w)[DOMAIN Pnls].max
BY DEF MaxStreak, Counting, FoldLeft, MapThenFoldSet, Highest, Max, NoStreak

LEMMA StreakType ==
  ASSUME NEW w, NEW s \in StreakStates, NEW x
  PROVE  /\ Streak(w, s, x) \in StreakStates
         /\ Won(w, x) => Streak(w, s, x) = [now |-> s.now + 1, max |-> Greater(s.max, s.now + 1)]
         /\ ~Won(w, x) => Streak(w, s, x).now = 0 /\ Streak(w, s, x).max = s.max
<1>1. s.now \in Nat /\ s.max \in Nat
  BY DEF StreakStates
<1>2. CASE Won(w, x)
  <2>1. Streak(w, s, x) = [now |-> s.now + 1, max |-> Greater(s.max, s.now + 1)]
    BY <1>2 DEF Streak, Won
  <2>2. s.now + 1 \in Nat /\ Greater(s.max, s.now + 1) \in Nat
    BY <1>1 DEF Greater
  <2>3. QED
    BY <1>2, <2>1, <2>2 DEF StreakStates
<1>3. CASE ~Won(w, x)
  <2>1. Streak(w, s, x) = [s EXCEPT !.now = 0]
    BY <1>3 DEF Streak, Won
  <2>2. QED
    BY <1>3, <2>1 DEF StreakStates
<1>4. QED
  BY <1>2, <1>3

\* The state of the count after each trade.
CountingPath(path, w, v) ==
  path[0] = NoStreak /\ \A k \in 1..Len(v) : path[k] = Streak(w, path[k - 1], v[k])

LEMMA CountingPathExists ==
  ASSUME Pnls \in Seq(Int), NEW w
  PROVE  \E path \in [0..Len(Pnls) -> StreakStates] :
           CountingPath(path, w, Pnls) /\ MaxStreak(w) = path[Len(Pnls)].max
<1> DEFINE n == Len(Pnls)
           v == Pnls
           step == [z \in (1..n) \X StreakStates |-> Streak(w, z[2], v[z[1]])]
           Is(it) == it = [s \in SUBSET (DOMAIN v) |->
                       IF s = {} THEN NoStreak ELSE Streak(w, it[s \ {Highest(s)}], v[Highest(s)])]
           it == Counting(w)
<1>1. n \in Nat /\ DOMAIN v = 1..n
  OBVIOUS
<1>2. /\ step \in [(1..n) \X StreakStates -> StreakStates]
      /\ \A k \in 1..n, a \in StreakStates : step[<<k, a>>] = Streak(w, a, v[k])
  BY StreakType
<1>3. NoStreak \in StreakStates
  BY DEF NoStreak, StreakStates
<1>4. it = CHOOSE h : Is(h)
  BY DEF Counting
<1>5. MaxStreak(w) = it[1..n].max
  BY <1>1, MaxStreakIsFold
<1> HIDE DEF step, n, v
<1>6. PICK g \in [SUBSET (1..n) -> StreakStates] : FoldsPositions(g, NoStreak, step, n)
  BY <1>1, <1>2, <1>3, SequenceFoldExists
<1>7. \A s \in SUBSET (1..n) :
        g[s] = IF s = {} THEN NoStreak ELSE Streak(w, g[s \ {Highest(s)}], v[Highest(s)])
  <2> TAKE s \in SUBSET (1..n)
  <2>1. CASE s = {}
    BY <1>6, <2>1 DEF FoldsPositions
  <2>2. CASE s # {}
    <3>1. Highest(s) \in 1..n /\ g[s \ {Highest(s)}] \in StreakStates
      BY <1>1, <1>6, <2>2, HighestIn
    <3>2. g[s] = step[<<Highest(s), g[s \ {Highest(s)}]>>]
      BY <1>6, <2>2 DEF FoldsPositions
    <3>3. QED
      BY <1>2, <2>2, <3>1, <3>2
  <2>3. QED
    BY <2>1, <2>2
<1>8. Is(g)
  BY <1>1, <1>7
<1> HIDE DEF it, Is
<1>9. Is(it)
  BY <1>4, <1>8
<1>10. \A s \in SUBSET (1..n) :
         it[s] = IF s = {} THEN NoStreak ELSE Streak(w, it[s \ {Highest(s)}], v[Highest(s)])
  BY <1>1, <1>9 DEF Is
<1>11. FoldsPrefixes(it, NoStreak, step, n, StreakStates)
  <2>1. it[{}] = NoStreak
    BY <1>10
  <2>2. ASSUME NEW k \in 1..n, it[1..(k - 1)] \in StreakStates
        PROVE  it[1..k] = step[<<k, it[1..(k - 1)]>>]
    <3>1. 1..k \in SUBSET (1..n) /\ k \in Nat \ {0}
      BY <1>1
    <3>2. 1..k # {} /\ Highest(1..k) = k /\ (1..k) \ {k} = 1..(k - 1)
      BY <3>1, TopOfPrefix
    <3>3. it[1..k] = Streak(w, it[1..(k - 1)], v[k])
      BY <1>10, <3>1, <3>2
    <3>4. QED
      BY <1>2, <2>2, <3>3
  <2>3. QED
    BY <2>1, <2>2 DEF FoldsPrefixes
<1>12. PICK path \in [0..n -> StreakStates] : PathOf(path, NoStreak, step, n, it[1..n])
  BY <1>1, <1>2, <1>3, <1>11, FoldPath
<1>13. \A k \in 1..n : path[k] = Streak(w, path[k - 1], v[k])
  <2> TAKE k \in 1..n
  <2>1. path[k - 1] \in StreakStates
    BY <1>1, <1>12
  <2>2. QED
    BY <1>2, <1>12, <2>1 DEF PathOf
<1>14. CountingPath(path, w, v) /\ path[n] = it[1..n]
  BY <1>12, <1>13 DEF PathOf, CountingPath, n, v
<1>15. QED
  BY <1>5, <1>12, <1>14 DEF n, v

\* Trades a to b all count.
Run(w, v, a, b) == a <= b /\ \A j \in a..b : Won(w, v[j])

\* What the count knows of the first k trades: the run that ends there, and the longest.
CountsNow(w, v, k, s) ==
  /\ s.now <= k /\ s.now <= s.max
  /\ \A j \in (k - s.now + 1)..k : Won(w, v[j])
  /\ s.now < k => ~Won(w, v[k - s.now])
NoneLonger(w, v, k, s) == \A a, b \in 1..k : Run(w, v, a, b) => b - a + 1 <= s.max
OneAsLong(w, v, k, s)  == s.max = 0 \/ \E a, b \in 1..k : Run(w, v, a, b) /\ b - a + 1 = s.max
Counts(w, v, k, s) == CountsNow(w, v, k, s) /\ NoneLonger(w, v, k, s) /\ OneAsLong(w, v, k, s)

LEMMA RunEnds ==
  ASSUME NEW w, NEW v, NEW k \in Nat, NEW s \in StreakStates, CountsNow(w, v, k, s),
         NEW a \in 1..(k + 1), Run(w, v, a, k + 1)
  PROVE  k + 1 - a + 1 <= s.now + 1
<1>1. s.now \in Nat /\ s.now <= k
  BY DEF StreakStates, CountsNow
<1> DEFINE n == s.now
<1>2. CASE n < k
  <2>1. ~Won(w, v[k - n])
    BY <1>2 DEF CountsNow
  <2>2. ~(k - n \in a..(k + 1))
    BY <2>1 DEF Run
  <2> HIDE DEF n
  <2>3. n \in Nat
    BY <1>1 DEF n
  <2>4. a > k - n
    BY <1>2, <2>2, <2>3
  <2>5. k + 1 - a + 1 <= n + 1
    BY <2>3, <2>4
  <2>6. QED
    BY <2>5 DEF n
<1>3. CASE n = k
  BY <1>3
<1>4. QED
  BY <1>1, <1>2, <1>3

LEMMA CountWon ==
  ASSUME NEW w, NEW v, NEW k \in Nat, NEW s \in StreakStates, Counts(w, v, k, s), Won(w, v[k + 1])
  PROVE  Counts(w, v, k + 1, Streak(w, s, v[k + 1]))
<1> DEFINE t == Streak(w, s, v[k + 1])
           n == s.now
           m == s.max
           most == Greater(m, n + 1)
<1>1. n \in Nat /\ m \in Nat /\ n <= k /\ n <= m
  BY DEF StreakStates, Counts, CountsNow
<1>2. t.now = n + 1 /\ t.max = most
  BY StreakType
<1>3. most \in Nat /\ m <= most /\ n + 1 <= most /\ (most = m \/ most = n + 1)
  BY <1>1 DEF Greater
<1>4. /\ \A j \in (k - n + 1)..k : Won(w, v[j])
      /\ n < k => ~Won(w, v[k - n])
      /\ NoneLonger(w, v, k, s) /\ OneAsLong(w, v, k, s) /\ CountsNow(w, v, k, s)
  BY DEF Counts, CountsNow
<1> HIDE DEF t, n, m, most
<1>5. CountsNow(w, v, k + 1, t)
  <2>1. k + 1 - (n + 1) + 1 = k - n + 1 /\ k + 1 - (n + 1) = k - n
    BY <1>1
  <2>2. ASSUME NEW j \in (k - n + 1)..(k + 1) PROVE Won(w, v[j])
    <3>1. j = k + 1 \/ j \in (k - n + 1)..k
      BY <1>1
    <3>2. QED
      BY <1>4, <3>1
  <2>3. n + 1 < k + 1 => ~Won(w, v[k - n])
    BY <1>1, <1>4
  <2>4. t.now <= k + 1 /\ t.now <= t.max
    BY <1>1, <1>2, <1>3
  <2>5. (k + 1) - t.now + 1 = k - n + 1 /\ (k + 1) - t.now = k - n
    BY <1>1, <1>2
  <2>6. \A j \in ((k + 1) - t.now + 1)..(k + 1) : Won(w, v[j])
    BY <2>2, <2>5
  <2>7. t.now < k + 1 => ~Won(w, v[(k + 1) - t.now])
    BY <1>2, <2>3, <2>5
  <2>8. QED
    BY <2>4, <2>6, <2>7 DEF CountsNow
<1>6. NoneLonger(w, v, k + 1, t)
  <2> SUFFICES ASSUME NEW a \in 1..(k + 1), NEW b \in 1..(k + 1), Run(w, v, a, b)
               PROVE  b - a + 1 <= most
    BY <1>2 DEF NoneLonger
  <2>1. CASE b = k + 1
    <3>1. k + 1 - a + 1 <= n + 1
      BY <1>4, <2>1, RunEnds DEF n
    <3>2. QED
      BY <1>1, <1>3, <2>1, <3>1
  <2>2. CASE b # k + 1
    <3>1. b \in 1..k /\ a <= b
      BY <2>2 DEF Run
    <3>2. a \in 1..k
      BY <3>1
    <3>3. b - a + 1 <= m
      BY <1>4, <3>1, <3>2 DEF NoneLonger, m
    <3>4. QED
      BY <1>1, <1>3, <3>1, <3>2, <3>3
  <2>3. QED
    BY <2>1, <2>2
<1>7. OneAsLong(w, v, k + 1, t)
  <2>1. CASE most = n + 1
    <3>1. k - n + 1 \in 1..(k + 1) /\ k + 1 \in 1..(k + 1) /\ k - n + 1 <= k + 1
      BY <1>1
    <3>2. Run(w, v, k - n + 1, k + 1)
      <4>1. ASSUME NEW j \in (k - n + 1)..(k + 1) PROVE Won(w, v[j])
        <5>1. j = k + 1 \/ j \in (k - n + 1)..k
          BY <1>1
        <5>2. QED
          BY <1>4, <5>1
      <4>2. QED
        BY <3>1, <4>1 DEF Run
    <3>3. (k + 1) - (k - n + 1) + 1 = n + 1
      BY <1>1
    <3>4. QED
      BY <1>2, <2>1, <3>1, <3>2, <3>3 DEF OneAsLong
  <2>2. CASE most = m
    <3>1. CASE m = 0
      BY <1>2, <2>2, <3>1 DEF OneAsLong
    <3>2. CASE m # 0
      <4>1. PICK a \in 1..k, b \in 1..k : Run(w, v, a, b) /\ b - a + 1 = m
        BY <1>4, <3>2 DEF OneAsLong, m
      <4>2. a \in 1..(k + 1) /\ b \in 1..(k + 1)
        OBVIOUS
      <4>3. QED
        BY <1>2, <2>2, <4>1, <4>2 DEF OneAsLong
    <3>3. QED
      BY <3>1, <3>2
  <2>3. QED
    BY <1>3, <2>1, <2>2
<1>8. QED
  BY <1>5, <1>6, <1>7 DEF Counts, t

LEMMA CountLost ==
  ASSUME NEW w, NEW v, NEW k \in Nat, NEW s \in StreakStates, Counts(w, v, k, s), ~Won(w, v[k + 1])
  PROVE  Counts(w, v, k + 1, Streak(w, s, v[k + 1]))
<1> DEFINE t == Streak(w, s, v[k + 1])
           m == s.max
<1>1. m \in Nat /\ t.now = 0 /\ t.max = m
  BY StreakType DEF StreakStates
<1>2. NoneLonger(w, v, k, s) /\ OneAsLong(w, v, k, s)
  BY DEF Counts
<1> HIDE DEF t, m
<1>3. CountsNow(w, v, k + 1, t)
  <2>1. k + 1 - 0 = k + 1 /\ 0 <= k + 1 /\ 0 <= m /\ \A j \in (k + 1 + 1)..(k + 1) : FALSE
    BY <1>1
  <2>2. QED
    BY <1>1, <2>1 DEF CountsNow
<1>4. NoneLonger(w, v, k + 1, t)
  <2> SUFFICES ASSUME NEW a \in 1..(k + 1), NEW b \in 1..(k + 1), Run(w, v, a, b)
               PROVE  b - a + 1 <= m
    BY <1>1 DEF NoneLonger
  <2>1. b # k + 1
    BY DEF Run
  <2>2. b \in 1..k /\ a <= b
    BY <2>1 DEF Run
  <2>3. a \in 1..k
    BY <2>2
  <2>4. QED
    BY <1>2, <2>2, <2>3 DEF NoneLonger, m
<1>5. OneAsLong(w, v, k + 1, t)
  <2>1. CASE m = 0
    BY <1>1, <2>1 DEF OneAsLong
  <2>2. CASE m # 0
    <3>1. PICK a \in 1..k, b \in 1..k : Run(w, v, a, b) /\ b - a + 1 = m
      BY <1>2, <2>2 DEF OneAsLong, m
    <3>2. a \in 1..(k + 1) /\ b \in 1..(k + 1)
      OBVIOUS
    <3>3. QED
      BY <1>1, <3>1, <3>2 DEF OneAsLong
  <2>3. QED
    BY <2>1, <2>2
<1>6. QED
  BY <1>3, <1>4, <1>5 DEF Counts, t

LEMMA PathCounts ==
  ASSUME NEW w, NEW v, NEW n \in Nat, n = Len(v), NEW path \in [0..n -> StreakStates],
         CountingPath(path, w, v)
  PROVE  Counts(w, v, n, path[n])
<1> DEFINE B == {k \in Nat : k <= n => Counts(w, v, k, path[k])}
<1>1. 0 \in B
  <2>1. path[0] = [now |-> 0, max |-> 0]
    BY DEF CountingPath, NoStreak
  <2>2. Counts(w, v, 0, path[0])
    BY <2>1 DEF Counts, CountsNow, NoneLonger, OneAsLong
  <2>3. QED
    BY <2>2
<1>2. ASSUME NEW k \in Nat, k \in B PROVE k + 1 \in B
  <2> SUFFICES ASSUME k + 1 <= n PROVE Counts(w, v, k + 1, path[k + 1])
    OBVIOUS
  <2>1. k \in 0..n /\ k + 1 \in 1..n /\ k + 1 - 1 = k
    OBVIOUS
  <2>2. path[k] \in StreakStates /\ Counts(w, v, k, path[k])
    BY <1>2, <2>1
  <2>3. path[k + 1] = Streak(w, path[k], v[k + 1])
    BY <2>1 DEF CountingPath
  <2>4. QED
    BY <2>2, <2>3, CountWon, CountLost
<1> HIDE DEF B
<1>3. n \in B
  BY <1>1, <1>2, NumberInduction
<1>4. QED
  BY <1>3 DEF B

\* The streaks of the metrics are the longest runs.
LEMMA StreaksAre ==
  ASSUME Pnls \in Seq(Int)
  PROVE  StreaksAgree
<1> SUFFICES ASSUME NEW w \in BOOLEAN
             PROVE  /\ \A r \in Streaks(w) : StreakLength(r) <= MaxStreak(w)
                    /\ MaxStreak(w) = 0 \/ \E r \in Streaks(w) : StreakLength(r) = MaxStreak(w)
  BY DEF StreaksAgree
<1> DEFINE v == Pnls
           n == Len(v)
           m == MaxStreak(w)
<1>1. n \in Nat /\ DOMAIN v = 1..n
  OBVIOUS
<1>2. PICK path \in [0..n -> StreakStates] : CountingPath(path, w, v) /\ m = path[n].max
  BY CountingPathExists
<1>3. Streaks(w) = {r \in (1..n) \X (1..n) : Run(w, v, r[1], r[2])}
  BY <1>1 DEF Streaks, Run, Won
<1> HIDE DEF v, m
<1>4. Counts(w, v, n, path[n])
  BY <1>1, <1>2, PathCounts DEF v
<1>5. NoneLonger(w, v, n, path[n]) /\ OneAsLong(w, v, n, path[n])
  BY <1>4 DEF Counts
<1> HIDE DEF n
<1>6. \A r \in Streaks(w) : StreakLength(r) <= m
  BY <1>2, <1>3, <1>5 DEF NoneLonger, StreakLength
<1>7. ASSUME m # 0 PROVE \E r \in Streaks(w) : StreakLength(r) = m
  <2>1. PICK a \in 1..n, b \in 1..n : Run(w, v, a, b) /\ b - a + 1 = m
    BY <1>2, <1>5, <1>7 DEF OneAsLong
  <2>2. <<a, b>> \in Streaks(w) /\ StreakLength(<<a, b>>) = m
    BY <1>3, <2>1 DEF StreakLength
  <2>3. QED
    BY <2>2
<1>8. QED
  BY <1>6, <1>7 DEF m

\* What was won less what was lost is what the trades made.
LEMMA GrossAgrees ==
  ASSUME book \in Books
  PROVE  NetPnl + TotalFees = GrossProfit - GrossLoss /\ NetPnl + TotalFees = Total(Pnl(book)) /\ NetPnl \in Int
<1> DEFINE S == DOMAIN book.closed
           v == Pnl(book)
           up == [i \in S |-> IF book.closed[i].pnl > 0 THEN book.closed[i].pnl ELSE 0]
           down == [i \in S |-> IF book.closed[i].pnl <= 0 THEN book.closed[i].pnl ELSE 0]
           net == Total(v)
           won == SumFunctionOnSet(up, S)
           lost == SumFunctionOnSet(down, S)
           fees == TotalFees
<1>1. S = 1..Len(book.closed) /\ Len(book.closed) \in Nat /\ \A i \in S : book.closed[i].pnl \in Int
  BY BookFields
<1>2. IsFiniteSet(S)
  BY <1>1, PositionsAreFinite
<1>3. v \in Seq(Int) /\ net \in Int /\ DOMAIN v = S
  BY <1>1, BookSums, TotalType DEF Pnl
<1>4. \A i \in S : up[i] \in Int /\ down[i] \in Int /\ v[i] = up[i] + down[i]
  BY <1>1 DEF Pnl
<1>5. net = Sum(LAMBDA c : c.pnl, book.closed)
  BY DEF Total, Pnl, Sum
<1>6. won = GrossProfit
  BY DEF GrossProfit, Sum
<1>7. -lost = GrossLoss
  BY DEF GrossLoss, Sum
<1>8. NetPnl = net - fees
  BY <1>5, Zenon DEF NetPnl
<1>9. fees \in Int
  <2>1. Fee \in Int
    BY BacktestAssumption
  <2>2. QED
    BY <1>1, <2>1 DEF TotalFees
<1> HIDE DEF up, down, v
<1>10. net = won + lost
  <2>1. SumFunctionOnSet(v, S) = SumFunctionOnSet(up, S) + SumFunctionOnSet(down, S)
    BY <1>2, <1>4, SumPlus
  <2>2. QED
    BY <1>3, <2>1 DEF Total
<1>11. won \in Int /\ lost \in Int
  BY <1>2, <1>4, SumType
<1> HIDE DEF net, won, lost, fees
<1>12. NetPnl + fees = net /\ GrossProfit - GrossLoss = net /\ NetPnl \in Int
  BY <1>3, <1>6, <1>7, <1>8, <1>9, <1>10, <1>11
<1>13. QED
  BY <1>12 DEF net, fees, v

\* A run of longs that is over has its cash and its profits to show, and nothing else.
LEMMA LongsEndEven ==
  ASSUME BInv, done, engine = "conditions", side = "long"
  PROVE  book.open = <<>> /\ book.cash = Capital + NetPnl
<1>1. book \in Books /\ Balanced(book) /\ OneSided(book) /\ book.open = <<>>
  BY DEF BInv, Sound, GoodBooks
<1> DEFINE net == Total(Pnl(book))
           lefts == Total(Lefts(book))
           costs == Total(Costs(book))
           fees == TotalFees
<1>2. Len(book.open) = 0 /\ Len(book.closed) \in Nat /\ DOMAIN book.closed = 1..Len(book.closed)
  BY <1>1, BookFields
<1>3. costs = 0
  <2>1. Costs(book) \in Seq(Int) /\ Len(Costs(book)) = 0
    BY <1>1, <1>2, BookSums
  <2>2. QED
    BY <2>1, TotalEmpty
<1>4. lefts = 0
  <2>1. \A i \in DOMAIN book.closed : book.closed[i].trade.side = "long"
    BY <1>1 DEF OneSided
  <2>2. \A i \in DOMAIN book.closed : LeftBehind(book.closed[i]) = 0
    BY <2>1 DEF LeftBehind
  <2>3. /\ DOMAIN Lefts(book) = 1..Len(book.closed)
        /\ \A i \in 1..Len(book.closed) : Lefts(book)[i] = 0
    BY <1>2, <2>2 DEF Lefts
  <2>4. QED
    BY <1>2, <2>3, SumZero, PositionsAreFinite DEF Total
<1>5. Fee * (Len(book.closed) + Len(book.open)) = fees
  BY <1>2 DEF TotalFees
<1>6. book.cash = Capital + net - fees - costs + lefts
  BY <1>1, <1>5, BalancedIs
<1>7. net \in Int /\ NetPnl + fees = net /\ NetPnl \in Int
  BY <1>1, GrossAgrees, BookSums, TotalType
<1>8. Capital \in Int /\ fees \in Int
  <2>1. Fee \in Int /\ Capital \in Int
    BY BacktestAssumption
  <2>2. QED
    BY <1>2, <2>1 DEF TotalFees
<1> HIDE DEF net, lefts, costs, fees
<1>9. QED
  BY <1>1, <1>3, <1>4, <1>6, <1>7, <1>8

\* The cash of a backtest, its trades and its metrics tell one story: the cash is
\* what the trades explain, the streaks are the longest runs, and the profit is what
\* was won less what was lost (_close_position, _process_entry and compute_metrics).
THEOREM BooksAlwaysAgree == BSpec => []BooksAgree
<1>1. ASSUME BInv PROVE BooksAgree
  <2>1. book \in Books /\ Balanced(book)
    BY <1>1 DEF BInv, Sound, GoodBooks
  <2>2. StreaksAgree
    <3>1. Pnls \in Seq(Int)
      BY <2>1, BookSums DEF Pnls, Pnl
    <3>2. QED
      BY <3>1, StreaksAre
  <2>3. ProfitAgrees
    BY <1>1, <2>1, GrossAgrees, LongsEndEven DEF ProfitAgrees
  <2>4. QED
    BY <2>1, <2>2, <2>3 DEF BooksAgree
<1>2. QED
  BY <1>1, BInvariant, PTL

-----------------------------------------------------------------------------
(* Shadow positions: levels, fees and fills *)

ShadowSides   == {"long", "short"}
ShadowLevels  == {NoLevel} \cup [1..1 -> Int]
ShadowReasons == {"none", "stop_loss", "take_profit", "trailing_stop"}

Shadows == [side : ShadowSides, quantity : {Quantity}, entry : Int, entryFee : Int, stop : ShadowLevels,
            target : ShadowLevels, trailing : ShadowLevels, highest : Int, status : {"open", "closed"},
            reason : ShadowReasons, realized : Int, fills : Seq(Nat)]
ShadowFills == [side : OrderSides, price : Int, quantity : {Quantity}, fee : Int, net : Int]

LEMMA ShadowConstants ==
  /\ Quantity \in Nat /\ Quantity > 0 /\ FeeBpsForex \in Nat /\ FeePerTrade["equities"] \in Nat
  /\ SlippageBps.forex \in Int /\ SlippageBps.equities \in Int
  /\ \A z \in Prices : z \in Nat /\ z > 0
  /\ \A r \in Rules : r.stop \in Nat /\ r.target \in Nat /\ r.trailing \in Nat
BY ShadowAssumption

LEMMA PercentType ==
  ASSUME NEW x \in Int, NEW c \in Int
  PROVE  Percent(x, c) \in Int
<1> DEFINE z == x * (100 + c)
<1>1. z \in Int
  OBVIOUS
<1> HIDE DEF z
<1>2. z \div 100 \in Int
  BY <1>1
<1>3. QED
  BY <1>2 DEF Percent, z

\* A level is on its side of the price it is computed from; one below it is off it.
LEMMA PercentDown ==
  ASSUME NEW x \in Nat, x > 0, NEW c \in Nat
  PROVE  Percent(x, -c) <= x /\ (c # 0 => Percent(x, -c) < x)
<1> DEFINE y == x * c
           d == Percent(x, -c)
<1>1. y \in Nat /\ (c # 0 => y > 0)
  OBVIOUS
<1>2. x * (100 + (-c)) = 100 * x - y
  OBVIOUS
<1>3. d = (100 * x - y) \div 100
  BY <1>2 DEF Percent
<1> HIDE DEF y, d
<1>4. d \in Int /\ 100 * d <= 100 * x - y
  BY <1>1, <1>3
<1>5. QED
  BY <1>1, <1>4 DEF d

LEMMA PercentUp ==
  ASSUME NEW x \in Nat, x > 0, NEW c \in Nat
  PROVE  Percent(x, c) >= x /\ (c # 0 /\ (x * c) % 100 = 0 => Percent(x, c) > x)
<1> DEFINE y == x * c
           d == Percent(x, c)
<1>1. y \in Nat /\ (c # 0 => y > 0)
  OBVIOUS
<1>2. x * (100 + c) = 100 * x + y
  OBVIOUS
<1>3. d = (100 * x + y) \div 100
  BY <1>2 DEF Percent
<1>4. (x * c) % 100 = y % 100
  OBVIOUS
<1> HIDE DEF y, d
<1>5. d \in Int /\ d >= x
  BY <1>1, <1>3
<1>6. ASSUME y > 0, y % 100 = 0 PROVE d > x
  <2>1. y >= 100
    BY <1>1, <1>6
  <2>2. QED
    BY <1>1, <1>3, <2>1
<1>7. QED
  BY <1>1, <1>4, <1>5, <1>6 DEF d

LEMMA FeeType ==
  ASSUME NEW gross \in Int
  PROVE  /\ FeeOf(gross, "forex") \in Int /\ FeeOf(gross, "equities") \in Int
         /\ gross >= 0 => FeeOf(gross, "forex") >= 0
<1> DEFINE z == gross * FeeBpsForex
<1>1. z \in Int /\ (gross >= 0 => z >= 0)
  BY ShadowConstants
<1> HIDE DEF z
<1>2. z \div 10000 \in Int /\ (z >= 0 => z \div 10000 >= 0)
  BY <1>1
<1>3. QED
  BY <1>1, <1>2, ShadowConstants DEF FeeOf, z

LEMMA ExecutionType ==
  ASSUME NEW reference \in Int, NEW s \in OrderSides, NEW bps \in Int
  PROVE  ExecutionPrice(reference, s, bps) \in Int
<1> DEFINE z == reference * (10000 + (IF s = "buy" THEN bps ELSE -bps))
<1>1. z \in Int
  OBVIOUS
<1> HIDE DEF z
<1>2. z \div 10000 \in Int
  BY <1>1
<1>3. QED
  BY <1>2 DEF ExecutionPrice, z

\* What an entry costs, or brings.
Worth(p) == IF p.side = "long" THEN -(p.entry * p.quantity) ELSE p.entry * p.quantity

\* The levels of a position lie on the sides an exit counts on.
GoodLevels(p) ==
  /\ p.stop # NoLevel => IF p.side = "long" THEN p.stop[1] < p.entry ELSE p.stop[1] > p.entry
  /\ p.target # NoLevel => IF p.side = "long" THEN p.target[1] >= p.entry ELSE p.target[1] <= p.entry

\* The first fill of a position is its entry.
EntryBooked(fs, p) ==
  /\ Len(p.fills) >= 1 /\ p.fills[1] \in DOMAIN fs
  /\ Flow(fs[p.fills[1]]) + p.entryFee = Worth(p)
  /\ p.status = "open" => Len(p.fills) = 1

\* The second fill of a closed position is its exit, and explains the profit.
ExitBooked(fs, p) ==
  p.status = "closed" =>
    /\ Len(p.fills) = 2 /\ p.fills[2] \in DOMAIN fs
    /\ p.realized = Worth(p) + Flow(fs[p.fills[2]])
    /\ p.reason = "stop_loss" => p.realized < 0
    /\ p.reason = "take_profit" => p.realized >= -fs[p.fills[2]].fee

Explained(fs, p) == GoodLevels(p) /\ EntryBooked(fs, p) /\ ExitBooked(fs, p)

LEMMA ShadowFields ==
  ASSUME NEW p \in Shadows
  PROVE  /\ p.side \in ShadowSides /\ p.quantity = Quantity /\ p.entry \in Int /\ p.entryFee \in Int
         /\ p.stop \in ShadowLevels /\ p.target \in ShadowLevels /\ p.trailing \in ShadowLevels
         /\ p.highest \in Int /\ p.status \in {"open", "closed"} /\ p.realized \in Int /\ p.fills \in Seq(Nat)
         /\ p.stop # NoLevel => p.stop[1] \in Int
         /\ p.target # NoLevel => p.target[1] \in Int
         /\ p.trailing # NoLevel => p.trailing[1] \in Int
BY DEF Shadows, ShadowLevels

LEMMA ShadowFillFields ==
  ASSUME NEW z \in ShadowFills
  PROVE  z.side \in OrderSides /\ z.price \in Int /\ z.fee \in Int /\ z.net \in Int /\ Flow(z) \in Int
BY DEF ShadowFills, Flow

\* The fill of an entry.
EntryFill(s, market) ==
  Simulate([side |-> s, market |-> market, option |-> FALSE, quantity |-> Quantity, multiplier |-> 1], price)

LEMMA EntryFillIs ==
  ASSUME price \in Prices, NEW s \in OrderSides, NEW market \in Markets
  PROVE  LET z == EntryFill(s, market) IN
         /\ z \in ShadowFills /\ z.price = EntryPrice(price, s, market) /\ z.side = s
         /\ Flow(z) + z.fee = IF s = "buy" THEN -(z.price * Quantity) ELSE z.price * Quantity
<1> DEFINE z == EntryFill(s, market)
           order == [side |-> s, market |-> market, option |-> FALSE, quantity |-> Quantity, multiplier |-> 1]
           bps == SlippageOf(order)
           paid == ExecutionPrice(price, s, bps)
           gross == Quantity * paid * 1
           fee == FeeOf(gross, market)
<1>1. bps = SlippageOf([option |-> FALSE, market |-> market]) /\ bps \in Int
  BY ShadowConstants DEF SlippageOf, Markets
<1>2. paid = EntryPrice(price, s, market)
  BY <1>1 DEF EntryPrice
<1>3. paid \in Int
  <2>1. \A x \in Int : ExecutionPrice(price, s, x) \in Int
    BY ExecutionType, ShadowConstants
  <2>2. QED
    BY <1>1, <2>1
<1>4. z = [side |-> s, price |-> paid, quantity |-> Quantity, fee |-> fee, net |-> NetOf(s, gross, fee)]
  BY DEF EntryFill, Simulate
<1> HIDE DEF paid, bps
<1>5. gross = paid * Quantity /\ gross \in Int
  BY <1>3, ShadowConstants
<1> HIDE DEF gross
<1>6. fee \in Int
  BY <1>5, FeeType DEF Markets
<1> HIDE DEF fee, z
<1>7. NetOf(s, gross, fee) \in Int
  BY <1>5, <1>6 DEF NetOf
<1>8. z \in ShadowFills
  BY <1>3, <1>4, <1>6, <1>7 DEF ShadowFills
<1>9. Flow(z) + z.fee = IF s = "buy" THEN -gross ELSE gross
  BY <1>4, <1>5, <1>6 DEF Flow, NetOf, OrderSides
<1>10. QED
  BY <1>2, <1>4, <1>5, <1>8, <1>9 DEF z

LEMMA ExitLevelType ==
  ASSUME NEW s, NEW base \in Int, NEW c \in Int
  PROVE  /\ ExitLevel(s, base, c) \in ShadowLevels
         /\ ExitLevel(s, base, c) # NoLevel =>
              c # 0 /\ ExitLevel(s, base, c)[1] = Percent(base, IF s = "long" THEN c ELSE -c)
<1>1. Percent(base, IF s = "long" THEN c ELSE -c) \in Int
  <2>1. Percent(base, c) \in Int /\ Percent(base, -c) \in Int
    BY PercentType
  <2>2. QED
    BY <2>1
<1>2. QED
  BY <1>1 DEF ExitLevel, ShadowLevels, NoLevel

LEMMA EnteredIs ==
  ASSUME price \in Prices, rules \in Rules, fills \in Seq(ShadowFills), NEW s \in OrderSides, NEW market \in Markets
  PROVE  /\ Entered(EntryFill(s, market)) \in Shadows
         /\ Explained(Append(fills, EntryFill(s, market)), Entered(EntryFill(s, market)))
<1> DEFINE z == EntryFill(s, market)
           p == Entered(z)
           side_ == IF s = "buy" THEN "long" ELSE "short"
           k == Len(fills) + 1
           fs == Append(fills, z)
<1>1. /\ z \in ShadowFills /\ z.price = EntryPrice(price, s, market) /\ z.side = s
      /\ Flow(z) + z.fee = IF s = "buy" THEN -(z.price * Quantity) ELSE z.price * Quantity
  BY EntryFillIs
<1> HIDE DEF z
<1>2. z.quantity = Quantity /\ z.fee \in Int /\ z.price \in Int
  BY <1>1 DEF ShadowFills
<1>3. z.price \in Nat /\ z.price > 0 /\ (z.price * rules.stop) % 100 = 0
  BY <1>1, <1>2, ShadowAssumption
<1>4. rules.stop \in Nat /\ rules.target \in Nat /\ rules.trailing \in Nat
  BY ShadowConstants
<1> DEFINE stop == ExitLevel(side_, z.price, -rules.stop)
           target == ExitLevel(side_, z.price, rules.target)
           trailing == IF rules.trails THEN ExitLevel(side_, z.price, -rules.trailing) ELSE NoLevel
<1>5. /\ stop \in ShadowLevels /\ target \in ShadowLevels /\ trailing \in ShadowLevels
      /\ stop # NoLevel => /\ rules.stop # 0
                           /\ stop[1] = Percent(z.price, IF side_ = "long" THEN -rules.stop ELSE rules.stop)
      /\ target # NoLevel => target[1] = Percent(z.price, IF side_ = "long" THEN rules.target ELSE -rules.target)
  <2>1. -rules.stop \in Int /\ -rules.trailing \in Int /\ rules.target \in Int /\ -(-rules.stop) = rules.stop
    BY <1>4
  <2>2. -rules.stop # 0 => rules.stop # 0
    BY <1>4
  <2>3. NoLevel \in ShadowLevels
    BY DEF ShadowLevels
  <2> HIDE DEF side_
  <2>4. QED
    BY <1>2, <2>1, <2>2, <2>3, ExitLevelType
<1>6. p = [side |-> side_, quantity |-> Quantity, entry |-> z.price, entryFee |-> z.fee,
           stop |-> stop, target |-> target, trailing |-> trailing,
           highest |-> z.price, status |-> "open", reason |-> "none", realized |-> 0, fills |-> <<k>>]
  BY <1>1, <1>2 DEF Entered
<1>7. stop # NoLevel => IF side_ = "long" THEN stop[1] < z.price ELSE stop[1] > z.price
  BY <1>3, <1>4, <1>5, PercentDown, PercentUp
<1>8. target # NoLevel => IF side_ = "long" THEN target[1] >= z.price ELSE target[1] <= z.price
  BY <1>3, <1>4, <1>5, PercentDown, PercentUp
<1>9. Len(fills) \in Nat /\ k \in DOMAIN fs /\ fs[k] = z
  BY <1>1
<1>10. <<k>> \in Seq(Nat) /\ side_ \in ShadowSides
  BY <1>9 DEF ShadowSides
<1>11. (side_ = "long") = (s = "buy")
  OBVIOUS
<1> HIDE DEF stop, target, trailing, p, fs, k, side_
<1>12. p \in Shadows
  BY <1>2, <1>5, <1>6, <1>10 DEF Shadows, ShadowReasons
<1>13. GoodLevels(p)
  BY <1>6, <1>7, <1>8 DEF GoodLevels
<1>14. EntryBooked(fs, p)
  BY <1>1, <1>6, <1>9, <1>11 DEF EntryBooked, Worth
<1>15. ExitBooked(fs, p)
  BY <1>6 DEF ExitBooked
<1>16. QED
  BY <1>12, <1>13, <1>14, <1>15 DEF Explained, p, fs, z

-----------------------------------------------------------------------------
(* Shadow positions: what a cycle does to one of them *)

Profit(p) == Gross(p) - FeeOf(price * p.quantity, "forex")

\* q is p but for its trailing stop, its highest price and its end.
SameEntry(p, q) ==
  /\ q \in Shadows /\ q.side = p.side /\ q.quantity = p.quantity /\ q.entry = p.entry
  /\ q.entryFee = p.entryFee /\ q.stop = p.stop /\ q.target = p.target /\ q.fills = p.fills

\* What becomes of an open position: it keeps its trailing stop, and stays open only
\* inside its levels.
HeldTo(p, q) == ~TrailGivesWay(p, q) /\ (q.status = "open" => Inside(q))

\* What a closed one has booked.
Settled(p, q) ==
  q.status = "closed" => /\ q.realized = Profit(p)
                         /\ q.reason = "stop_loss" => Profit(p) < 0
                         /\ q.reason = "take_profit" => Profit(p) >= -ExitFill(p).fee

LEMMA ExitFillIs ==
  ASSUME NEW p \in Shadows, price \in Prices
  PROVE  /\ ExitFill(p) \in ShadowFills /\ ExitFill(p).fee >= 0
         /\ Profit(p) \in Int /\ Gross(p) \in Int /\ Profit(p) = Gross(p) - ExitFill(p).fee
         /\ Profit(p) = Worth(p) + Flow(ExitFill(p))
<1> DEFINE value == price * p.quantity
           fee == FeeOf(value, "forex")
           s == IF p.side = "long" THEN "sell" ELSE "buy"
           z == ExitFill(p)
<1>1. p.side \in ShadowSides /\ p.quantity = Quantity /\ p.entry \in Int /\ price \in Nat /\ Quantity \in Nat
  BY ShadowFields, ShadowConstants
<1>2. value \in Int /\ value >= 0
  BY <1>1
<1>3. z = [side |-> s, price |-> price, quantity |-> p.quantity, fee |-> fee, net |-> NetOf(s, value, fee)]
  BY DEF ExitFill
<1>4. Gross(p) = (IF p.side = "long" THEN value - p.entry * p.quantity ELSE p.entry * p.quantity - value)
  BY <1>1 DEF Gross, ShadowSides
<1>5. Profit(p) = Gross(p) - fee
  BY DEF Profit
<1> DEFINE cost == p.entry * p.quantity
<1>6. cost \in Int
  BY <1>1
<1> HIDE DEF value
<1>7. fee \in Int /\ fee >= 0
  BY <1>2, FeeType
<1> HIDE DEF fee, cost
<1>8. NetOf(s, value, fee) \in Int /\ s \in OrderSides
  BY <1>2, <1>7 DEF NetOf, OrderSides
<1>9. Flow(z) = IF p.side = "long" THEN value - fee ELSE -(value + fee)
  BY <1>2, <1>3, <1>7 DEF Flow, NetOf
<1>10. z \in ShadowFills /\ z.fee = fee
  BY <1>1, <1>3, <1>7, <1>8 DEF ShadowFills
<1>11. Worth(p) = IF p.side = "long" THEN -cost ELSE cost
  BY DEF Worth, cost
<1>12. Gross(p) = IF p.side = "long" THEN value - cost ELSE cost - value
  BY <1>4 DEF cost
<1> HIDE DEF z, s
<1>13. QED
  BY <1>2, <1>5, <1>6, <1>7, <1>9, <1>10, <1>11, <1>12 DEF z

\* A stop costs money and a target does not.
LEMMA LevelPays ==
  ASSUME NEW p \in Shadows, price \in Prices, GoodLevels(p)
  PROVE  /\ p.stop # NoLevel /\ Against(p, p.stop[1]) => Profit(p) < 0
         /\ p.target # NoLevel /\ Past(p, p.target[1]) => Profit(p) >= -ExitFill(p).fee
<1> DEFINE move == IF p.side = "long" THEN price - p.entry ELSE p.entry - price
           fee == ExitFill(p).fee
           gross == move * p.quantity
<1>1. p.side \in ShadowSides /\ p.quantity \in Nat /\ p.quantity > 0 /\ p.entry \in Int /\ price \in Int
  BY ShadowFields, ShadowConstants
<1>2. move \in Int
  BY <1>1
<1>3. p.stop # NoLevel /\ Against(p, p.stop[1]) => move < 0
  BY <1>1, ShadowFields DEF GoodLevels, Against, ShadowSides
<1>4. p.target # NoLevel /\ Past(p, p.target[1]) => move >= 0
  BY <1>1, ShadowFields DEF GoodLevels, Past, ShadowSides
<1>5. gross = Gross(p)
  BY <1>1 DEF Gross
<1>6. Profit(p) = gross - fee /\ fee >= 0 /\ fee \in Int
  BY <1>5, ExitFillIs DEF ShadowFills
<1> HIDE DEF move, fee
<1>7. (move < 0 => gross < 0) /\ (move >= 0 => gross >= 0) /\ gross \in Int
  BY <1>1, <1>2
<1> HIDE DEF gross
<1>8. (gross < 0 => Profit(p) < 0) /\ (gross >= 0 => Profit(p) >= -fee)
  BY <1>6, <1>7
<1>9. QED
  BY <1>3, <1>4, <1>7, <1>8 DEF fee

\* p with a higher highest price.
LEMMA PeakedIs ==
  ASSUME NEW p \in Shadows, price \in Prices
  PROVE  /\ SameEntry(p, Peaked(p)) /\ Peaked(p).trailing = p.trailing
         /\ Peaked(p).status = p.status /\ Peaked(p).highest \in Int
<1> DEFINE h == IF price > p.highest THEN price ELSE p.highest
<1>1. h \in Int
  BY ShadowFields, ShadowConstants
<1>2. Peaked(p) = [p EXCEPT !.highest = h]
  BY DEF Peaked
<1> HIDE DEF h
<1>3. QED
  BY <1>1, <1>2 DEF SameEntry, Shadows

\* The trailing stop moves in one direction.
LEMMA TrailedIs ==
  ASSUME NEW p \in Shadows, rules \in Rules, p.trailing # NoLevel
  PROVE  /\ SameEntry(p, Trailed(p)) /\ Trailed(p).highest = p.highest
         /\ Trailed(p).status = p.status /\ Trailed(p).trailing # NoLevel /\ Trailed(p).trailing[1] \in Int
         /\ p.side = "long" => /\ Trailed(p).trailing[1] >= Percent(p.highest, -rules.trailing)
                               /\ Trailed(p).trailing[1] >= p.trailing[1]
         /\ p.side = "short" => Trailed(p).trailing[1] <= p.trailing[1]
         /\ Percent(p.highest, -rules.trailing) \in Int
<1> DEFINE floor == Percent(p.highest, -rules.trailing)
           level == Percent(p.highest, IF p.side = "long" THEN -rules.trailing ELSE rules.trailing)
           tighter == IF p.side = "long" THEN level > p.trailing[1] ELSE level < p.trailing[1]
           pulled == [p EXCEPT !.trailing = <<level>>]
           q == Trailed(p)
<1>1. p.highest \in Int /\ rules.trailing \in Nat /\ p.trailing[1] \in Int /\ p.side \in ShadowSides
  BY ShadowFields, ShadowConstants
<1>2. floor \in Int /\ Percent(p.highest, rules.trailing) \in Int
  <2>1. rules.trailing \in Int /\ -rules.trailing \in Int
    BY <1>1
  <2>2. QED
    BY <1>1, <2>1, PercentType
<1>3. level \in Int /\ (p.side = "long" => level = floor)
  BY <1>1, <1>2 DEF ShadowSides
<1>4. q = IF tighter THEN pulled ELSE p
  BY DEF Trailed
<1> HIDE DEF level, floor
<1>5. <<level>> \in ShadowLevels /\ <<level>> # NoLevel /\ <<level>>[1] = level
  BY <1>3 DEF ShadowLevels, NoLevel
<1>6. /\ SameEntry(p, pulled) /\ pulled.highest = p.highest /\ pulled.status = p.status
      /\ pulled.trailing = <<level>>
  BY <1>5 DEF SameEntry, Shadows
<1>7. SameEntry(p, p)
  BY DEF SameEntry
<1> HIDE DEF pulled, q
<1>8. CASE tighter
  <2>1. q = pulled
    BY <1>4, <1>8
  <2>2. q.trailing = <<level>> /\ q.trailing # NoLevel /\ q.trailing[1] = level
    BY <1>5, <1>6, <2>1
  <2>3. (p.side = "long" => level > p.trailing[1]) /\ (p.side = "short" => level < p.trailing[1])
    BY <1>8
  <2>4. QED
    BY <1>1, <1>2, <1>3, <1>6, <2>1, <2>2, <2>3 DEF q, floor
<1>9. CASE ~tighter
  <2>1. q = p
    BY <1>4, <1>9
  <2>2. p.side = "long" => p.trailing[1] >= level
    BY <1>1, <1>3, <1>9
  <2>3. QED
    BY <1>1, <1>2, <1>3, <1>7, <2>1, <2>2 DEF q, floor
<1>10. QED
  BY <1>8, <1>9

\* An exit.
LEMMA ShadowClosed ==
  ASSUME NEW p \in Shadows, price \in Prices, NEW reason \in ShadowReasons
  PROVE  LET q == CloseShadow(p, reason) IN
         /\ SameEntry(p, q) /\ q.trailing = p.trailing
         /\ q.status = "closed" /\ q.reason = reason /\ q.realized = Profit(p)
<1>1. CloseShadow(p, reason) = [p EXCEPT !.status = "closed", !.reason = reason, !.realized = Profit(p)]
  BY DEF CloseShadow, Profit
<1>2. Profit(p) \in Int
  BY ExitFillIs
<1>3. QED
  BY <1>1, <1>2 DEF SameEntry, Shadows

\* What is the same in entry has the same profit and the same levels.
LEMMA SameProfit ==
  ASSUME NEW p \in Shadows, NEW q, SameEntry(p, q)
  PROVE  /\ Profit(q) = Profit(p) /\ ExitFill(q) = ExitFill(p) /\ (GoodLevels(p) <=> GoodLevels(q))
         /\ Worth(q) = Worth(p)
         /\ \A x : (Against(q, x) <=> Against(p, x)) /\ (Past(q, x) <=> Past(p, x))
BY DEF SameEntry, Profit, Gross, ExitFill, GoodLevels, Worth, Against, Past

LEMMA SameTwice ==
  ASSUME NEW p, NEW q, NEW r, SameEntry(p, q), SameEntry(q, r)
  PROVE  SameEntry(p, r)
BY DEF SameEntry

\* What a closing leaves of what a cycle has seen.
LEMMA ClosingIs ==
  ASSUME NEW p \in Shadows, NEW q, SameEntry(p, q), price \in Prices, NEW reason \in ShadowReasons,
         ~TrailGivesWay(p, q), GoodLevels(p),
         reason = "stop_loss" => p.stop # NoLevel /\ Against(p, p.stop[1]),
         reason = "take_profit" => p.target # NoLevel /\ Past(p, p.target[1])
  PROVE  LET r == CloseShadow(q, reason) IN SameEntry(p, r) /\ HeldTo(p, r) /\ Settled(p, r)
<1> DEFINE r == CloseShadow(q, reason)
<1>1. q \in Shadows
  BY DEF SameEntry
<1>2. /\ SameEntry(q, r) /\ r.trailing = q.trailing
      /\ r.status = "closed" /\ r.reason = reason /\ r.realized = Profit(q)
  BY <1>1, ShadowClosed
<1>3. Profit(q) = Profit(p)
  BY SameProfit
<1> HIDE DEF r
<1>4. SameEntry(p, r)
  BY <1>2, SameTwice
<1>5. HeldTo(p, r)
  BY <1>2 DEF HeldTo, TrailGivesWay
<1>6. Settled(p, r)
  BY <1>2, <1>3, LevelPays DEF Settled
<1>7. QED
  BY <1>4, <1>5, <1>6 DEF r

\* The trailing stop is looked at last.
LEMMA TrailingIs ==
  ASSUME NEW p \in Shadows, p.status = "open", price \in Prices, rules \in Rules, GoodLevels(p),
         ~(p.stop # NoLevel /\ Against(p, p.stop[1])), ~(p.target # NoLevel /\ Past(p, p.target[1])),
         p.trailing # NoLevel, rules.trailing # 0
  PROVE  LET moved_ == Trailed(Peaked(p))
             r == IF Against(moved_, moved_.trailing[1]) THEN CloseShadow(moved_, "trailing_stop") ELSE moved_
         IN SameEntry(p, r) /\ HeldTo(p, r) /\ Settled(p, r)
<1> DEFINE seen_ == Peaked(p)
           q == Trailed(seen_)
           r == IF Against(q, q.trailing[1]) THEN CloseShadow(q, "trailing_stop") ELSE q
<1>1. /\ SameEntry(p, seen_) /\ seen_.trailing = p.trailing /\ seen_.status = "open"
      /\ seen_ \in Shadows /\ seen_.side = p.side
  BY PeakedIs DEF SameEntry
<1> HIDE DEF seen_
<1>2. /\ SameEntry(seen_, q) /\ q.highest = seen_.highest /\ q.status = "open"
      /\ q.trailing # NoLevel /\ q.trailing[1] \in Int
      /\ p.side = "long" => /\ q.trailing[1] >= Percent(seen_.highest, -rules.trailing)
                            /\ q.trailing[1] >= p.trailing[1]
      /\ p.side = "short" => q.trailing[1] <= p.trailing[1]
      /\ Percent(seen_.highest, -rules.trailing) \in Int
  BY <1>1, TrailedIs
<1> HIDE DEF q
<1>3. SameEntry(p, q) /\ q \in Shadows /\ q.side = p.side /\ q.stop = p.stop /\ q.target = p.target
  BY <1>1, <1>2, SameTwice DEF SameEntry
<1>4. p.side \in ShadowSides /\ p.trailing[1] \in Int /\ price \in Int
  BY ShadowFields, ShadowConstants
<1>5. ~TrailGivesWay(p, q)
  BY <1>2, <1>4 DEF TrailGivesWay, ShadowSides
<1>6. CASE Against(q, q.trailing[1])
  <2>1. "trailing_stop" \in ShadowReasons
    BY DEF ShadowReasons
  <2>2. r = CloseShadow(q, "trailing_stop")
    BY <1>6
  <2>3. QED
    BY <1>3, <1>5, <2>1, <2>2, ClosingIs DEF q, seen_
<1>7. CASE ~Against(q, q.trailing[1])
  <2>1. r = q
    BY <1>7
  <2>2. \A x : (Against(q, x) <=> Against(p, x)) /\ (Past(q, x) <=> Past(p, x))
    BY <1>3, SameProfit
  <2>3. q.side = "long" => price > Percent(q.highest, -rules.trailing)
    <3>1. q.side = "long" => price > q.trailing[1]
      BY <1>2, <1>4, <1>7 DEF Against
    <3>2. QED
      BY <1>2, <1>3, <1>4, <3>1
  <2>4. Inside(q)
    BY <1>3, <1>7, <2>2, <2>3 DEF Inside
  <2>5. HeldTo(p, q)
    BY <1>5, <2>4 DEF HeldTo
  <2>6. Settled(p, q)
    BY <1>2 DEF Settled
  <2>7. QED
    BY <1>3, <2>1, <2>5, <2>6 DEF q, seen_
<1>8. QED
  BY <1>6, <1>7

\* A cycle keeps a position inside its levels or closes it.
LEMMA EvaluatedIs ==
  ASSUME NEW p \in Shadows, p.status = "open", price \in Prices, rules \in Rules, GoodLevels(p)
  PROVE  SameEntry(p, Evaluated(p)) /\ HeldTo(p, Evaluated(p)) /\ Settled(p, Evaluated(p))
<1> DEFINE seen_ == Peaked(p)
           stopped == p.stop # NoLevel /\ Against(seen_, p.stop[1])
           paid == p.target # NoLevel /\ Past(seen_, p.target[1])
<1>1. /\ SameEntry(p, seen_) /\ seen_.trailing = p.trailing /\ seen_.status = "open" /\ seen_ \in Shadows
      /\ seen_.stop = p.stop /\ seen_.target = p.target /\ seen_.side = p.side
  BY PeakedIs DEF SameEntry
<1>2. \A x : (Against(seen_, x) <=> Against(p, x)) /\ (Past(seen_, x) <=> Past(p, x))
  BY <1>1, SameProfit
<1>3. ~TrailGivesWay(p, seen_)
  BY <1>1, ShadowFields DEF TrailGivesWay
<1>4. "stop_loss" \in ShadowReasons /\ "take_profit" \in ShadowReasons
  BY DEF ShadowReasons
<1>5. CASE stopped
  <2>1. Evaluated(p) = CloseShadow(seen_, "stop_loss")
    BY <1>5 DEF Evaluated
  <2> HIDE DEF seen_
  <2>2. QED
    BY <1>1, <1>2, <1>3, <1>4, <1>5, <2>1, ClosingIs
<1>6. CASE ~stopped /\ paid
  <2>1. Evaluated(p) = CloseShadow(seen_, "take_profit")
    BY <1>6 DEF Evaluated
  <2> HIDE DEF seen_
  <2>2. QED
    BY <1>1, <1>2, <1>3, <1>4, <1>6, <2>1, ClosingIs
<1>7. CASE ~stopped /\ ~paid /\ (p.trailing = NoLevel \/ rules.trailing = 0)
  <2>1. Evaluated(p) = seen_
    BY <1>7 DEF Evaluated
  <2> HIDE DEF seen_
  <2>2. Inside(seen_)
    <3>1. rules.trailing \in Nat
      BY ShadowConstants
    <3>2. QED
      BY <1>1, <1>7, <3>1 DEF Inside
  <2>3. QED
    BY <1>1, <1>3, <2>1, <2>2 DEF HeldTo, Settled
<1>8. CASE ~stopped /\ ~paid /\ ~(p.trailing = NoLevel \/ rules.trailing = 0)
  <2>1. Evaluated(p) = LET m == Trailed(seen_) IN
                       IF Against(m, m.trailing[1]) THEN CloseShadow(m, "trailing_stop") ELSE m
    BY <1>8 DEF Evaluated
  <2>2. ~(p.stop # NoLevel /\ Against(p, p.stop[1])) /\ ~(p.target # NoLevel /\ Past(p, p.target[1]))
    BY <1>2, <1>8
  <2>3. p.trailing # NoLevel /\ rules.trailing # 0
    BY <1>8
  <2>4. QED
    BY <2>1, <2>2, <2>3, TrailingIs
<1>9. QED
  BY <1>5, <1>6, <1>7, <1>8

-----------------------------------------------------------------------------
(* Shadow positions: a cycle looks at one after the other *)

GoodShadows     == {p \in Shadows : GoodLevels(p)}
ShadowStates(n) == [positions : [1..n -> GoodShadows], fills : Seq(ShadowFills)]

\* gs has the fills of fs and more.
MoreFills(fs, gs) == \A k \in DOMAIN fs : k \in DOMAIN gs /\ gs[k] = fs[k]

LEMMA StillExplained ==
  ASSUME NEW fs, NEW gs, MoreFills(fs, gs), NEW p \in Shadows, Explained(fs, p)
  PROVE  Explained(gs, p)
<1>1. p.fills[1] \in DOMAIN gs /\ gs[p.fills[1]] = fs[p.fills[1]]
  BY DEF Explained, EntryBooked, MoreFills
<1>2. p.status = "closed" => p.fills[2] \in DOMAIN gs /\ gs[p.fills[2]] = fs[p.fills[2]]
  BY DEF Explained, ExitBooked, MoreFills
<1>3. EntryBooked(gs, p)
  BY <1>1 DEF Explained, EntryBooked
<1>4. ExitBooked(gs, p)
  BY <1>2 DEF Explained, ExitBooked
<1>5. QED
  BY <1>3, <1>4 DEF Explained

LEMMA FillAdded ==
  ASSUME NEW fs \in Seq(ShadowFills), NEW z \in ShadowFills
  PROVE  /\ Append(fs, z) \in Seq(ShadowFills) /\ MoreFills(fs, Append(fs, z))
         /\ Len(fs) + 1 \in DOMAIN Append(fs, z) /\ Append(fs, z)[Len(fs) + 1] = z
         /\ Len(fs) + 1 \in Nat
BY DEF MoreFills

\* What a cycle makes of p, with the fills before and after.
LookedAt(p, r, fs, gs) ==
  /\ r \in GoodShadows /\ gs \in Seq(ShadowFills) /\ MoreFills(fs, gs)
  /\ HeldTo(p, r)
  /\ Explained(fs, p) => Explained(gs, r)

\* The position stays open.
LEMMA OpenLooked ==
  ASSUME NEW p \in GoodShadows, p.status = "open", NEW q, SameEntry(p, q), HeldTo(p, q), q.status = "open",
         NEW fs \in Seq(ShadowFills)
  PROVE  LookedAt(p, q, fs, fs)
<1>1. q \in GoodShadows
  BY SameProfit DEF GoodShadows, SameEntry
<1>2. ASSUME Explained(fs, p) PROVE Explained(fs, q)
  <2>1. GoodLevels(q)
    BY <1>1 DEF GoodShadows
  <2>2. Worth(q) = Worth(p) /\ q.fills = p.fills /\ q.entryFee = p.entryFee
    BY SameProfit DEF SameEntry, GoodShadows
  <2>3. EntryBooked(fs, q)
    BY <1>2, <2>2 DEF Explained, EntryBooked
  <2>4. QED
    BY <2>1, <2>3 DEF Explained, ExitBooked
<1>3. MoreFills(fs, fs)
  BY DEF MoreFills
<1>4. QED
  BY <1>1, <1>2, <1>3 DEF LookedAt

LEMMA AppendedTo ==
  ASSUME NEW S, NEW f \in Seq(S), NEW x \in S
  PROVE  /\ Len(Append(f, x)) = Len(f) + 1 /\ Append(f, x)[Len(f) + 1] = x
         /\ \A i \in 1..Len(f) : Append(f, x)[i] = f[i]
OBVIOUS

LEMMA SecondAppended ==
  ASSUME NEW S, NEW f \in Seq(S), Len(f) = 1, NEW x \in S
  PROVE  Len(Append(f, x)) = 2 /\ Append(f, x)[1] = f[1] /\ Append(f, x)[2] = x
<1> DEFINE g == Append(f, x)
<1>1. Len(g) = Len(f) + 1 /\ g[Len(f) + 1] = x /\ \A i \in 1..Len(f) : g[i] = f[i]
  BY AppendedTo
<1>2. Len(f) + 1 = 2 /\ 1 \in 1..Len(f)
  OBVIOUS
<1> HIDE DEF g
<1>3. Len(g) = 2 /\ g[1] = f[1] /\ g[2] = x
  BY <1>1, <1>2
<1>4. QED
  BY <1>3, Zenon DEF g

\* The position is closed, with a fill of its own.
LEMMA ClosedLooked ==
  ASSUME NEW p \in GoodShadows, p.status = "open", NEW q, SameEntry(p, q), HeldTo(p, q), Settled(p, q),
         q.status # "open", price \in Prices, NEW fs \in Seq(ShadowFills)
  PROVE  LookedAt(p, [q EXCEPT !.fills = Append(@, Len(fs) + 1)], fs, Append(fs, ExitFill(p)))
<1> DEFINE z == ExitFill(p)
           gs == Append(fs, z)
           k == Len(fs) + 1
           r == [q EXCEPT !.fills = Append(@, k)]
<1>1. p \in Shadows /\ q \in Shadows /\ GoodLevels(p) /\ q.fills = p.fills /\ p.fills \in Seq(Nat)
  BY ShadowFields DEF GoodShadows, SameEntry
<1>2. z \in ShadowFills /\ Profit(p) = Worth(p) + Flow(z)
  BY <1>1, ExitFillIs
<1>3. gs \in Seq(ShadowFills) /\ MoreFills(fs, gs) /\ k \in DOMAIN gs /\ gs[k] = z /\ k \in Nat
  <2> HIDE DEF z
  <2>1. QED
    BY <1>2, FillAdded
<1> HIDE DEF gs, k
<1>4. q.status = "closed" /\ q.realized = Profit(p)
  BY <1>1, ShadowFields DEF Settled
<1>5. Append(p.fills, k) \in Seq(Nat)
  BY <1>1, <1>3
<1>6. /\ r \in Shadows /\ r.fills = Append(p.fills, k) /\ r.side = q.side /\ r.quantity = q.quantity
      /\ r.entry = q.entry /\ r.entryFee = q.entryFee /\ r.stop = q.stop /\ r.target = q.target
      /\ r.trailing = q.trailing /\ r.status = q.status /\ r.reason = q.reason /\ r.realized = q.realized
  BY <1>1, <1>5 DEF Shadows
<1> HIDE DEF r
<1>7. GoodLevels(r) /\ Worth(r) = Worth(p) /\ r.entryFee = p.entryFee
  BY <1>1, <1>6 DEF SameEntry, GoodLevels, Worth
<1>8. HeldTo(p, r)
  BY <1>4, <1>6 DEF HeldTo, TrailGivesWay
<1>9. ASSUME Explained(fs, p) PROVE Explained(gs, r)
  <2>1. /\ Len(p.fills) = 1 /\ p.fills[1] \in DOMAIN fs
        /\ Flow(fs[p.fills[1]]) + p.entryFee = Worth(p)
    BY <1>9 DEF Explained, EntryBooked
  <2>2. Len(r.fills) = 2 /\ r.fills[1] = p.fills[1] /\ r.fills[2] = k
    <3> DEFINE f == p.fills
    <3>1. f \in Seq(Nat) /\ Len(f) = 1 /\ r.fills = Append(f, k)
      BY <1>1, <1>6, <2>1
    <3> HIDE DEF f
    <3>2. Len(Append(f, k)) = 2 /\ Append(f, k)[1] = f[1] /\ Append(f, k)[2] = k
      BY <1>3, <3>1, SecondAppended
    <3>3. QED
      BY <3>1, <3>2 DEF f
  <2>3. r.fills[1] \in DOMAIN gs /\ gs[r.fills[1]] = fs[p.fills[1]]
    BY <1>3, <2>1, <2>2 DEF MoreFills
  <2>4. EntryBooked(gs, r)
    BY <1>4, <1>6, <1>7, <2>1, <2>2, <2>3 DEF EntryBooked
  <2>5. ExitBooked(gs, r)
    <3>1. r.realized = Worth(r) + Flow(gs[r.fills[2]])
      BY <1>2, <1>3, <1>4, <1>6, <1>7, <2>2
    <3>2. (r.reason = "stop_loss" => r.realized < 0) /\ (r.reason = "take_profit" => r.realized >= -gs[r.fills[2]].fee)
      BY <1>3, <1>4, <1>6, <2>2 DEF Settled, z
    <3>3. QED
      BY <1>3, <2>2, <3>1, <3>2 DEF ExitBooked
  <2>6. QED
    BY <1>7, <2>4, <2>5 DEF Explained
<1>10. QED
  BY <1>3, <1>6, <1>7, <1>8, <1>9 DEF LookedAt, GoodShadows, gs, k, r, z

LEMMA ShadowStateFields ==
  ASSUME NEW n \in Nat, NEW s \in ShadowStates(n)
  PROVE  /\ s.positions \in [1..n -> GoodShadows] /\ s.fills \in Seq(ShadowFills)
         /\ s = [positions |-> s.positions, fills |-> s.fills]
BY DEF ShadowStates

\* A cycle looks at one position.
LookedAtOne(n, s, t, i) ==
  /\ t \in ShadowStates(n)
  /\ \A j \in 1..n : j # i => t.positions[j] = s.positions[j]
  /\ LookedAt(s.positions[i], t.positions[i], s.fills, t.fills)

LEMMA LookStep ==
  ASSUME NEW n \in Nat, NEW s \in ShadowStates(n), NEW i \in 1..n, price \in Prices, rules \in Rules
  PROVE  LookedAtOne(n, s, EvaluatePosition(s, i), i)
<1> DEFINE p == s.positions[i]
           q == Evaluated(p)
           t == EvaluatePosition(s, i)
<1>1. p \in GoodShadows /\ p \in Shadows /\ GoodLevels(p) /\ s.fills \in Seq(ShadowFills)
  BY ShadowStateFields DEF GoodShadows
<1>2. CASE p.status # "open"
  <2>1. t = s
    BY <1>2 DEF EvaluatePosition
  <2>2. HeldTo(p, p)
    BY <1>1, <1>2, ShadowFields DEF HeldTo, TrailGivesWay
  <2>3. LookedAt(p, p, s.fills, s.fills)
    BY <1>1, <2>2 DEF LookedAt, MoreFills
  <2>4. QED
    BY <2>1, <2>3 DEF LookedAtOne
<1>3. CASE p.status = "open"
  <2>1. SameEntry(p, q) /\ HeldTo(p, q) /\ Settled(p, q)
    BY <1>1, <1>3, EvaluatedIs
  <2>2. CASE q.status = "open"
    <3>1. t = [s EXCEPT !.positions[i] = q]
      BY <1>3, <2>2 DEF EvaluatePosition
    <3> HIDE DEF q
    <3>2. LookedAt(p, q, s.fills, s.fills)
      BY <1>1, <1>3, <2>1, <2>2, OpenLooked
    <3>3. q \in GoodShadows
      BY <3>2 DEF LookedAt
    <3>4. t = [positions |-> [s.positions EXCEPT ![i] = q], fills |-> s.fills]
      BY <3>1, ShadowStateFields
    <3> HIDE DEF t
    <3>5. t.positions = [s.positions EXCEPT ![i] = q] /\ t.fills = s.fills
      BY <3>4
    <3>6. t.positions[i] = q /\ \A j \in 1..n : j # i => t.positions[j] = s.positions[j]
      BY <3>5, ShadowStateFields
    <3>7. t \in ShadowStates(n)
      BY <3>3, <3>4, ShadowStateFields DEF ShadowStates
    <3>8. QED
      BY <3>2, <3>5, <3>6, <3>7 DEF LookedAtOne, t
  <2>3. CASE q.status # "open"
    <3> DEFINE r == [q EXCEPT !.fills = Append(@, Len(s.fills) + 1)]
               gs == Append(s.fills, ExitFill(p))
    <3>1. t = [positions |-> [s.positions EXCEPT ![i] = r], fills |-> gs]
      BY <1>3, <2>3 DEF EvaluatePosition
    <3>2. LookedAt(p, r, s.fills, gs)
      <4> HIDE DEF q
      <4>1. QED
        BY <1>1, <1>3, <2>1, <2>3, ClosedLooked
    <3> HIDE DEF r, gs
    <3>3. r \in GoodShadows /\ gs \in Seq(ShadowFills)
      BY <3>2 DEF LookedAt
    <3> HIDE DEF t
    <3>4. t.positions = [s.positions EXCEPT ![i] = r] /\ t.fills = gs
      BY <3>1
    <3>5. t.positions[i] = r /\ \A j \in 1..n : j # i => t.positions[j] = s.positions[j]
      BY <3>4, ShadowStateFields
    <3>6. t \in ShadowStates(n)
      BY <3>1, <3>3, ShadowStateFields DEF ShadowStates
    <3>7. QED
      BY <3>2, <3>4, <3>5, <3>6 DEF LookedAtOne, t
  <2>4. QED
    BY <2>2, <2>3
<1>4. QED
  BY <1>2, <1>3

\* What the library chooses for a cycle.
CycleStart == [positions |-> positions, fills |-> fills]
CycleEnd   == FoldLeftDomain(EvaluatePosition, CycleStart, positions)
Places     == [i \in DOMAIN positions |-> i]

Cycling ==
  CHOOSE it : it = [s \in SUBSET (DOMAIN Places) |->
    IF s = {} THEN CycleStart ELSE EvaluatePosition(it[s \ {Highest(s)}], Places[Highest(s)])]

LEMMA CycleIsFold == CycleEnd = Cycling[DOMAIN Places]
BY DEF CycleEnd, Cycling, FoldLeftDomain, FoldLeft, MapThenFoldSet, Highest, Max, Places

\* The shadows after each position, on the way through a cycle.
CyclePath(path, n, last) ==
  /\ path[0] = CycleStart /\ path[n] = last
  /\ \A k \in 1..n : path[k] = EvaluatePosition(path[k - 1], k)

LEMMA CyclePathExists ==
  ASSUME NEW n \in Nat, DOMAIN positions = 1..n, CycleStart \in ShadowStates(n), price \in Prices, rules \in Rules
  PROVE  \E path \in [0..n -> ShadowStates(n)] : CyclePath(path, n, CycleEnd)
<1> DEFINE V == ShadowStates(n)
           step == [z \in (1..n) \X V |-> EvaluatePosition(z[2], z[1])]
           Is(it) == it = [s \in SUBSET (DOMAIN Places) |->
                       IF s = {} THEN CycleStart ELSE EvaluatePosition(it[s \ {Highest(s)}], Places[Highest(s)])]
           it == Cycling
<1>1. DOMAIN Places = 1..n /\ \A k \in 1..n : Places[k] = k
  BY DEF Places
<1>2. \A k \in 1..n, a \in V : EvaluatePosition(a, k) \in V
  BY LookStep DEF LookedAtOne
<1>3. step \in [(1..n) \X V -> V] /\ \A k \in 1..n, a \in V : step[<<k, a>>] = EvaluatePosition(a, k)
  BY <1>2
<1> HIDE DEF step, V
<1>4. PICK g \in [SUBSET (1..n) -> V] : FoldsPositions(g, CycleStart, step, n)
  BY <1>3, SequenceFoldExists DEF V
<1>5. \A s \in SUBSET (1..n) :
        g[s] = IF s = {} THEN CycleStart ELSE EvaluatePosition(g[s \ {Highest(s)}], Places[Highest(s)])
  <2> TAKE s \in SUBSET (1..n)
  <2>1. CASE s = {}
    BY <1>4, <2>1 DEF FoldsPositions
  <2>2. CASE s # {}
    <3>1. Highest(s) \in 1..n /\ g[s \ {Highest(s)}] \in V
      BY <1>4, <2>2, HighestIn
    <3>2. g[s] = step[<<Highest(s), g[s \ {Highest(s)}]>>]
      BY <1>4, <2>2 DEF FoldsPositions
    <3>3. QED
      BY <1>1, <1>3, <2>2, <3>1, <3>2
  <2>3. QED
    BY <2>1, <2>2
<1>6. Is(g)
  BY <1>1, <1>5
<1>7. Is(it)
  <2>1. it = CHOOSE h : Is(h)
    BY DEF Cycling
  <2> HIDE DEF Is, it
  <2>2. QED
    BY <1>6, <2>1
<1>8. CycleEnd = it[1..n]
  BY <1>1, CycleIsFold
<1> HIDE DEF it
<1>9. \A s \in SUBSET (1..n) :
        it[s] = IF s = {} THEN CycleStart ELSE EvaluatePosition(it[s \ {Highest(s)}], Places[Highest(s)])
  BY <1>1, <1>7
<1> HIDE DEF Is
<1>10. it[{}] = CycleStart
  BY <1>9
<1>11. ASSUME NEW k \in 1..n, it[1..(k - 1)] \in V
       PROVE  it[1..k] = step[<<k, it[1..(k - 1)]>>]
  <2>1. 1..k \in SUBSET (1..n) /\ 1..k # {} /\ Highest(1..k) = k /\ (1..k) \ {k} = 1..(k - 1)
    <3>1. k \in Nat \ {0}
      OBVIOUS
    <3>2. 1..k \in SUBSET (1..n)
      OBVIOUS
    <3>3. QED
      BY <3>1, <3>2, TopOfPrefix
  <2>2. it[1..k] = EvaluatePosition(it[1..(k - 1)], k)
    <3>1. it[1..k] = EvaluatePosition(it[(1..k) \ {Highest(1..k)}], Places[Highest(1..k)])
      BY <1>9, <2>1
    <3>2. Places[k] = k
      BY <1>1
    <3>3. QED
      BY <2>1, <3>1, <3>2
  <2>3. QED
    BY <1>3, <1>11, <2>2
<1>12. PICK path \in [0..n -> V] : PathOf(path, CycleStart, step, n, it[1..n])
  <2>1. FoldsPrefixes(it, CycleStart, step, n, V)
    BY <1>10, <1>11 DEF FoldsPrefixes
  <2>2. QED
    BY <1>3, <2>1, FoldPath DEF V
<1>13. \A k \in 1..n : path[k] = EvaluatePosition(path[k - 1], k)
  <2> TAKE k \in 1..n
  <2>1. path[k - 1] \in V
    BY <1>12
  <2>2. QED
    BY <1>3, <1>12, <2>1 DEF PathOf
<1>14. QED
  BY <1>8, <1>12, <1>13 DEF V, CyclePath, PathOf

\* What a cycle has done once it has looked at the first k positions.
LookedUpTo(s, n, k) ==
  /\ \A i \in 1..n : Explained(s.fills, s.positions[i])
  /\ \A i \in 1..n : i <= k => HeldTo(positions[i], s.positions[i])
  /\ \A i \in 1..n : k < i => s.positions[i] = positions[i]

LEMMA LookedUpToNext ==
  ASSUME NEW n \in Nat, NEW k \in 1..n, NEW s \in ShadowStates(n), LookedUpTo(s, n, k - 1),
         NEW t, LookedAtOne(n, s, t, k)
  PROVE  LookedUpTo(t, n, k)
<1>1. /\ t \in ShadowStates(n)
      /\ \A j \in 1..n : j # k => t.positions[j] = s.positions[j]
      /\ LookedAt(s.positions[k], t.positions[k], s.fills, t.fills)
  BY DEF LookedAtOne
<1>2. s.positions[k] = positions[k] /\ Explained(s.fills, s.positions[k])
  BY DEF LookedUpTo
<1>3. \A i \in 1..n : s.positions[i] \in Shadows
  BY ShadowStateFields DEF GoodShadows
<1>4. ASSUME NEW i \in 1..n PROVE Explained(t.fills, t.positions[i])
  <2>1. CASE i = k
    BY <1>1, <1>2, <2>1 DEF LookedAt
  <2>2. CASE i # k
    <3>1. Explained(s.fills, s.positions[i]) /\ MoreFills(s.fills, t.fills)
      BY <1>1 DEF LookedUpTo, LookedAt
    <3>2. Explained(t.fills, s.positions[i])
      BY <1>3, <3>1, StillExplained
    <3>3. QED
      BY <1>1, <2>2, <3>2
  <2>3. QED
    BY <2>1, <2>2
<1>5. ASSUME NEW i \in 1..n, i <= k PROVE HeldTo(positions[i], t.positions[i])
  <2>1. CASE i = k
    BY <1>1, <1>2, <2>1 DEF LookedAt
  <2>2. CASE i # k
    <3>1. i <= k - 1
      BY <1>5, <2>2
    <3>2. QED
      BY <1>1, <2>2, <3>1 DEF LookedUpTo
  <2>3. QED
    BY <2>1, <2>2
<1>6. ASSUME NEW i \in 1..n, k < i PROVE t.positions[i] = positions[i]
  <2>1. i # k /\ k - 1 < i
    BY <1>6
  <2>2. QED
    BY <1>1, <2>1 DEF LookedUpTo
<1>7. QED
  BY <1>4, <1>5, <1>6 DEF LookedUpTo

-----------------------------------------------------------------------------
(* Shadow positions: the invariant *)

SInv ==
  /\ price \in Prices /\ rules \in Rules
  /\ positions \in Seq(GoodShadows) /\ fills \in Seq(ShadowFills)
  /\ \A i \in DOMAIN positions : Explained(fills, positions[i])

LEMMA ShadowsFollow == SInv => ShadowBooks
<1> SUFFICES ASSUME SInv, NEW i \in DOMAIN positions
             PROVE  LET p == positions[i] IN
                    /\ Len(p.fills) = (IF p.status = "open" THEN 1 ELSE 2)
                    /\ p.status = "closed" =>
                         /\ p.realized = Flow(fills[p.fills[1]]) + Flow(fills[p.fills[2]]) + p.entryFee
                         /\ p.reason = "stop_loss" => p.realized < 0
                         /\ p.reason = "take_profit" => p.realized >= -fills[p.fills[2]].fee
  BY DEF ShadowBooks
<1> DEFINE p == positions[i]
           in == Flow(fills[p.fills[1]])
           out == Flow(fills[p.fills[2]])
<1>1. p \in Shadows /\ Explained(fills, p) /\ fills \in Seq(ShadowFills)
  BY DEF SInv, GoodShadows
<1>2. p.status \in {"open", "closed"} /\ p.entryFee \in Int
  BY <1>1, ShadowFields
<1>3. /\ p.fills[1] \in DOMAIN fills /\ in + p.entryFee = Worth(p)
      /\ p.status = "open" => Len(p.fills) = 1
      /\ p.status = "closed" => /\ Len(p.fills) = 2 /\ p.fills[2] \in DOMAIN fills
                                /\ p.realized = Worth(p) + out
                                /\ p.reason = "stop_loss" => p.realized < 0
                                /\ p.reason = "take_profit" => p.realized >= -fills[p.fills[2]].fee
  BY <1>1 DEF Explained, EntryBooked, ExitBooked
<1>4. in \in Int
  BY <1>1, <1>3, ShadowFillFields
<1>5. p.status = "closed" => out \in Int
  BY <1>1, <1>3, ShadowFillFields
<1> HIDE DEF p, in, out
<1>6. p.status = "closed" => p.realized = in + out + p.entryFee
  BY <1>2, <1>3, <1>4, <1>5
<1>7. Len(p.fills) = (IF p.status = "open" THEN 1 ELSE 2)
  BY <1>2, <1>3
<1>8. QED
  BY <1>3, <1>6, <1>7 DEF p, in, out

\* Nothing happens to the shadows.
LEMMA StayStep ==
  ASSUME SInv, positions' = positions, fills' = fills, price' \in Prices, rules' \in Rules
  PROVE  SInv' /\ \A i \in DOMAIN positions : ~TrailGivesWay(positions[i], positions'[i])
<1>1. \A i \in DOMAIN positions' : Explained(fills', positions'[i])
  BY DEF SInv
<1>2. SInv'
  BY <1>1 DEF SInv, Explained, GoodLevels, EntryBooked, ExitBooked, Worth, Flow
<1>3. ASSUME NEW i \in DOMAIN positions PROVE ~TrailGivesWay(positions[i], positions'[i])
  <2>1. positions[i] \in Shadows
    BY DEF SInv, GoodShadows
  <2>2. QED
    BY <2>1, ShadowFields DEF TrailGivesWay
<1>4. QED
  BY <1>2, <1>3

LEMMA BlockStep ==
  ASSUME SInv, NEW s \in OrderSides, NEW market \in Markets, Block(s, market)
  PROVE  SInv' /\ \A i \in DOMAIN positions : ~TrailGivesWay(positions[i], positions'[i])
<1>1. CASE ~ShouldTrack(market)
  <2>1. positions' = positions /\ fills' = fills /\ price' \in Prices /\ rules' \in Rules
    BY <1>1 DEF Block, SInv
  <2>2. QED
    BY <2>1, StayStep
<1>2. CASE ShouldTrack(market)
  <2> DEFINE z == EntryFill(s, market)
             p == Entered(z)
             n == Len(positions)
  <2>1. positions' = Append(positions, p) /\ fills' = Append(fills, z) /\ price' = price /\ rules' = rules
    BY <1>2 DEF Block, EntryFill
  <2>2. /\ price \in Prices /\ rules \in Rules /\ positions \in Seq(GoodShadows) /\ fills \in Seq(ShadowFills)
        /\ \A i \in DOMAIN positions : Explained(fills, positions[i]) /\ positions[i] \in Shadows
    BY DEF SInv, GoodShadows
  <2>3. p \in Shadows /\ Explained(Append(fills, z), p) /\ z \in ShadowFills
    BY <2>2, EnteredIs, EntryFillIs
  <2>4. p \in GoodShadows
    BY <2>3 DEF GoodShadows, Explained
  <2> HIDE DEF p, z
  <2>5. MoreFills(fills, Append(fills, z)) /\ Append(fills, z) \in Seq(ShadowFills)
    BY <2>2, <2>3, FillAdded
  <2>6. /\ positions' \in Seq(GoodShadows) /\ Len(positions') = n + 1 /\ positions'[n + 1] = p
        /\ \A i \in 1..n : positions'[i] = positions[i]
    BY <2>1, <2>2, <2>4, AppendedTo
  <2>7. n \in Nat /\ DOMAIN positions = 1..n /\ DOMAIN positions' = 1..(n + 1)
    BY <2>2, <2>6
  <2>8. ASSUME NEW i \in DOMAIN positions' PROVE Explained(fills', positions'[i])
    <3>1. CASE i = n + 1
      BY <2>1, <2>3, <2>6, <3>1
    <3>2. CASE i # n + 1
      <4>1. i \in DOMAIN positions /\ positions'[i] = positions[i]
        BY <2>6, <2>7, <3>2
      <4>2. QED
        BY <2>1, <2>2, <2>5, <4>1, StillExplained
    <3>3. QED
      BY <3>1, <3>2
  <2>9. SInv'
    BY <2>1, <2>2, <2>5, <2>6, <2>8 DEF SInv, Explained, GoodLevels, EntryBooked, ExitBooked, Worth, Flow
  <2>10. ASSUME NEW i \in DOMAIN positions PROVE ~TrailGivesWay(positions[i], positions'[i])
    <3>1. positions'[i] = positions[i] /\ positions[i] \in Shadows
      BY <2>2, <2>6, <2>7
    <3>2. QED
      BY <3>1, ShadowFields DEF TrailGivesWay
  <2>11. QED
    BY <2>9, <2>10
<1>3. QED
  BY <1>1, <1>2

\* A cycle leaves every open position inside its levels.
LEMMA CycleStep ==
  ASSUME SInv, Evaluate
  PROVE  /\ SInv'
         /\ \A i \in DOMAIN positions : ~TrailGivesWay(positions[i], positions'[i])
         /\ \A i \in DOMAIN positions' : positions'[i].status = "open" => Inside(positions'[i])
<1> DEFINE n == Len(positions)
           c == CycleEnd
<1>1. /\ price \in Prices /\ rules \in Rules /\ positions \in Seq(GoodShadows) /\ fills \in Seq(ShadowFills)
      /\ \A i \in DOMAIN positions : Explained(fills, positions[i])
  BY DEF SInv
<1>2. n \in Nat /\ DOMAIN positions = 1..n /\ positions \in [1..n -> GoodShadows]
  BY <1>1
<1>3. positions' = c.positions /\ fills' = c.fills /\ price' = price /\ rules' = rules
  BY DEF Evaluate, CycleEnd, CycleStart
<1>4. CycleStart \in ShadowStates(n)
  BY <1>1, <1>2 DEF CycleStart, ShadowStates
<1> HIDE DEF n, c
<1>5. PICK path \in [0..n -> ShadowStates(n)] : CyclePath(path, n, CycleEnd)
  BY <1>1, <1>2, <1>4, CyclePathExists
<1> DEFINE B == {k \in Nat : k <= n => LookedUpTo(path[k], n, k)}
<1>6. 0 \in B
  <2>1. path[0] = CycleStart
    BY <1>5 DEF CyclePath
  <2>2. LookedUpTo(CycleStart, n, 0)
    BY <1>1, <1>2 DEF LookedUpTo, CycleStart
  <2>3. QED
    BY <2>1, <2>2
<1>7. ASSUME NEW k \in Nat, k \in B PROVE k + 1 \in B
  <2> SUFFICES ASSUME k + 1 <= n PROVE LookedUpTo(path[k + 1], n, k + 1)
    OBVIOUS
  <2>1. k \in 0..n /\ k + 1 \in 1..n /\ (k + 1) - 1 = k
    BY <1>2
  <2>2. path[k] \in ShadowStates(n) /\ LookedUpTo(path[k], n, k)
    BY <1>2, <1>5, <1>7, <2>1
  <2>3. path[k + 1] = EvaluatePosition(path[k], k + 1)
    BY <1>5, <2>1 DEF CyclePath
  <2>4. LookedAtOne(n, path[k], path[k + 1], k + 1)
    BY <1>1, <1>2, <2>1, <2>2, <2>3, LookStep
  <2>5. QED
    BY <1>2, <2>1, <2>2, <2>4, LookedUpToNext
<1> HIDE DEF B
<1>8. n \in B
  BY <1>2, <1>6, <1>7, NumberInduction
<1>9. LookedUpTo(c, n, n) /\ c \in ShadowStates(n)
  <2>1. path[n] = c /\ n \in 0..n
    BY <1>2, <1>5 DEF CyclePath, c
  <2>2. LookedUpTo(path[n], n, n)
    BY <1>2, <1>8 DEF B
  <2>3. QED
    BY <1>5, <2>1, <2>2
<1>10. c.positions \in [1..n -> GoodShadows] /\ c.fills \in Seq(ShadowFills)
  BY <1>2, <1>9, ShadowStateFields
<1>11. positions' \in Seq(GoodShadows) /\ fills' \in Seq(ShadowFills) /\ DOMAIN positions' = 1..n
  BY <1>2, <1>3, <1>10
<1>12. \A i \in 1..n : Explained(fills', positions'[i]) /\ HeldTo(positions[i], positions'[i])
  BY <1>2, <1>3, <1>9 DEF LookedUpTo
<1>13. SInv'
  <2>1. \A i \in DOMAIN positions' : Explained(fills', positions'[i])
    BY <1>11, <1>12
  <2>2. QED
    BY <1>1, <1>3, <1>11, <2>1 DEF SInv, Explained, GoodLevels, EntryBooked, ExitBooked, Worth, Flow
<1>14. \A i \in DOMAIN positions : ~TrailGivesWay(positions[i], positions'[i])
  BY <1>2, <1>12 DEF HeldTo
<1>15. \A i \in DOMAIN positions' : positions'[i].status = "open" => Inside(positions'[i])
  BY <1>11, <1>12 DEF HeldTo
<1>16. QED
  BY <1>13, <1>14, <1>15

LEMMA SInitInv == SInit => SInv
<1> SUFFICES ASSUME SInit PROVE SInv
  OBVIOUS
<1>1. positions = <<>> /\ fills = <<>> /\ price \in Prices /\ rules \in Rules
  BY DEF SInit
<1>2. positions \in Seq(GoodShadows) /\ fills \in Seq(ShadowFills) /\ DOMAIN positions = {}
  BY <1>1
<1>3. QED
  BY <1>1, <1>2 DEF SInv

LEMMA SNextStep ==
  ASSUME SInv, SNext
  PROVE  SInv' /\ KeptInside' /\ \A i \in DOMAIN positions : ~TrailGivesWay(positions[i], positions'[i])
<1>1. ASSUME ~judged' PROVE KeptInside'
  BY <1>1 DEF KeptInside
<1>2. ASSUME NEW s \in OrderSides, NEW market \in Markets, Block(s, market)
      PROVE  SInv' /\ KeptInside' /\ \A i \in DOMAIN positions : ~TrailGivesWay(positions[i], positions'[i])
  <2>1. ~judged'
    BY <1>2 DEF Block
  <2>2. QED
    BY <1>1, <1>2, <2>1, BlockStep
<1>3. ASSUME NEW p \in Prices, Tick(p)
      PROVE  SInv' /\ KeptInside' /\ \A i \in DOMAIN positions : ~TrailGivesWay(positions[i], positions'[i])
  <2>1. positions' = positions /\ fills' = fills /\ price' \in Prices /\ rules' \in Rules /\ ~judged'
    BY <1>3 DEF Tick, SInv
  <2>2. QED
    BY <1>1, <2>1, StayStep
<1>4. ASSUME NEW r \in Rules, Reconfigure(r)
      PROVE  SInv' /\ KeptInside' /\ \A i \in DOMAIN positions : ~TrailGivesWay(positions[i], positions'[i])
  <2>1. positions' = positions /\ fills' = fills /\ price' \in Prices /\ rules' \in Rules /\ ~judged'
    BY <1>4 DEF Reconfigure, SInv
  <2>2. QED
    BY <1>1, <2>1, StayStep
<1>5. ASSUME Evaluate
      PROVE  SInv' /\ KeptInside' /\ \A i \in DOMAIN positions : ~TrailGivesWay(positions[i], positions'[i])
  <2>1. price' = price /\ rules' = rules
    BY <1>5 DEF Evaluate
  <2>2. \A i \in DOMAIN positions' : positions'[i].status = "open" => Inside(positions'[i])
    BY <1>5, CycleStep
  <2>3. ASSUME NEW i \in OpenShadows' PROVE Inside(positions[i])'
    <3>1. i \in DOMAIN positions' /\ positions'[i].status = "open"
      BY DEF OpenShadows
    <3>2. Inside(positions'[i])
      BY <2>2, <3>1
    <3>3. QED
      BY <2>1, <3>2 DEF Inside, Against, Past, Percent
  <2>4. KeptInside'
    BY <2>3 DEF KeptInside
  <2>5. QED
    BY <1>5, <2>4, CycleStep
<1>6. QED
  BY <1>2, <1>3, <1>4, <1>5 DEF SNext

\* The exits of shadow positions hold whatever the prices and the configuration do
\* (evaluate_shadow_positions and close_shadow_position).
THEOREM ExitsAlwaysHold == SSpec => ExitsHold
<1>1. SInit => SInv
  BY SInitInv
<1>2. SInv /\ [SNext]_svars => SInv'
  <2> SUFFICES ASSUME SInv, [SNext]_svars PROVE SInv'
    OBVIOUS
  <2>1. CASE SNext
    BY <2>1, SNextStep
  <2>2. CASE UNCHANGED svars
    <3>1. positions' = positions /\ fills' = fills /\ price' \in Prices /\ rules' \in Rules
      BY <2>2 DEF svars, SInv
    <3>2. QED
      BY <3>1, StayStep
  <2>3. QED
    BY <2>1, <2>2
<1>3. SInv => ShadowBooks
  BY ShadowsFollow
<1>4. SInv /\ SInv' /\ ShadowBooks' /\ [SNext]_svars =>
        [KeptInside' /\ ShadowBooks' /\ \A i \in DOMAIN positions : ~TrailGivesWay(positions[i], positions'[i])]_svars
  BY SNextStep
<1>5. QED
  BY <1>1, <1>2, <1>3, <1>4, PTL DEF SSpec, ExitsHold

=============================================================================
