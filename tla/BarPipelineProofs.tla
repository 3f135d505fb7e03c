------------------------- MODULE BarPipelineProofs -------------------------
(***************************************************************************)
(* Theorems about the bar pipeline, for any symbols, queue size, window    *)
(* and number of outages: the types, that a bar is lost only where the     *)
(* specification says so, that bars wait in order, which rows miss ticks,  *)
(* and what an aggregated bar is computed from.                            *)
(***************************************************************************)
EXTENDS BarPipeline, FiniteSetTheorems, WellFoundedInduction, TLAPS

\* The set of a sequence after the operations of the queue and the batch.
LEMMA SetOfEmpty == ToSet(<<>>) = {}
BY DEF ToSet

LEMMA SetOfAppend ==
  ASSUME NEW S, NEW q \in Seq(S), NEW b \in S
  PROVE  ToSet(Append(q, b)) = ToSet(q) \cup {b}
<1>1. /\ Len(q) \in Nat /\ DOMAIN Append(q, b) = 1..(Len(q) + 1) /\ DOMAIN q = 1..Len(q)
      /\ \A i \in DOMAIN q : Append(q, b)[i] = q[i]
      /\ Append(q, b)[Len(q) + 1] = b
  OBVIOUS
<1>2. ToSet(Append(q, b)) \subseteq ToSet(q) \cup {b} BY <1>1 DEF ToSet
<1>3. ToSet(q) \subseteq ToSet(Append(q, b)) BY <1>1 DEF ToSet
<1>4. b \in ToSet(Append(q, b))
  <2>1. Len(q) + 1 \in DOMAIN Append(q, b) BY <1>1
  <2> QED BY <1>1, <2>1 DEF ToSet
<1> QED BY <1>2, <1>3, <1>4

LEMMA SetOfHeadTail ==
  ASSUME NEW S, NEW q \in Seq(S), q # <<>>
  PROVE  ToSet(q) = {Head(q)} \cup ToSet(Tail(q))
<1>1. Len(q) \in Nat \ {0} OBVIOUS
<1>2. ToSet(q) \subseteq {Head(q)} \cup ToSet(Tail(q))
  <2> SUFFICES ASSUME NEW i \in DOMAIN q
               PROVE  q[i] \in {Head(q)} \cup ToSet(Tail(q))
    BY DEF ToSet
  <2>1. CASE i = 1 BY <2>1
  <2>2. CASE i # 1
    <3>1. i - 1 \in DOMAIN Tail(q) /\ Tail(q)[i - 1] = q[i] BY <1>1, <2>2
    <3> QED BY <3>1 DEF ToSet
  <2> QED BY <2>1, <2>2
<1>3. {Head(q)} \cup ToSet(Tail(q)) \subseteq ToSet(q)
  <2>1. Head(q) \in ToSet(q) BY <1>1 DEF ToSet
  <2>2. ASSUME NEW i \in DOMAIN Tail(q) PROVE Tail(q)[i] \in ToSet(q)
    <3>1. i + 1 \in DOMAIN q /\ Tail(q)[i] = q[i + 1] BY <1>1
    <3> QED BY <3>1 DEF ToSet
  <2> QED BY <2>1, <2>2 DEF ToSet
<1> QED BY <1>2, <1>3

LEMMA SetOfBars ==
  ASSUME TypeOK
  PROVE  ToSet(queue) \subseteq Bars /\ ToSet(batch) \subseteq Bars
BY DEF TypeOK, ToSet

LEMMA KeysInType ==
  ASSUME NEW S, S \subseteq Bars
  PROVE  Keys(S) \subseteq Symbols \X Minutes
BY DEF Keys, Bars

-----------------------------------------------------------------------------
(* Types *)

LEMMA InitType == Init => TypeOK
<1> SUFFICES ASSUME Init PROVE TypeOK OBVIOUS
<1>1. 0 \in Minutes BY BarAssumption DEF Minutes
<1>2. <<>> \in Seq(Bars) /\ Len(<<>>) <= QueueSize BY BarAssumption
<1>3. 0 \in 0..MaxOutages /\ 0 \in 0..MaxFaults BY BarAssumption
<1> QED BY <1>1, <1>2, <1>3 DEF Init, TypeOK

\* Minutes in a table are marked by an upsert, and windows are filled from it.
LEMMA WriteType ==
  ASSUME TypeOK, WriteBatch
  PROVE  /\ stored' \in [Symbols -> [Minutes -> {"none", "part", "whole"}]]
         /\ windows' \in [Symbols -> [Windows -> SUBSET Minutes]]
         /\ batch' \in Seq(Bars)
<1>1. \A bars : Upserted(bars) \in [Symbols -> [Minutes -> {"none", "part", "whole"}]]
  BY DEF Upserted, TypeOK
<1>2. \A table, s, w : BarsFetched(table, s, w) \subseteq Minutes BY DEF BarsFetched
<1>3. \A bars, table : Aggregated(bars, table) \in [Symbols -> [Windows -> SUBSET Minutes]]
  BY <1>2 DEF Aggregated, TypeOK
<1> QED BY <1>1, <1>3 DEF WriteBatch

LEMMA LeaveType ==
  ASSUME TypeOK, Leave
  PROVE  /\ minute' \in Minutes /\ stream' = "stopped" /\ joins' \subseteq Minutes
         /\ lostAt' \in Minutes /\ due' \subseteq Bars /\ gaps' \subseteq Gaps
         /\ queue' \in Seq(Bars) /\ Len(queue') <= QueueSize
         /\ outages' \in 0..MaxOutages
         /\ Abandoned \subseteq Symbols \X Minutes
<1>1. Abandoned \subseteq Symbols \X Minutes
  BY SetOfBars, KeysInType DEF Abandoned, Filled, TypeOK
<1>2. Len(<<>>) <= QueueSize BY BarAssumption
<1> QED BY <1>1, <1>2 DEF Leave, TypeOK

LEMMA FaultType == TypeOK /\ Fault => faults' \in 0..MaxFaults
BY BarAssumption DEF TypeOK, Fault

LEMMA NextType == TypeOK /\ [Next]_vars => TypeOK'
<1> SUFFICES ASSUME TypeOK, [Next]_vars PROVE TypeOK' OBVIOUS
<1> USE DEF networkVars, tableVars
<1>1. CASE Tick
  <2>1. minute' \in Minutes BY <1>1, BarAssumption DEF Tick, TypeOK, Minutes
  <2>2. WholeBar(minute) \in BOOLEAN BY BarAssumption DEF WholeBar
  <2>3. due' \subseteq Bars BY <1>1, <2>2 DEF Tick, TypeOK, Bars
  <2> QED BY <1>1, <2>1, <2>3 DEF Tick, TypeOK
<1>2. ASSUME NEW message \in SUBSET due, NEW b \in message, Receive(message, b)
      PROVE  TypeOK'
  <2>1. queue' \in Seq(Bars) /\ Len(queue') <= QueueSize
    <3>1. CASE Len(queue) < QueueSize
      <4>1. queue' = Append(queue, b) /\ b \in Bars BY <1>2, <3>1 DEF Receive, TypeOK
      <4>2. Len(queue) \in Nat BY DEF TypeOK
      <4> QED BY <3>1, <4>1, <4>2, BarAssumption DEF TypeOK
    <3>2. CASE ~(Len(queue) < QueueSize) BY <1>2, <3>2 DEF Receive, TypeOK
    <3> QED BY <3>1, <3>2
  <2>2. gone' \subseteq Symbols \X Minutes
    <3>1. gone' \subseteq gone \cup Keys(message)
      BY <1>2 DEF Receive, Keys
    <3> QED BY <3>1, KeysInType DEF TypeOK
  <2> QED BY <1>2, <2>1, <2>2 DEF Receive, TypeOK
<1>3. CASE Disconnect
  <2>1. outages' \in 0..MaxOutages BY <1>3, BarAssumption DEF Disconnect, TypeOK
  <2>2. gone' \subseteq Symbols \X Minutes BY <1>3, KeysInType DEF Disconnect, TypeOK
  <2> QED BY <1>3, <2>1, <2>2 DEF Disconnect, TypeOK
<1>4. CASE Reconnect
  <2>1. [from |-> lostAt, to |-> minute] \in Gaps BY DEF Gaps, TypeOK
  <2> QED BY <1>4, <2>1 DEF Reconnect, TypeOK
<1>5. ASSUME NEW g \in gaps, Backfill(g) PROVE TypeOK'
  BY <1>5 DEF Backfill, TypeOK
<1>6. ASSUME NEW g \in gaps, BackfillFails(g) PROVE TypeOK'
  BY <1>6, FaultType DEF BackfillFails, TypeOK, Filled
<1>7. CASE Take
  <2>1. Head(queue) \in Bars /\ Tail(queue) \in Seq(Bars) /\ Len(Tail(queue)) <= QueueSize
    <3>1. Len(queue) \in Nat \ {0} BY <1>7 DEF Take, TypeOK
    <3> QED BY <1>7, <3>1, BarAssumption DEF Take, TypeOK
  <2> QED BY <1>7, <2>1 DEF Take, TypeOK
<1>8. CASE Flush BY <1>8, WriteType DEF Flush, TypeOK
<1>9. CASE FlushFails BY <1>9, FaultType DEF FlushFails, TypeOK
<1>10. CASE CommitFails
  <2>1. gone' \subseteq Symbols \X Minutes BY <1>10, SetOfBars, KeysInType DEF CommitFails, TypeOK
  <2> QED BY <1>10, <2>1, FaultType DEF CommitFails, TypeOK
<1>11. CASE Stop
  <2>1. gone' \subseteq Symbols \X Minutes BY <1>11, LeaveType DEF Stop, TypeOK
  <2> QED BY <1>11, <2>1, LeaveType, WriteType, FaultType DEF Stop, TypeOK
<1>12. CASE Crash
  <2>1. gone' \subseteq Symbols \X Minutes
    BY <1>12, LeaveType, SetOfBars, KeysInType DEF Crash, TypeOK
  <2> QED BY <1>12, <2>1, LeaveType, FaultType DEF Crash, TypeOK
<1>13. CASE Start BY <1>13 DEF Start, TypeOK
<1>14. CASE UNCHANGED vars BY <1>14 DEF vars, TypeOK
<1> QED BY <1>1, <1>2, <1>3, <1>4, <1>5, <1>6, <1>7, <1>8, <1>9, <1>10, <1>11, <1>12,
           <1>13, <1>14 DEF Next

\* Clock, queue, tables and histories keep their types; the queue its bound.
THEOREM TypeCorrect == Spec => []TypeOK
BY InitType, NextType, PTL DEF Spec

-----------------------------------------------------------------------------
(* No bar is lost but by the named losses *)

LossInv ==
  /\ TypeOK
  /\ NoUnknownLoss
  /\ stream = "lost" => lostAt <= minute

\* What is known of a past minute.
LEMMA Whereabouts ==
  ASSUME LossInv, NEW s \in Symbols, NEW m \in Minutes, m < minute
  PROVE  \/ stored[s][m] # "none"
         \/ <<s, m>> \in Keys(due) \cup Keys(ToSet(queue)) \cup Keys(ToSet(batch))
         \/ m \in Expected
         \/ <<s, m>> \in gone
<1>1. Keys(due \cup ToSet(queue) \cup ToSet(batch))
        = Keys(due) \cup Keys(ToSet(queue)) \cup Keys(ToSet(batch))
  BY DEF Keys
<1> QED BY <1>1 DEF LossInv, NoUnknownLoss, OnTheWay

\* An upsert leaves a row for each bar of the batch and keeps all others.
LEMMA UpsertKeeps ==
  ASSUME TypeOK, NEW s \in Symbols, NEW m \in Minutes, WriteBatch
  PROVE  /\ stored[s][m] # "none" => stored'[s][m] # "none"
         /\ <<s, m>> \in Keys(ToSet(batch)) => stored'[s][m] # "none"
<1>1. stored'[s][m] = Upserted(ToSet(batch))[s][m] BY DEF WriteBatch
<1>2. stored[s][m] # "none" => Upserted(ToSet(batch))[s][m] # "none" BY DEF Upserted
<1>3. ASSUME NEW b \in ToSet(batch), <<s, m>> = <<b.sym, b.minute>>
      PROVE  Upserted(ToSet(batch))[s][m] # "none"
  <2>1. b.whole \in BOOLEAN BY SetOfBars DEF Bars
  <2> QED BY <1>3, <2>1 DEF Upserted
<1> QED BY <1>1, <1>2, <1>3 DEF Keys

LEMMA NextLoss ==
  ASSUME LossInv, [Next]_vars, NEW s \in Symbols, NEW m \in Minutes, m < minute'
  PROVE  \/ stored'[s][m] # "none"
         \/ <<s, m>> \in Keys(due') \cup Keys(ToSet(queue')) \cup Keys(ToSet(batch'))
         \/ m \in Expected'
         \/ <<s, m>> \in gone'
<1> USE DEF networkVars, tableVars
<1> TypeOK BY DEF LossInv
<1>1. CASE Tick
  <2>1. minute \in Int /\ minute' = minute + 1 /\ lostAt \in Int /\ m \in Int
    BY <1>1, BarAssumption DEF Tick, TypeOK, Minutes
  <2>2. CASE m < minute
    <3>1. m \in Expected => m \in Expected'
      <4>1. \A g : Filled(g) \subseteq Filled(g)'
        BY <1>1, <2>1, BarAssumption DEF Filled, Tick, Minutes
      <4> QED BY <1>1, <2>1, <4>1 DEF Expected, Tick
    <3>2. due = {} BY <1>1 DEF Tick
    <3> QED BY <1>1, <2>2, <3>1, <3>2, Whereabouts DEF Tick, Keys
  <2>3. CASE m = minute
    <3>1. CASE stream = "up"
      <4>1. [sym |-> s, minute |-> m, whole |-> WholeBar(m)] \in due'
        BY <1>1, <2>3, <3>1 DEF Tick
      <4> QED BY <4>1 DEF Keys
    <3>2. CASE stream = "lost" /\ m # lostAt
      <4>1. lostAt < m BY <2>1, <2>3, <3>2 DEF LossInv
      <4> QED BY <1>1, <2>1, <2>3, <3>2, <4>1 DEF Tick, Expected
    <3>3. CASE ~(stream = "up") /\ ~(stream = "lost" /\ m # lostAt)
      BY <1>1, <2>3, <3>3 DEF Tick, TypeOK
    <3> QED BY <3>1, <3>2, <3>3
  <2> QED BY <2>1, <2>2, <2>3
<1>2. ASSUME NEW message \in SUBSET due, NEW b \in message, Receive(message, b)
      PROVE  \/ stored'[s][m] # "none"
             \/ <<s, m>> \in Keys(due') \cup Keys(ToSet(queue')) \cup Keys(ToSet(batch'))
             \/ m \in Expected'
             \/ <<s, m>> \in gone'
  <2>1. b \in Bars BY DEF TypeOK
  <2>2. Keys(due) \subseteq Keys(due') \cup Keys(message)
    BY <1>2 DEF Receive, Keys
  <2>3. Keys(message) \subseteq Keys(ToSet(queue')) \cup gone'
    <3>1. CASE Len(queue) < QueueSize
      <4>1. b \in ToSet(queue') BY <1>2, <2>1, <3>1, SetOfAppend DEF Receive, TypeOK
      <4> QED BY <1>2, <3>1, <4>1 DEF Receive, Keys
    <3>2. CASE ~(Len(queue) < QueueSize) BY <1>2, <3>2 DEF Receive
    <3> QED BY <3>1, <3>2
  <2>4. Keys(ToSet(queue)) \subseteq Keys(ToSet(queue'))
    <3>1. ToSet(queue) \subseteq ToSet(queue')
      BY <1>2, <2>1, SetOfAppend DEF Receive, TypeOK
    <3> QED BY <3>1 DEF Keys
  <2>5. Expected' = Expected BY <1>2 DEF Receive, Expected, Filled
  <2> QED BY <1>2, <2>2, <2>3, <2>4, <2>5, Whereabouts DEF Receive
<1>3. CASE Disconnect
  <2>1. Expected \subseteq Expected' BY <1>3 DEF Disconnect, Expected, Filled
  <2> QED BY <1>3, <2>1, Whereabouts DEF Disconnect
<1>4. CASE Reconnect
  <2> DEFINE g == [from |-> lostAt, to |-> minute]
  <2>1. m \in Expected => m \in Expected'
    <3>1. CASE lostAt < m /\ m < minute
      <4>1. m \in Filled(g)' BY <1>4, <3>1, BarAssumption DEF Filled, Reconnect, Minutes, TypeOK
      <4> QED BY <1>4, <4>1 DEF Expected, Reconnect
    <3>2. CASE ~(lostAt < m /\ m < minute)
      BY <1>4, <3>2 DEF Expected, Reconnect, Filled
    <3> QED BY <3>1, <3>2
  <2> QED BY <1>4, <2>1, Whereabouts DEF Reconnect
<1>5. ASSUME NEW g \in gaps, Backfill(g)
      PROVE  \/ stored'[s][m] # "none"
             \/ <<s, m>> \in Keys(due') \cup Keys(ToSet(queue')) \cup Keys(ToSet(batch'))
             \/ m \in Expected'
             \/ <<s, m>> \in gone'
  <2>1. stored[s][m] # "none" => stored'[s][m] # "none" BY <1>5 DEF Backfill
  <2>2. m \in Expected => m \in Expected' \/ stored'[s][m] # "none"
    <3>1. CASE m \in Filled(g) BY <1>5, <3>1 DEF Backfill
    <3>2. CASE m \notin Filled(g) BY <1>5, <3>2 DEF Backfill, Expected, Filled
    <3> QED BY <3>1, <3>2
  <2> QED BY <1>5, <2>1, <2>2, Whereabouts DEF Backfill
<1>6. ASSUME NEW g \in gaps, BackfillFails(g)
      PROVE  \/ stored'[s][m] # "none"
             \/ <<s, m>> \in Keys(due') \cup Keys(ToSet(queue')) \cup Keys(ToSet(batch'))
             \/ m \in Expected'
             \/ <<s, m>> \in gone'
  <2>1. m \in Expected => m \in Expected' \/ <<s, m>> \in gone'
    <3>1. CASE m \in Filled(g) BY <1>6, <3>1 DEF BackfillFails
    <3>2. CASE m \notin Filled(g) BY <1>6, <3>2 DEF BackfillFails, Expected, Filled
    <3> QED BY <3>1, <3>2
  <2> QED BY <1>6, <2>1, Whereabouts DEF BackfillFails
<1>7. CASE Take
  <2>1. Expected' = Expected BY <1>7 DEF Take, Expected, Filled
  <2>2. Head(queue) \in Bars BY <1>7 DEF Take, TypeOK
  <2>3. ToSet(queue) \cup ToSet(batch) = ToSet(queue') \cup ToSet(batch')
    BY <1>7, <2>2, SetOfAppend, SetOfHeadTail DEF Take, TypeOK
  <2>4. Keys(ToSet(queue)) \cup Keys(ToSet(batch)) = Keys(ToSet(queue')) \cup Keys(ToSet(batch'))
    BY <2>3 DEF Keys
  <2> QED BY <1>7, <2>1, <2>4, Whereabouts DEF Take
<1>8. CASE Flush
  <2>1. Expected' = Expected BY <1>8 DEF Flush, Expected, Filled
  <2> QED BY <1>8, <2>1, UpsertKeeps, Whereabouts DEF Flush
<1>9. CASE FlushFails
  <2>1. Expected' = Expected BY <1>9 DEF FlushFails, Expected, Filled
  <2> QED BY <1>9, <2>1, Whereabouts DEF FlushFails
<1>10. CASE CommitFails
  <2>1. Expected' = Expected BY <1>10 DEF CommitFails, Expected, Filled
  <2> QED BY <1>10, <2>1, Whereabouts DEF CommitFails
<1>11. CASE Stop
  <2>1. m \in Expected => <<s, m>> \in Abandoned BY DEF Expected, Abandoned
  <2>2. <<s, m>> \in Keys(due) \cup Keys(ToSet(queue)) => <<s, m>> \in Abandoned
    BY DEF Abandoned
  <2> QED BY <1>11, <2>1, <2>2, UpsertKeeps, Whereabouts DEF Stop, Leave
<1>12. CASE Crash
  <2>1. m \in Expected => <<s, m>> \in Abandoned BY DEF Expected, Abandoned
  <2>2. <<s, m>> \in Keys(due) \cup Keys(ToSet(queue)) => <<s, m>> \in Abandoned
    BY DEF Abandoned
  <2> QED BY <1>12, <2>1, <2>2, Whereabouts DEF Crash, Leave
<1>13. CASE Start
  <2>1. m \in Expected => m \in Expected' BY <1>13 DEF Start, Expected, Filled
  <2> QED BY <1>13, <2>1, Whereabouts DEF Start
<1>14. CASE UNCHANGED vars
  <2>1. Expected' = Expected BY <1>14 DEF vars, Expected, Filled
  <2> QED BY <1>14, <2>1, Whereabouts DEF vars
<1> QED BY <1>1, <1>2, <1>3, <1>4, <1>5, <1>6, <1>7, <1>8, <1>9, <1>10, <1>11, <1>12,
           <1>13, <1>14 DEF Next

LEMMA LostAtPast ==
  ASSUME LossInv, [Next]_vars, stream' = "lost"
  PROVE  lostAt' <= minute'
<1> USE DEF networkVars, tableVars
<1>1. minute \in Int /\ lostAt \in Int BY BarAssumption DEF LossInv, TypeOK, Minutes
<1>2. CASE Tick BY <1>1, <1>2 DEF Tick, LossInv
<1>3. CASE Disconnect BY <1>1, <1>3 DEF Disconnect
<1>4. CASE UNCHANGED <<minute, stream, lostAt>> BY <1>4 DEF LossInv
<1>5. Next => Tick \/ Disconnect \/ UNCHANGED <<minute, stream, lostAt>>
              \/ Reconnect \/ Stop \/ Crash \/ Start
  BY DEF Next, Receive, Backfill, BackfillFails, Take, Flush, FlushFails, CommitFails
<1>6. Reconnect \/ Stop \/ Crash \/ Start => stream' # "lost"
  BY DEF Reconnect, Stop, Crash, Leave, Start
<1> QED BY <1>2, <1>3, <1>4, <1>5, <1>6 DEF vars

\* A bar of a past minute is stored or on its way unless one of the named
\* losses took it: a failed upsert or a long outage loses nothing.
THEOREM LossesAreNamed == Spec => []NoUnknownLoss
<1>1. Init => LossInv
  <2> SUFFICES ASSUME Init PROVE LossInv OBVIOUS
  <2>1. \A m \in Minutes : ~(m < minute) BY BarAssumption DEF Init, Minutes
  <2> QED BY <2>1, InitType DEF LossInv, NoUnknownLoss, Init
<1>2. LossInv /\ [Next]_vars => LossInv'
  <2> SUFFICES ASSUME LossInv, [Next]_vars PROVE LossInv' OBVIOUS
  <2>1. TypeOK' BY NextType DEF LossInv
  <2>2. NoUnknownLoss'
    <3>1. ASSUME NEW s \in Symbols, NEW m \in Minutes, m < minute'
          PROVE  stored'[s][m] # "none" \/ OnTheWay(s, m)' \/ <<s, m>> \in gone'
      <4>1. Keys(due' \cup ToSet(queue') \cup ToSet(batch'))
              = Keys(due') \cup Keys(ToSet(queue')) \cup Keys(ToSet(batch'))
        BY DEF Keys
      <4> QED BY <3>1, <4>1, NextLoss DEF OnTheWay
    <3> QED BY <3>1 DEF NoUnknownLoss
  <2>3. stream' = "lost" => lostAt' <= minute' BY LostAtPast
  <2> QED BY <2>1, <2>2, <2>3 DEF LossInv
<1>3. LossInv => NoUnknownLoss BY DEF LossInv
<1> QED BY <1>1, <1>2, <1>3, PTL DEF Spec

-----------------------------------------------------------------------------
(* Bars wait in order *)

Ordered(q) ==
  \A i, j \in DOMAIN q : i < j /\ q[i].sym = q[j].sym => q[i].minute < q[j].minute

\* No bar of A is of the minute of a later or equal one of B.
Before(A, B) == \A a \in A, b \in B : a.sym = b.sym => a.minute < b.minute

\* The bars due are later than those that wait, and one of each symbol.
LineInv ==
  /\ Ordered(batch) /\ Ordered(queue)
  /\ Before(ToSet(batch), ToSet(queue))
  /\ Before(ToSet(batch) \cup ToSet(queue), due)
  /\ \A b \in ToSet(batch) \cup ToSet(queue) \cup due : b.minute < minute
  /\ \A d, e \in due : d.sym = e.sym => d = e

LEMMA OrderedAppend ==
  ASSUME NEW q \in Seq(Bars), NEW b \in Bars, Ordered(q), Before(ToSet(q), {b})
  PROVE  Ordered(Append(q, b))
<1>1. /\ Len(q) \in Nat /\ DOMAIN Append(q, b) = 1..(Len(q) + 1) /\ DOMAIN q = 1..Len(q)
      /\ \A i \in DOMAIN q : Append(q, b)[i] = q[i]
      /\ Append(q, b)[Len(q) + 1] = b
  OBVIOUS
<1>2. \A i \in DOMAIN q : q[i] \in ToSet(q) BY DEF ToSet
<1>3. SUFFICES ASSUME NEW i \in 1..(Len(q) + 1), NEW j \in 1..(Len(q) + 1), i < j,
                      Append(q, b)[i].sym = Append(q, b)[j].sym
               PROVE  Append(q, b)[i].minute < Append(q, b)[j].minute
  BY <1>1 DEF Ordered
<1>4. i \in DOMAIN q BY <1>1, <1>3
<1>5. CASE j \in DOMAIN q BY <1>1, <1>3, <1>4, <1>5 DEF Ordered
<1>6. CASE j = Len(q) + 1 BY <1>1, <1>2, <1>3, <1>4, <1>6 DEF Before
<1> QED BY <1>1, <1>5, <1>6

LEMMA OrderedHeadTail ==
  ASSUME NEW q \in Seq(Bars), q # <<>>, Ordered(q)
  PROVE  Ordered(Tail(q)) /\ Before({Head(q)}, ToSet(Tail(q)))
<1>1. /\ Len(q) \in Nat \ {0} /\ DOMAIN Tail(q) = 1..(Len(q) - 1) /\ DOMAIN q = 1..Len(q)
      /\ \A i \in DOMAIN Tail(q) : Tail(q)[i] = q[i + 1]
      /\ Head(q) = q[1]
  OBVIOUS
<1>2. Ordered(Tail(q))
  <2> SUFFICES ASSUME NEW i \in DOMAIN Tail(q), NEW j \in DOMAIN Tail(q), i < j, Tail(q)[i].sym = Tail(q)[j].sym
               PROVE  Tail(q)[i].minute < Tail(q)[j].minute
    BY DEF Ordered
  <2>1. i + 1 \in DOMAIN q /\ j + 1 \in DOMAIN q /\ i + 1 < j + 1 BY <1>1
  <2> QED BY <1>1, <2>1 DEF Ordered
<1>3. Before({Head(q)}, ToSet(Tail(q)))
  <2> SUFFICES ASSUME NEW j \in DOMAIN Tail(q), q[1].sym = Tail(q)[j].sym
               PROVE  q[1].minute < Tail(q)[j].minute
    BY <1>1 DEF Before, ToSet
  <2>1. 1 \in DOMAIN q /\ j + 1 \in DOMAIN q /\ 1 < j + 1 BY <1>1
  <2> QED BY <1>1, <2>1 DEF Ordered
<1> QED BY <1>2, <1>3

LEMMA OrderedEmpty == Ordered(<<>>) /\ ToSet(<<>>) = {}
BY SetOfEmpty DEF Ordered

LEMMA NextLine == TypeOK /\ LineInv /\ [Next]_vars => LineInv'
<1> SUFFICES ASSUME TypeOK, LineInv, [Next]_vars PROVE LineInv' OBVIOUS
<1> USE DEF networkVars, tableVars
<1>1. CASE Tick
  <2>1. minute' = minute + 1 /\ minute \in Int /\ UNCHANGED <<queue, batch>>
    BY <1>1, BarAssumption DEF Tick, TypeOK, Minutes
  <2>2. \A d \in due' : d.minute = minute BY <1>1 DEF Tick
  <2>3. \A d, e \in due' : d.sym = e.sym => d = e BY <1>1 DEF Tick
  <2>4. \A b \in ToSet(batch) \cup ToSet(queue) : b.minute \in Int /\ b.minute < minute
    BY SetOfBars, BarAssumption DEF LineInv, Bars, Minutes
  <2> QED BY <2>1, <2>2, <2>3, <2>4 DEF LineInv, Before
<1>2. ASSUME NEW message \in SUBSET due, NEW b \in message, Receive(message, b)
      PROVE  LineInv'
  <2>1. b \in Bars /\ b \in due /\ UNCHANGED <<minute, batch>> /\ due' = due \ message
    BY <1>2 DEF TypeOK, Receive
  <2>2. Before(ToSet(queue), {b}) /\ Before(ToSet(batch), {b}) BY <2>1 DEF LineInv, Before
  <2>3. CASE queue' = Append(queue, b)
    <3>1. Ordered(queue') BY <2>1, <2>2, <2>3, OrderedAppend DEF LineInv, TypeOK
    <3>2. ToSet(queue') = ToSet(queue) \cup {b} BY <2>1, <2>3, SetOfAppend DEF TypeOK
    <3>3. \A d \in due' : d.sym # b.sym BY <2>1 DEF LineInv
    <3> QED BY <2>1, <2>2, <3>1, <3>2, <3>3 DEF LineInv, Before
  <2>4. CASE queue' = queue BY <2>1, <2>4 DEF LineInv, Before
  <2> QED BY <1>2, <2>3, <2>4 DEF Receive
<1>3. CASE UNCHANGED <<minute, queue, batch, due>> BY <1>3 DEF LineInv
<1>4. CASE Disconnect BY <1>4 DEF Disconnect, LineInv, Before
<1>5. CASE Take
  <2>1. Head(queue) \in Bars /\ UNCHANGED <<minute, due>> BY <1>5 DEF Take, TypeOK
  <2>2. ToSet(batch') = ToSet(batch) \cup {Head(queue)} /\ ToSet(queue) = {Head(queue)} \cup ToSet(queue')
    BY <1>5, <2>1, SetOfAppend, SetOfHeadTail DEF Take, TypeOK
  <2>3. Ordered(queue') /\ Before({Head(queue)}, ToSet(queue'))
    BY <1>5, OrderedHeadTail DEF Take, TypeOK, LineInv
  <2>4. Ordered(batch') BY <1>5, <2>1, <2>2, OrderedAppend DEF Take, TypeOK, LineInv, Before
  <2> QED BY <2>1, <2>2, <2>3, <2>4 DEF LineInv, Before
<1>6. CASE Flush \/ CommitFails
  <2>1. batch' = <<>> /\ UNCHANGED <<minute, queue, due>> BY <1>6 DEF Flush, WriteBatch, CommitFails
  <2> QED BY <2>1, OrderedEmpty DEF LineInv, Before
<1>7. CASE Stop \/ Crash
  <2>1. batch' = <<>> /\ queue' = <<>> /\ due' = {} BY <1>7 DEF Stop, Crash, WriteBatch, Leave
  <2> QED BY <2>1, OrderedEmpty DEF LineInv, Before
<1>8. Reconnect \/ FlushFails \/ Start \/ UNCHANGED vars => UNCHANGED <<minute, queue, batch, due>>
  BY DEF Reconnect, FlushFails, Start, vars
<1>9. \A g : Backfill(g) \/ BackfillFails(g) => UNCHANGED <<minute, queue, batch, due>>
  BY DEF Backfill, BackfillFails
<1> QED BY <1>1, <1>2, <1>3, <1>4, <1>5, <1>6, <1>7, <1>8, <1>9 DEF Next

\* A waiting bar as an element of the batch or of the queue.
LEMMA Waiting ==
  ASSUME TypeOK, NEW i \in 1..Len(batch \o queue)
  PROVE  /\ Len(batch) \in Nat /\ Len(queue) \in Nat /\ DOMAIN batch = 1..Len(batch) /\ DOMAIN queue = 1..Len(queue)
         /\ (batch \o queue)[i] = IF i <= Len(batch) THEN batch[i] ELSE queue[i - Len(batch)]
         /\ i <= Len(batch) \/ i - Len(batch) \in DOMAIN queue
BY DEF TypeOK

\* An upsert never has two bars of a symbol and a minute, and none is
\* written over by an older one.
THEOREM BarsWaitInOrder == Spec => []BarsInOrder
<1>1. Init => LineInv
  BY OrderedEmpty DEF Init, LineInv, Before
<1>2. TypeOK /\ LineInv => BarsInOrder
  <2> SUFFICES ASSUME TypeOK, LineInv, NEW i \in 1..Len(batch \o queue), NEW j \in 1..Len(batch \o queue),
                      i < j, (batch \o queue)[i].sym = (batch \o queue)[j].sym
               PROVE  (batch \o queue)[i].minute < (batch \o queue)[j].minute
    BY DEF BarsInOrder
  <2> DEFINE n == Len(batch)
  <2>1. CASE j <= n BY <2>1, Waiting DEF LineInv, Ordered
  <2>2. CASE i <= n /\ ~(j <= n)
    <3>1. batch[i] \in ToSet(batch) /\ queue[j - n] \in ToSet(queue)
      BY <2>2, Waiting DEF ToSet
    <3> QED BY <2>2, <3>1, Waiting DEF LineInv, Before
  <2>3. CASE ~(i <= n)
    <3>1. i - n < j - n /\ ~(j <= n) BY <2>3, Waiting
    <3> QED BY <2>3, <3>1, Waiting DEF LineInv, Ordered
  <2> QED BY <2>1, <2>2, <2>3
<1> QED BY <1>1, <1>2, NextLine, TypeCorrect, PTL DEF Spec

-----------------------------------------------------------------------------
(* Rows that miss ticks *)

PartialInv ==
  /\ OnlyJoinsArePartial
  /\ \A b \in due \cup ToSet(queue) \cup ToSet(batch) : b.whole \/ b.minute \in joins

LEMMA NextPartial == TypeOK /\ PartialInv /\ [Next]_vars => PartialInv'
<1> SUFFICES ASSUME TypeOK, PartialInv, [Next]_vars PROVE PartialInv' OBVIOUS
<1> USE DEF networkVars, tableVars, PartialInv
<1>1. CASE Tick
  <2>1. ASSUME NEW d \in due' PROVE d.whole \/ d.minute \in joins
    <3>1. PICK s \in Symbols : d = [sym |-> s, minute |-> minute, whole |-> WholeBar(minute)]
      BY <1>1, Zenon DEF Tick
    <3>2. d.minute = minute BY <3>1
    <3>3. WholeBar(minute) => d.whole BY <3>1, Zenon
    <3> QED BY <3>2, <3>3 DEF WholeBar
  <2> QED BY <1>1, <2>1 DEF Tick, OnlyJoinsArePartial
<1>2. ASSUME NEW message \in SUBSET due, NEW b \in message, Receive(message, b)
      PROVE  PartialInv'
  <2>1. ToSet(queue') \subseteq ToSet(queue) \cup {b}
    <3>1. b \in Bars BY DEF TypeOK
    <3>2. queue' = Append(queue, b) \/ queue' = queue BY <1>2 DEF Receive
    <3>3. ToSet(Append(queue, b)) = ToSet(queue) \cup {b} BY <3>1, SetOfAppend DEF TypeOK
    <3> QED BY <3>2, <3>3
  <2> QED BY <1>2, <2>1 DEF Receive, OnlyJoinsArePartial
<1>3. CASE Disconnect BY <1>3 DEF Disconnect, OnlyJoinsArePartial
<1>4. CASE Reconnect \/ Start BY <1>4 DEF Reconnect, Start, OnlyJoinsArePartial
<1>5. ASSUME NEW g \in gaps, Backfill(g) \/ BackfillFails(g) PROVE PartialInv'
  <2>1. \A s \in Symbols, m \in Minutes : stored'[s][m] = "part" => stored[s][m] = "part"
    BY <1>5 DEF Backfill, BackfillFails
  <2> QED BY <1>5, <2>1 DEF Backfill, BackfillFails, OnlyJoinsArePartial
<1>6. CASE Take
  <2>1. Head(queue) \in Bars BY <1>6 DEF Take, TypeOK
  <2>2. ToSet(queue) \cup ToSet(batch) = ToSet(queue') \cup ToSet(batch')
    BY <1>6, <2>1, SetOfAppend, SetOfHeadTail DEF Take, TypeOK
  <2>3. \A b \in ToSet(queue') \cup ToSet(batch') : b.whole \/ b.minute \in joins BY <2>2
  <2> QED BY <1>6, <2>3 DEF Take, OnlyJoinsArePartial
<1>7. ASSUME WriteBatch, joins' = joins PROVE OnlyJoinsArePartial'
  <2> SUFFICES ASSUME NEW s \in Symbols, NEW m \in Minutes, stored'[s][m] = "part" PROVE m \in joins
    BY <1>7 DEF OnlyJoinsArePartial
  <2>1. Upserted(ToSet(batch))[s][m] = "part" BY <1>7 DEF WriteBatch
  <2>2. stored[s][m] = "part" \/ \E b \in ToSet(batch) : b.minute = m /\ ~b.whole BY <2>1 DEF Upserted
  <2> QED BY <2>2 DEF OnlyJoinsArePartial
<1>8. CASE Flush
  <2>1. batch' = <<>> /\ UNCHANGED <<due, queue, joins>> BY <1>8 DEF Flush, WriteBatch
  <2> QED BY <1>7, <1>8, <2>1, SetOfEmpty DEF Flush
<1>9. CASE FlushFails BY <1>9 DEF FlushFails, OnlyJoinsArePartial
<1>10. CASE CommitFails BY <1>10, SetOfEmpty DEF CommitFails, OnlyJoinsArePartial
<1>11. CASE Stop
  <2>1. batch' = <<>> /\ queue' = <<>> /\ due' = {} /\ joins' = joins BY <1>11 DEF Stop, WriteBatch, Leave
  <2> QED BY <1>7, <1>11, <2>1, SetOfEmpty DEF Stop
<1>12. CASE Crash BY <1>12, SetOfEmpty DEF Crash, Leave, OnlyJoinsArePartial
<1>13. CASE UNCHANGED vars BY <1>13 DEF vars, OnlyJoinsArePartial
<1> QED BY <1>1, <1>2, <1>3, <1>4, <1>5, <1>6, <1>8, <1>9, <1>10, <1>11, <1>12, <1>13 DEF Next

\* Ticks are missing only from the minutes in which the stream was opened; an
\* upsert or a backfill leaves no other row incomplete.
THEOREM OnlyJoinsMissTicks == Spec => []OnlyJoinsArePartial
<1>1. Init => PartialInv
  <2> SUFFICES ASSUME Init PROVE PartialInv OBVIOUS
  <2>1. \A s \in Symbols, m \in Minutes : stored[s][m] = "none" BY DEF Init
  <2> QED BY <2>1, SetOfEmpty DEF Init, PartialInv, OnlyJoinsArePartial
<1>2. PartialInv => OnlyJoinsArePartial BY DEF PartialInv
<1> QED BY <1>1, <1>2, NextPartial, TypeCorrect, PTL DEF Spec

-----------------------------------------------------------------------------
(* Aggregated bars *)

LEMMA Least ==
  ASSUME NEW S, S \subseteq Nat, S # {}
  PROVE  \E m \in S : \A n \in S : m <= n
<1>1. PICK m \in S : \A n \in S : <<n, m>> \notin OpToRel(<, Nat)
  BY NatLessThanWellFounded, WFMin, Zenon
<1>2. \A n \in S : ~(n < m) BY <1>1, Zenon DEF OpToRel
<1> QED BY <1>2

LEMMA MinutesFinite == IsFiniteSet(Minutes) /\ Minutes \subseteq Nat
<1>1. IsFiniteSet(0..LastMinute) BY FS_Interval, BarAssumption
<1> QED BY <1>1, BarAssumption DEF Minutes

LEMMA LastBefore ==
  ASSUME NEW m \in Nat, NEW k \in Nat \ {0}, (m + 1) % k = 0
  PROVE  m = k * (m \div k) + k - 1 /\ m \div k \in Nat
<1>1. m = k * (m \div k) + k - 1 OBVIOUS
<1>2. m \div k \in Nat OBVIOUS
<1> QED BY <1>1, <1>2

\* The minute that ends a window.
LEMMA LastOfWindow ==
  ASSUME NEW m \in Minutes, IsWindowComplete(m)
  PROVE  m = Width * WindowOf(m) + Width - 1 /\ WindowOf(m) \in Nat
<1>1. m \in Nat /\ (m + 1) % Width = 0 BY BarAssumption DEF Minutes, IsWindowComplete
<1>2. m = Width * (m \div Width) + Width - 1 /\ m \div Width \in Nat BY <1>1, BarAssumption, LastBefore
<1> QED BY <1>2 DEF WindowOf

\* The latest bars up to the limit: no more than a window's worth, with the one
\* that ends the window.
LEMMA Fetched ==
  ASSUME NEW table, NEW s, NEW w \in Nat
  PROVE  /\ BarsFetched(table, s, w) \subseteq Minutes
         /\ Cardinality(BarsFetched(table, s, w)) <= Width
         /\ \A m \in BarsFetched(table, s, w) : Width * w <= m /\ table[s][m] # "none"
         /\ LET m == Width * w + Width - 1 IN
            m \in Minutes /\ table[s][m] # "none" => m \in BarsFetched(table, s, w)
<1> DEFINE found == {m \in Minutes : Width * w <= m /\ m <= Width * (w + 1) /\ table[s][m] # "none"}
           From(m) == {n \in found : n >= m}
           S == BarsFetched(table, s, w)
           last == Width * w + Width - 1
<1>1. S = {m \in found : Cardinality(From(m)) <= Width} BY DEF BarsFetched
<1>2. found \subseteq Minutes /\ S \subseteq found BY <1>1
<1>3. IsFiniteSet(found) /\ \A m : IsFiniteSet(From(m))
  <2>1. \A m : From(m) \subseteq Minutes BY <1>2
  <2> QED BY <1>2, <2>1, MinutesFinite, FS_Subset
<1>4. Cardinality(S) <= Width
  <2>1. CASE S = {} BY <2>1, FS_EmptySet, BarAssumption
  <2>2. CASE S # {}
    <3>1. PICK m \in S : \A n \in S : m <= n BY <1>2, <2>2, MinutesFinite, Least
    <3>2. S \subseteq From(m) BY <1>2, <3>1, MinutesFinite
    <3>3. Cardinality(From(m)) <= Width BY <1>1, <3>1
    <3>4. Cardinality(S) <= Cardinality(From(m)) /\ IsFiniteSet(S) BY <1>3, <3>2, FS_Subset
    <3>5. Cardinality(S) \in Nat /\ Cardinality(From(m)) \in Nat BY <1>3, <3>4, FS_CardinalityType
    <3> QED BY <3>3, <3>4, <3>5, BarAssumption
  <2> QED BY <2>1, <2>2
<1>5. ASSUME last \in Minutes, table[s][last] # "none" PROVE last \in S
  <2>1. Width * (w + 1) = last + 1 /\ Width * w <= last /\ last \in Nat
    <3>1. Width * w \in Nat /\ Width * (w + 1) = Width * w + Width BY BarAssumption
    <3> QED BY <3>1, BarAssumption
  <2>2. last \in found BY <1>5, <2>1
  <2>3. From(last) \subseteq {last, last + 1}
    <3> SUFFICES ASSUME NEW n \in found, n >= last PROVE n \in {last, last + 1}
      OBVIOUS
    <3>1. n \in Nat /\ n <= last + 1 BY <2>1, MinutesFinite
    <3> QED BY <2>1, <3>1
  <2>4. IsFiniteSet({last, last + 1}) /\ Cardinality({last, last + 1}) = 2
    <3>1. last + 1 \notin {last} BY <2>1
    <3>2. {last, last + 1} = {last} \cup {last + 1} OBVIOUS
    <3> HIDE DEF last
    <3>3. IsFiniteSet({last}) /\ Cardinality({last}) = 1 BY FS_Singleton
    <3> QED BY <3>1, <3>2, <3>3, FS_AddElement
  <2>5. Cardinality(From(last)) <= 2 BY <2>3, <2>4, FS_Subset
  <2>6. Cardinality(From(last)) <= Width
    <3>1. Cardinality(From(last)) \in Nat BY <1>3, FS_CardinalityType
    <3> HIDE DEF From
    <3> QED BY <2>5, <3>1, BarAssumption
  <2> QED BY <1>1, <2>2, <2>6
<1> HIDE DEF S, found, last
<1>6. \A m \in S : m \in Minutes /\ Width * w <= m /\ table[s][m] # "none" BY <1>2 DEF found
<1> QED BY <1>4, <1>5, <1>6 DEF S, last

LEMMA NextWindows == TypeOK /\ WindowsClosed /\ [Next]_vars => WindowsClosed'
<1> SUFFICES ASSUME TypeOK, WindowsClosed, [Next]_vars PROVE WindowsClosed' OBVIOUS
<1> USE DEF networkVars, tableVars
<1>1. ASSUME UNCHANGED windows,
             \A s \in Symbols, m \in Minutes : stored[s][m] # "none" => stored'[s][m] # "none"
      PROVE  WindowsClosed'
  <2>1. \A s \in Symbols, w \in Windows : windows[s][w] \subseteq Minutes BY DEF TypeOK
  <2> QED BY <1>1, <2>1 DEF WindowsClosed
<1>2. ASSUME WriteBatch PROVE WindowsClosed'
  <2> SUFFICES ASSUME NEW s \in Symbols, NEW w \in Windows, windows'[s][w] # {}
               PROVE  /\ Width * w + Width - 1 \in windows'[s][w]
                      /\ Cardinality(windows'[s][w]) <= Width
                      /\ \A m \in windows'[s][w] : Width * w <= m /\ stored'[s][m] # "none"
    BY DEF WindowsClosed
  <2>1. stored' = Upserted(ToSet(batch)) /\ windows' = Aggregated(ToSet(batch), stored')
    BY <1>2 DEF WriteBatch
  <2>2. CASE \E b \in ToSet(batch) : b.sym = s /\ WindowOf(b.minute) = w /\ IsWindowComplete(b.minute)
    <3>1. windows'[s][w] = BarsFetched(stored', s, w) BY <2>1, <2>2 DEF Aggregated
    <3>2. PICK b \in ToSet(batch) : b.sym = s /\ WindowOf(b.minute) = w /\ IsWindowComplete(b.minute)
      BY <2>2
    <3>3. b.minute \in Minutes BY SetOfBars DEF Bars
    <3>4. b.minute = Width * w + Width - 1 /\ w \in Nat BY <3>2, <3>3, LastOfWindow
    <3>5. stored'[s][b.minute] # "none"
      <4>1. <<s, b.minute>> \in Keys(ToSet(batch)) BY <3>2 DEF Keys
      <4> QED BY <1>2, <3>3, <4>1, UpsertKeeps
    <3> QED BY <3>1, <3>3, <3>4, <3>5, Fetched
  <2>3. CASE ~\E b \in ToSet(batch) : b.sym = s /\ WindowOf(b.minute) = w /\ IsWindowComplete(b.minute)
    <3>1. windows'[s][w] = windows[s][w] BY <2>1, <2>3 DEF Aggregated
    <3>2. \A m \in windows[s][w] : m \in Minutes BY DEF TypeOK
    <3> QED BY <1>2, <3>1, <3>2, UpsertKeeps DEF WindowsClosed
  <2> QED BY <2>2, <2>3
<1>3. Flush \/ Stop => WriteBatch BY DEF Flush, Stop
<1>4. ASSUME NEW g, Backfill(g) PROVE WindowsClosed'
  <2>1. UNCHANGED windows BY <1>4 DEF Backfill
  <2>2. \A s \in Symbols, m \in Minutes : stored[s][m] # "none" => stored'[s][m] # "none" BY <1>4 DEF Backfill
  <2> QED BY <1>1, <2>1, <2>2
<1>5. \/ WriteBatch \/ UNCHANGED <<stored, windows>> \/ \E g \in gaps : Backfill(g)
  BY <1>3 DEF Next, Tick, Disconnect, Reconnect, Receive, BackfillFails, Take, FlushFails, CommitFails,
              Crash, Start, vars
<1> QED BY <1>1, <1>2, <1>4, <1>5

\* Whatever the gaps, an aggregated bar is computed when its window has ended,
\* and the limit of the query takes nothing of its end away.
THEOREM WindowsStayClosed == Spec => []WindowsClosed
<1>1. Init => WindowsClosed BY DEF Init, WindowsClosed
<1> QED BY <1>1, NextWindows, TypeCorrect, PTL DEF Spec

=============================================================================
