---------------------------- MODULE BarPipeline ----------------------------
(***************************************************************************)
(* The way of a one-minute bar: broker stream, receive loop, bounded       *)
(* queue, batch writer, ohlcv_bars, and from there the aggregated bars of  *)
(* one higher timeframe.  A lost connection is followed by a reconnect and *)
(* a backfill of the gap over REST.                                        *)
(*                                                                         *)
(* Every symbol trades in every minute.  An event happens inside a minute, *)
(* so a time t lies after the start of minute t.                           *)
(***************************************************************************)
EXTENDS Integers, FiniteSets, Sequences, SequencesExt

CONSTANTS
  Symbols,     \* symbols of the stream
  Ticks,       \* TRUE: bars are built from price ticks (OANDA); FALSE: the
               \* broker sends bars (Alpaca)
  Width,       \* minutes in a window of the higher timeframe
  QueueSize,   \* ws_bar_queue_max_size
  LastMinute,  \* bound: minutes in a behaviour
  MaxOutages,  \* bound: lost connections
  MaxFaults    \* bound: failed flushes, failed backfills, restarts

ASSUME BarAssumption ==
  /\ Ticks \in BOOLEAN
  /\ Width \in Nat \ {0, 1}   \* the shortest is five minutes
  /\ QueueSize \in Nat \ {0}
  /\ LastMinute \in Nat
  /\ MaxOutages \in Nat
  /\ MaxFaults \in Nat

Minutes == 0..LastMinute
Bars    == [sym : Symbols, minute : Minutes, whole : BOOLEAN]
Gaps    == [from : Minutes, to : Minutes]

VARIABLES
  minute,     \* the minute in progress
  stream,     \* "up", "lost" (reconnecting), "failed" (not opened at startup)
              \* or "stopped" (the process is down)
  joins,      \* minutes in which the stream was opened
  lostAt,     \* minute the connection was lost in
  due,        \* bars of the last minute the broker has not delivered yet
  queue,      \* _bar_queue
  batch,      \* the processor's _batch
  stored,     \* ohlcv_bars, timeframe 1m
  windows,    \* aggregated bars: the minutes each was computed from
  gaps,       \* gap backfills in progress
  outages,
  faults,
  gone        \* history: bars no part of the system will store any more

vars == <<minute, stream, joins, lostAt, due, queue, batch, stored, windows, gaps,
          outages, faults, gone>>
networkVars == <<stream, joins, lostAt, outages>>
tableVars == <<stored, windows>>

\* The window of a minute, and whether the minute is the last one of it.
WindowOf(m) == m \div Width
IsWindowComplete(m) == (m + 1) % Width = 0
Windows == {WindowOf(m) : m \in Minutes}

TypeOK ==
  /\ minute \in Minutes
  /\ stream \in {"up", "lost", "failed", "stopped"}
  /\ joins \subseteq Minutes
  /\ lostAt \in Minutes
  /\ due \subseteq Bars
  /\ queue \in Seq(Bars) /\ Len(queue) <= QueueSize
  /\ batch \in Seq(Bars)
  /\ stored \in [Symbols -> [Minutes -> {"none", "part", "whole"}]]
  /\ windows \in [Symbols -> [Windows -> SUBSET Minutes]]
  /\ gaps \subseteq Gaps
  /\ outages \in 0..MaxOutages
  /\ faults \in 0..MaxFaults
  /\ gone \subseteq Symbols \X Minutes

Init ==
  /\ minute = 0
  /\ stream \in {"up", "failed"}
  /\ joins = {0}
  /\ lostAt = 0
  /\ due = {}
  /\ queue = <<>>
  /\ batch = <<>>
  /\ stored = [s \in Symbols |-> [m \in Minutes |-> "none"]]
  /\ windows = [s \in Symbols |-> [w \in Windows |-> {}]]
  /\ gaps = {}
  /\ outages = 0
  /\ faults = 0
  /\ gone = {}

Fault == faults < MaxFaults /\ faults' = faults + 1

Keys(bars) == {<<b.sym, b.minute>> : b \in bars}

-----------------------------------------------------------------------------
(* The stream and the receive loop *)

\* Mutant: the minute after the one the stream was opened in.
WholeBarAfter(m) == ~Ticks \/ m - 1 \notin joins

\* A stream opened during a minute has not seen its first ticks.
WholeBar(m) == ~Ticks \/ m \notin joins

\* The minute ends.  A connected stream has its bars; the reconnect will fill
\* the minutes that begin while the connection is lost.
Tick ==
  /\ minute < LastMinute
  /\ due = {}
  /\ minute' = minute + 1
  /\ due' = IF stream = "up"
            THEN {[sym |-> s, minute |-> minute, whole |-> WholeBar(minute)] : s \in Symbols}
            ELSE {}
  /\ gone' = IF stream \in {"failed", "stopped"} \/ (stream = "lost" /\ minute = lostAt)
             THEN gone \cup (Symbols \X {minute})
             ELSE gone
  /\ UNCHANGED <<networkVars, queue, batch, tableVars, gaps, faults>>

\* A message arrives.  receive() returns its first bar and drops the others;
\* the bar is dropped too when the queue is full.
Receive(message, b) ==
  LET fits == Len(queue) < QueueSize IN
  /\ stream = "up"
  /\ message \subseteq due /\ b \in message
  /\ Ticks => message = {b}
  /\ due' = due \ message
  /\ queue' = IF fits THEN Append(queue, b) ELSE queue
  /\ gone' = gone \cup Keys(IF fits THEN message \ {b} ELSE message)
  /\ UNCHANGED <<minute, networkVars, batch, tableVars, gaps, faults>>

Disconnect ==
  /\ stream = "up"
  /\ outages < MaxOutages
  /\ outages' = outages + 1
  /\ stream' = "lost"
  /\ lostAt' = minute
  /\ due' = {}
  /\ gone' = gone \cup Keys(due)
  /\ UNCHANGED <<minute, joins, queue, batch, tableVars, gaps, faults>>

\* A new stream with the old symbols, and a task that fills the gap.
Reconnect ==
  /\ stream = "lost"
  /\ stream' = "up"
  /\ joins' = joins \cup {minute}
  /\ gaps' = gaps \cup {[from |-> lostAt, to |-> minute]}
  /\ UNCHANGED <<minute, lostAt, due, queue, batch, tableVars, outages, faults, gone>>

-----------------------------------------------------------------------------
(* Gap backfill *)

\* REST returns the complete bars that start between the two times.
Filled(g) == {m \in Minutes : g.from < m /\ m <= g.to /\ m < minute}

Backfill(g) ==
  /\ g \in gaps
  /\ gaps' = gaps \ {g}
  /\ stored' = [s \in Symbols |->
                  [m \in Minutes |-> IF m \in Filled(g) THEN "whole" ELSE stored[s][m]]]
  /\ UNCHANGED <<minute, networkVars, due, queue, batch, windows, faults, gone>>

\* One symbol fails: the bars of all symbols are rolled back, for good.
BackfillFails(g) ==
  /\ g \in gaps
  /\ Fault
  /\ gaps' = gaps \ {g}
  /\ gone' = gone \cup (Symbols \X Filled(g))
  /\ UNCHANGED <<minute, networkVars, due, queue, batch, tableVars>>

-----------------------------------------------------------------------------
(* Batch writer and aggregation *)

Take ==
  /\ stream # "stopped"
  /\ queue # <<>>
  /\ batch' = Append(batch, Head(queue))
  /\ queue' = Tail(queue)
  /\ UNCHANGED <<minute, networkVars, due, tableVars, gaps, faults, gone>>

\* The rows after an upsert: the last one written wins.
Upserted(bars) ==
  [s \in Symbols |-> [m \in Minutes |->
     CASE \E b \in bars : b.sym = s /\ b.minute = m /\ b.whole -> "whole"
       [] \E b \in bars : b.sym = s /\ b.minute = m /\ ~b.whole -> "part"
       [] OTHER -> stored[s][m]]]

\* get_bars(start, end, limit): up to and including the end, the latest first.
BarsFetched(table, s, w) ==
  LET found == {m \in Minutes : Width * w <= m /\ m <= Width * (w + 1) /\ table[s][m] # "none"}
  IN {m \in found : Cardinality({n \in found : n >= m}) <= Width}

\* Mutant: windows are closed by their first bar.
AggregatedEarly(bars, table) ==
  [s \in Symbols |-> [w \in Windows |->
     IF \E b \in bars : b.sym = s /\ WindowOf(b.minute) = w /\ b.minute % Width = 0
     THEN BarsFetched(table, s, w) ELSE windows[s][w]]]

\* Each bar that ends a window has the window aggregated from what is stored.
Aggregated(bars, table) ==
  [s \in Symbols |-> [w \in Windows |->
     IF \E b \in bars : b.sym = s /\ WindowOf(b.minute) = w /\ IsWindowComplete(b.minute)
     THEN BarsFetched(table, s, w) ELSE windows[s][w]]]

WriteBatch ==
  /\ stored' = Upserted(ToSet(batch))
  /\ windows' = Aggregated(ToSet(batch), Upserted(ToSet(batch)))
  /\ batch' = <<>>

\* Mutant: the interval is ignored.
FlushWhenFull ==
  /\ stream # "stopped"
  /\ Len(batch) >= 2
  /\ WriteBatch
  /\ UNCHANGED <<minute, networkVars, due, queue, gaps, faults, gone>>

\* The batch is full or an interval has passed.
Flush ==
  /\ stream # "stopped"
  /\ batch # <<>>
  /\ WriteBatch
  /\ UNCHANGED <<minute, networkVars, due, queue, gaps, faults, gone>>

\* Mutant: the upsert fails after the batch was cleared.
FlushFailsCleared ==
  /\ stream # "stopped"
  /\ batch # <<>>
  /\ Fault
  /\ batch' = <<>>
  /\ UNCHANGED <<minute, networkVars, due, queue, tableVars, gaps, gone>>

\* Mutant: the bars are queued again, and stay in the batch.
FlushFailsRequeued ==
  /\ stream # "stopped"
  /\ batch # <<>>
  /\ Fault
  /\ queue' = queue \o batch
  /\ UNCHANGED <<minute, networkVars, due, batch, tableVars, gaps, gone>>

\* The upsert fails: the batch stays and is written later.
FlushFails ==
  /\ stream # "stopped"
  /\ batch # <<>>
  /\ Fault
  /\ UNCHANGED <<minute, networkVars, due, queue, batch, tableVars, gaps, gone>>

\* The commit fails, or turns into a rollback after a failed aggregation: the
\* batch has been cleared before it.
CommitFails ==
  /\ stream # "stopped"
  /\ batch # <<>>
  /\ Fault
  /\ batch' = <<>>
  /\ gone' = gone \cup Keys(ToSet(batch))
  /\ UNCHANGED <<minute, networkVars, due, queue, tableVars, gaps>>

-----------------------------------------------------------------------------
(* Shutdown, crash and start *)

\* What a stop of the process loses besides the batch: bars to be received or
\* queued, minutes of an outage, and gaps.
Abandoned ==
  Keys(due) \cup Keys(ToSet(queue))
  \cup (Symbols \X {m \in Minutes : stream = "lost" /\ lostAt < m /\ m < minute})
  \cup (Symbols \X UNION {Filled(g) : g \in gaps})

Leave ==
  /\ stream' = "stopped"
  /\ due' = {}
  /\ queue' = <<>>
  /\ gaps' = {}
  /\ UNCHANGED <<minute, joins, lostAt, outages>>

\* A shutdown closes the stream and writes the batch; the queue is dropped.
Stop ==
  /\ stream # "stopped"
  /\ Fault
  /\ Leave
  /\ WriteBatch
  /\ gone' = gone \cup Abandoned

Crash ==
  /\ stream # "stopped"
  /\ Fault
  /\ Leave
  /\ batch' = <<>>
  /\ gone' = gone \cup Abandoned \cup Keys(ToSet(batch))
  /\ UNCHANGED tableVars

\* The initial backfill is skipped: the latest bar is less than two days old.
\* A stream that cannot be opened is not tried again.
Start ==
  /\ stream = "stopped"
  /\ stream' \in {"up", "failed"}
  /\ joins' = joins \cup {minute}
  /\ UNCHANGED <<minute, lostAt, due, queue, batch, tableVars, gaps, outages, faults, gone>>

Next ==
  \/ Tick \/ Disconnect \/ Reconnect
  \/ \E message \in SUBSET due : \E b \in message : Receive(message, b)
  \/ \E g \in gaps : Backfill(g) \/ BackfillFails(g)
  \/ Take \/ Flush \/ FlushFails \/ CommitFails
  \/ Stop \/ Crash \/ Start

Spec == Init /\ [][Next]_vars

\* The processor's loop keeps running: it takes what is queued and flushes
\* what has been in its batch for an interval.
FairSpec == Spec /\ WF_vars(Take) /\ WF_vars(Flush)

-----------------------------------------------------------------------------
(* Properties *)

\* Minutes the end of the outage or a backfill will still bring.
Expected ==
  {m \in Minutes : stream = "lost" /\ lostAt < m /\ m < minute}
  \cup UNION {Filled(g) : g \in gaps}

OnTheWay(s, m) ==
  \/ <<s, m>> \in Keys(due \cup ToSet(queue) \cup ToSet(batch))
  \/ m \in Expected

\* A bar of a past minute is stored or on its way, unless one of the named
\* losses took it: the minute of a disconnect, a shared message, a full queue,
\* a failed commit, a failed backfill, a restart.  A failed upsert loses
\* nothing, and a reconnect loses no minute after the first.
NoUnknownLoss ==
  \A s \in Symbols, m \in Minutes :
    m < minute => stored[s][m] # "none" \/ OnTheWay(s, m) \/ <<s, m>> \in gone

\* Bars wait in order, and none is there twice: an upsert with two bars of one
\* minute would be refused on every retry, and all later bars with it.
BarsInOrder ==
  LET line == batch \o queue IN
  \A i, j \in 1..Len(line) :
    (i < j /\ line[i].sym = line[j].sym) => line[i].minute < line[j].minute

\* An aggregated bar contains the last minute of its window and at most a
\* window's worth of minutes, none before the window.
WindowsClosed ==
  \A s \in Symbols, w \in Windows :
    windows[s][w] # {} =>
      /\ Width * w + Width - 1 \in windows[s][w]
      /\ Cardinality(windows[s][w]) <= Width
      /\ \A m \in windows[s][w] : Width * w <= m /\ stored[s][m] # "none"

\* A row that misses ticks belongs to a minute in which the stream was opened.
\* The minutes in between are complete, whether streamed or backfilled.
OnlyJoinsArePartial ==
  \A s \in Symbols, m \in Minutes : stored[s][m] = "part" => m \in joins

\* The processor writes every bar that was queued, unless the process stops or
\* a commit fails.
QueuedIsWritten ==
  \A s \in Symbols, m \in Minutes :
    (<<s, m>> \in Keys(ToSet(queue))) ~> (stored[s][m] # "none" \/ <<s, m>> \in gone)

\* "Fetch all 1m bars within the window", which the inclusive end of the query
\* breaks: an aggregated bar is computed from minutes of its window only.
WithinWindow ==
  \A s \in Symbols, w \in Windows : \A m \in windows[s][w] : WindowOf(m) = w

=============================================================================
