---------------------------- MODULE EventEmitter ----------------------------
(***************************************************************************)
(* The queue between the modules that emit events and the task that writes *)
(* them in batches.  All run on one event loop: what stands between two    *)
(* awaits is one step.  Below warning an event is dropped when the queue   *)
(* is full, from warning on its emitter waits a second for room.  stop     *)
(* writes what is queued, then cancels the writer.                         *)
(***************************************************************************)
EXTENDS Integers, Sequences, SequencesExt

CONSTANTS Producers, QueueMax, BatchSize,
          MaxEvents,   \* bound: events emitted
          MaxFailures  \* bound: writes the database refuses

VARIABLES queue,
          waiting,    \* by producer, the event it waits to enqueue, as a sequence
          batch,      \* events the writer holds
          writer,     \* getting (in wait_for), writing, done
          flushed,    \* events stop holds
          stopper,    \* running, flushing, cancelling, stopped
          written,    \* rows of audit_events, in the order they were committed
          lost,       \* history: <<event, cause>>
          emitted,    \* events so far; an event is [id, severity]
          failures

evars == <<queue, waiting, batch, writer, flushed, stopper, written, lost, emitted, failures>>

Severities == {"info", "warning"}

Event  == [id : Nat, severity : Severities]
Causes == {"dropped", "timeout", "failed", "cancelled"}

ETypeOK ==
  /\ queue \in Seq(Event) /\ batch \in Seq(Event) /\ flushed \in Seq(Event) /\ written \in Seq(Event)
  /\ waiting \in [Producers -> Seq(Event)] /\ lost \in SUBSET (Event \X Causes)
  /\ writer \in {"getting", "writing", "done"}
  /\ stopper \in {"running", "flushing", "cancelling", "stopped"}
  /\ emitted \in Nat /\ failures \in Nat

Taken(n, s) == SubSeq(s, 1, IF n < Len(s) THEN n ELSE Len(s))
Left(n, s)  == SubSeq(s, n + 1, Len(s))

LostTo(cause, events) == lost \cup {<<e, cause>> : e \in ToSet(events)}

EInit ==
  /\ queue = <<>> /\ waiting = [p \in Producers |-> <<>>]
  /\ batch = <<>> /\ writer = "getting" /\ flushed = <<>> /\ stopper = "running"
  /\ written = <<>> /\ lost = {} /\ emitted = 0 /\ failures = 0

-----------------------------------------------------------------------------
(* emit *)

Droppable(severity) == severity = "info"

\* The emitter is forgotten by its module once it is stopped.
Emit(p, severity) ==
  /\ stopper # "stopped" /\ waiting[p] = <<>> /\ emitted < MaxEvents
  /\ emitted' = emitted + 1
  /\ LET e == [id |-> emitted + 1, severity |-> severity]
     IN \/ /\ Len(queue) < QueueMax
           /\ queue' = Append(queue, e) /\ UNCHANGED <<waiting, lost>>
        \/ /\ Len(queue) = QueueMax /\ Droppable(severity)
           /\ lost' = LostTo("dropped", <<e>>) /\ UNCHANGED <<queue, waiting>>
        \/ /\ Len(queue) = QueueMax /\ ~Droppable(severity)
           /\ waiting' = [waiting EXCEPT ![p] = <<e>>] /\ UNCHANGED <<queue, lost>>
  /\ UNCHANGED <<batch, writer, flushed, stopper, written, failures>>

\* Room may be taken by an emitter that came later.
Enqueue(p) ==
  /\ waiting[p] # <<>> /\ Len(queue) < QueueMax
  /\ queue' = queue \o waiting[p] /\ waiting' = [waiting EXCEPT ![p] = <<>>]
  /\ UNCHANGED <<batch, writer, flushed, stopper, written, lost, emitted, failures>>

GiveUp(p) ==
  /\ waiting[p] # <<>>
  /\ lost' = LostTo("timeout", waiting[p]) /\ waiting' = [waiting EXCEPT ![p] = <<>>]
  /\ UNCHANGED <<queue, batch, writer, flushed, stopper, written, emitted, failures>>

-----------------------------------------------------------------------------
(* The batch writer *)

\* Mutant: only a full batch is taken.
TakeFull ==
  /\ writer = "getting" /\ Len(queue) >= BatchSize
  /\ batch' = Taken(BatchSize, queue) /\ queue' = Left(BatchSize, queue)
  /\ writer' = "writing"
  /\ UNCHANGED <<waiting, flushed, stopper, written, lost, emitted, failures>>

\* The first event is waited for, the others are taken as far as there are any.
Take ==
  /\ writer = "getting" /\ queue # <<>>
  /\ batch' = Taken(BatchSize, queue) /\ queue' = Left(BatchSize, queue)
  /\ writer' = "writing"
  /\ UNCHANGED <<waiting, flushed, stopper, written, lost, emitted, failures>>

\* The loop asks whether it is still running before it waits again.
Again == IF stopper = "running" THEN "getting" ELSE "done"

\* Mutant: the batch is not emptied.
WriteAgain(ok) ==
  /\ writer = "writing"
  /\ IF ok THEN written' = written \o batch /\ UNCHANGED <<lost, failures>>
           ELSE /\ failures < MaxFailures /\ failures' = failures + 1
                /\ lost' = LostTo("failed", batch) /\ UNCHANGED written
  /\ UNCHANGED batch /\ writer' = Again
  /\ UNCHANGED <<queue, waiting, flushed, stopper, emitted>>

\* A batch that cannot be written is gone.
Write(ok) ==
  /\ writer = "writing"
  /\ IF ok THEN written' = written \o batch /\ UNCHANGED <<lost, failures>>
           ELSE /\ failures < MaxFailures /\ failures' = failures + 1
                /\ lost' = LostTo("failed", batch) /\ UNCHANGED written
  /\ batch' = <<>> /\ writer' = Again
  /\ UNCHANGED <<queue, waiting, flushed, stopper, emitted>>

\* The wait for the first event ends.
Interval ==
  /\ writer = "getting" /\ stopper # "running" /\ queue = <<>>
  /\ writer' = "done"
  /\ UNCHANGED <<queue, waiting, batch, flushed, stopper, written, lost, emitted, failures>>

-----------------------------------------------------------------------------
(* stop *)

Stop ==
  /\ stopper = "running"
  /\ flushed' = queue /\ queue' = <<>>
  /\ stopper' = IF queue = <<>> THEN "cancelling" ELSE "flushing"
  /\ UNCHANGED <<waiting, batch, writer, written, lost, emitted, failures>>

Flush(ok) ==
  /\ stopper = "flushing"
  /\ IF ok THEN written' = written \o flushed /\ UNCHANGED <<lost, failures>>
           ELSE /\ failures < MaxFailures /\ failures' = failures + 1
                /\ lost' = LostTo("failed", flushed) /\ UNCHANGED written
  /\ flushed' = <<>> /\ stopper' = "cancelling"
  /\ UNCHANGED <<queue, waiting, batch, writer, emitted>>

\* The commit of a batch being written may or may not have got through.
Cancel ==
  /\ stopper = "cancelling"
  /\ \/ written' = written \o batch /\ UNCHANGED lost
     \/ batch # <<>> /\ lost' = LostTo("cancelled", batch) /\ UNCHANGED written
  /\ batch' = <<>> /\ writer' = "done" /\ stopper' = "stopped"
  /\ UNCHANGED <<queue, waiting, flushed, emitted, failures>>

-----------------------------------------------------------------------------

Writer == Take \/ Interval \/ \E ok \in BOOLEAN : Write(ok) \/ Flush(ok)

ENext ==
  \/ \E p \in Producers : \/ \E severity \in Severities : Emit(p, severity)
                          \/ Enqueue(p) \/ GiveUp(p)
  \/ Writer \/ Stop \/ Cancel

\* The event loop lets the tasks go on and the database answers.
EFairness == WF_evars(Writer)

ESpec == EInit /\ [][ENext]_evars /\ EFairness

-----------------------------------------------------------------------------
(* Properties *)

Lives == UNION {ToSet(queue) \X {"queued"}, (UNION {ToSet(waiting[p]) : p \in Producers}) \X {"waiting"},
                ToSet(batch) \X {"taken"}, ToSet(flushed) \X {"secured"},
                ToSet(written) \X {"written"}, lost}

Phase == CASE stopper = "running" -> "open" [] stopper = "stopped" -> "closed" [] OTHER -> "closing"

\* Whatever emitters, writer and stop do in between, an event is in one place and
\* follows the lines of the abstract channel: none vanishes, none is written twice,
\* a warning does not pay at once for a full queue, and what was queued when stop
\* was called is written unless the database refuses it.
Channel == INSTANCE LossyChannel WITH Urgent <- [id : Nat, severity : {"warning"}],
                                      at <- Lives, phase <- Phase
ChannelSpec == Channel!Spec

\* An event is at one place and has the number of its emission.
OnePlace == \A l, m \in Lives : l[1] = m[1] => l = m
Numbered == \A l \in Lives : l[1].id \in 1..emitted

\* The inductive invariant of the refinement: no sequence holds an event twice, no
\* two emitters wait with the same one, and only a writer or a stop that is at it
\* holds events.
EmitterInv ==
  /\ OnePlace /\ Numbered
  /\ IsInjective(queue) /\ IsInjective(batch) /\ IsInjective(flushed) /\ IsInjective(written)
  /\ \A p, q \in Producers : Len(waiting[p]) <= 1 /\ (waiting[p] = waiting[q] /\ waiting[p] # <<>> => p = q)
  /\ writer # "writing" => batch = <<>>
  /\ stopper # "flushing" => flushed = <<>>

\* What is queued does not stay in the queue of a running emitter, however few
\* the events are.
QueueDrains == queue # <<>> /\ stopper = "running" ~> queue = <<>> \/ stopper # "running"
=============================================================================
