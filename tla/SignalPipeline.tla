--------------------------- MODULE SignalPipeline ---------------------------
(***************************************************************************)
(* The life of a trading signal, from creation to execution, as the        *)
(* database sees it.  Three asyncio loops and the HTTP handlers work on    *)
(* the same rows of `signals`, `risk_decisions` and `paper_orders`:        *)
(*                                                                         *)
(*   - the risk evaluator  (risk/evaluator.py, risk/service.py)            *)
(*   - the order consumer  (paper_trading/consumer.py, service.py)         *)
(*   - the expiry checker  (signals/expiry.py)                             *)
(*   - requests: cancel a signal, pause or enable a strategy.              *)
(*                                                                         *)
(* Each loop opens one database session per cycle, loads its batch once,   *)
(* and commits once.  SQLAlchemy's identity map keeps the status a session *)
(* loaded: a later SELECT of the same row does not refresh it, so every    *)
(* check of `signal.status` in that session reads the loaded value while   *)
(* the UPDATE (WHERE id = ...) overwrites whatever is committed by then.   *)
(* A flushed but uncommitted row is locked against other writers.          *)
(***************************************************************************)
EXTENDS Naturals, FiniteSets

CONSTANTS
  Signals,        \* ids in creation order: the FIFO order of both loops
  Strategies,
  StrategyOf,     \* the strategy each signal belongs to
  Gated,          \* signals the strategy_enable check applies to
  Exits,          \* signals of type exit or scale_out (risk fast path)
  BrokerRouted,   \* signals whose executor posts the order to a real broker
  MalformedReply, \* may the broker accept an order with an unreadable body?
  MaxFaults       \* bound on transient failures (database error, crash, ...)

ASSUME SignalsAssumption ==
  /\ Signals \subseteq Nat
  /\ StrategyOf \in [Signals -> Strategies]
  /\ Gated \subseteq Signals
  /\ Exits \subseteq Signals
  /\ Gated \cap Exits = {}
  /\ BrokerRouted \subseteq Signals
  /\ MalformedReply \in BOOLEAN
  /\ MaxFaults \in Nat

VARIABLES
  status,       \* committed signals.status, "absent" before creation
  decision,     \* committed risk_decisions.status, one row per signal
  order,        \* committed paper_orders.status, one row per signal
  placed,       \* number of orders the broker holds for the signal
  overdue,      \* signals whose expires_at has passed
  strategyStatus, \* strategies.status
  evOpen,       \* a risk evaluation cycle is running
  evBatch,      \* its loaded signals, not yet evaluated
  evWrote,      \* decisions it has flushed, not yet committed
  ocOpen,       \* an order consumer cycle is running
  ocBatch,      \* its loaded signals, not yet processed
  ocWrote,      \* orders it has flushed, not yet committed
  ocDead,       \* a flush failed: the session only raises until rolled back
  cancelRead,   \* signals a cancel request has read as pending
  faults        \* transient failures so far

evaluatorVars == <<evOpen, evBatch, evWrote>>
consumerVars  == <<ocOpen, ocBatch, ocWrote, ocDead>>
rows          == <<status, decision, order>>
vars == <<status, decision, order, placed, overdue, strategyStatus, evOpen,
          evBatch, evWrote, ocOpen, ocBatch, ocWrote, ocDead, cancelRead,
          faults>>

Approvals == {"approved", "modified"}
Decisions == Approvals \cup {"rejected"}
Orders    == {"pending", "filled", "rejected"}
Statuses  == {"absent", "pending", "risk_approved", "risk_modified",
              "risk_rejected", "expired", "canceled", "order_filled",
              "order_rejected"}
Executable == {"risk_approved", "risk_modified"}

\* The placed counter saturates one above the largest count of interest.
MaxPlaced == MaxFaults + 2

TypeOK ==
  /\ status \in [Signals -> Statuses]
  /\ decision \in [Signals -> Decisions \cup {"none"}]
  /\ order \in [Signals -> Orders \cup {"none"}]
  /\ placed \in [Signals -> 0..MaxPlaced]
  /\ overdue \subseteq Signals
  /\ strategyStatus \in [Strategies -> {"enabled", "paused", "disabled"}]
  /\ evOpen \in BOOLEAN
  /\ evBatch \subseteq Signals
  /\ evWrote \in [Signals -> Decisions \cup {"none"}]
  /\ ocOpen \in BOOLEAN
  /\ ocBatch \subseteq Signals
  /\ ocWrote \in [Signals -> Orders \cup {"none"}]
  /\ ocDead \in BOOLEAN
  /\ cancelRead \subseteq Signals
  /\ faults \in 0..MaxFaults

Init ==
  /\ status = [s \in Signals |-> "absent"]
  /\ decision = [s \in Signals |-> "none"]
  /\ order = [s \in Signals |-> "none"]
  /\ placed = [s \in Signals |-> 0]
  /\ overdue = {}
  /\ strategyStatus = [g \in Strategies |-> "enabled"]
  /\ evOpen = FALSE
  /\ evBatch = {}
  /\ evWrote = [s \in Signals |-> "none"]
  /\ ocOpen = FALSE
  /\ ocBatch = {}
  /\ ocWrote = [s \in Signals |-> "none"]
  /\ ocDead = FALSE
  /\ cancelRead = {}
  /\ faults = 0

-----------------------------------------------------------------------------
(* Helpers *)

\* Both loops walk their batch ORDER BY created_at ASC.
Oldest(s, batch) == s \in batch /\ \A t \in batch : s <= t

\* The signal status that goes with a risk decision.
DecidedStatus(d) ==
  CASE d = "approved" -> "risk_approved"
    [] d = "modified" -> "risk_modified"
    [] d = "rejected" -> "risk_rejected"

\* The signal status that goes with a finished order.
OrderedStatus(o) == IF o = "filled" THEN "order_filled" ELSE "order_rejected"

\* Rows of `signals` updated by an open transaction.  An order left pending
\* by an exception was inserted without touching its signal.
Locked == {s \in Signals : evWrote[s] # "none" \/ ocWrote[s] \in {"filled", "rejected"}}

PendingSignals == {s \in Signals : status[s] = "pending"}
PendingOf(g) == {s \in PendingSignals : StrategyOf[s] = g}

\* Mutant: the consumer also loads signals that are not decided yet.
ApprovedSignalsUndecided ==
  {s \in Signals : status[s] \in Executable \cup {"pending"}}

\* Mutant: the consumer forgets the modified signals.
ApprovedSignalsUnmodified == {s \in Signals : status[s] = "risk_approved"}

ApprovedSignals == {s \in Signals : status[s] \in Executable}

Fault == faults < MaxFaults /\ faults' = faults + 1

-----------------------------------------------------------------------------
(* Signal creation, expiry and cancellation *)

\* A validated, non-duplicate signal is stored as pending.
CreateSignal(s) ==
  /\ status[s] = "absent"
  /\ \A t \in Signals : t < s => status[t] # "absent"
  /\ status' = [status EXCEPT ![s] = "pending"]
  /\ UNCHANGED <<decision, order, placed, overdue, strategyStatus, evaluatorVars,
                 consumerVars, cancelRead, faults>>

\* The clock passes the signal's expires_at.
Lapse(s) ==
  /\ status[s] # "absent"
  /\ s \notin overdue
  /\ overdue' = overdue \cup {s}
  /\ UNCHANGED <<rows, placed, strategyStatus, evaluatorVars, consumerVars,
                 cancelRead, faults>>

\* Mutant: the UPDATE has no condition on the status.
ExpireStaleAny ==
  LET stale == {s \in overdue : status[s] # "expired"} IN
  /\ stale # {}
  /\ stale \cap Locked = {}
  /\ status' = [s \in Signals |-> IF s \in stale THEN "expired" ELSE status[s]]
  /\ UNCHANGED <<decision, order, placed, overdue, strategyStatus, evaluatorVars,
                 consumerVars, cancelRead, faults>>

\* One bulk UPDATE ... WHERE status = 'pending' AND expires_at < now: it
\* waits for locked rows and re-reads the status of those it waited for.
ExpireStale ==
  LET stale == {s \in overdue : status[s] = "pending"} IN
  /\ stale # {}
  /\ stale \cap Locked = {}
  /\ status' = [s \in Signals |-> IF s \in stale THEN "expired" ELSE status[s]]
  /\ UNCHANGED <<decision, order, placed, overdue, strategyStatus, evaluatorVars,
                 consumerVars, cancelRead, faults>>

\* The cancel request loads the signal and checks status = 'pending' ...
CancelCheck(s) ==
  /\ status[s] = "pending"
  /\ s \notin cancelRead
  /\ cancelRead' = cancelRead \cup {s}
  /\ UNCHANGED <<rows, placed, overdue, strategyStatus, evaluatorVars,
                 consumerVars, faults>>

\* ... then writes 'canceled' by primary key, whatever the row holds by then.
CancelWrite(s) ==
  /\ s \in cancelRead
  /\ s \notin Locked
  /\ status' = [status EXCEPT ![s] = "canceled"]
  /\ cancelRead' = cancelRead \ {s}
  /\ UNCHANGED <<decision, order, placed, overdue, strategyStatus, evaluatorVars,
                 consumerVars, faults>>

\* strategies/service.py's table of the changes of status a request may make.
StrategyTransitions(old) ==
  CASE old = "enabled"  -> {"paused", "disabled"}
    [] old = "paused"   -> {"enabled", "disabled"}
    [] old = "disabled" -> {"enabled"}

\* Mutant: pausing cancels the strategy's signals whatever their status.
PauseStrategyAll(g, new) ==
  LET mine == {s \in Signals : StrategyOf[s] = g /\ status[s] # "absent"} IN
  /\ new \in StrategyTransitions(strategyStatus[g])
  /\ mine \cap Locked = {}
  /\ strategyStatus' = [strategyStatus EXCEPT ![g] = new]
  /\ status' = [s \in Signals |-> IF s \in mine THEN "canceled" ELSE status[s]]
  /\ UNCHANGED <<decision, order, placed, overdue, evaluatorVars, consumerVars,
                 cancelRead, faults>>

\* Pausing or disabling a strategy cancels its pending signals in the same
\* transaction, by a bulk UPDATE with the status in its WHERE clause.
PauseStrategy(g, new) ==
  /\ new \in StrategyTransitions(strategyStatus[g])
  /\ PendingOf(g) \cap Locked = {}
  /\ strategyStatus' = [strategyStatus EXCEPT ![g] = new]
  /\ status' = [s \in Signals |-> IF s \in PendingOf(g) THEN "canceled" ELSE status[s]]
  /\ UNCHANGED <<decision, order, placed, overdue, evaluatorVars, consumerVars,
                 cancelRead, faults>>

\* The runner's automatic pause after repeated errors leaves signals alone.
\* The runner writes the row it loaded as enabled, so a request that disabled
\* the strategy during the runner's cycle is overwritten.
AutoPause(g) ==
  /\ strategyStatus[g] # "paused"
  /\ strategyStatus' = [strategyStatus EXCEPT ![g] = "paused"]
  /\ UNCHANGED <<rows, placed, overdue, evaluatorVars, consumerVars,
                 cancelRead, faults>>

EnableStrategy(g) ==
  /\ "enabled" \in StrategyTransitions(strategyStatus[g])
  /\ strategyStatus' = [strategyStatus EXCEPT ![g] = "enabled"]
  /\ UNCHANGED <<rows, placed, overdue, evaluatorVars, consumerVars,
                 cancelRead, faults>>

-----------------------------------------------------------------------------
(* Risk evaluator: one session per cycle *)

\* Load every pending signal.  A cycle with nothing to do changes nothing.
EvaluatorBegin ==
  /\ ~evOpen
  /\ PendingSignals # {}
  /\ evBatch' = PendingSignals
  /\ evOpen' = TRUE
  /\ UNCHANGED <<rows, placed, overdue, strategyStatus, evWrote, consumerVars,
                 cancelRead, faults>>

\* The outcomes open to a signal: exits are never rejected, a strategy signal
\* is rejected while its strategy is not enabled, and the other checks may
\* pass, modify or reject an entry.
Outcomes(s) ==
  IF s \in Exits THEN Approvals
  ELSE IF s \in Gated /\ strategyStatus[StrategyOf[s]] # "enabled" THEN {"rejected"}
  ELSE Decisions

\* Evaluate the next signal: insert its decision (UNIQUE per signal) and
\* update its status.  The transition check reads the status this session
\* loaded, which was 'pending'.
EvaluateSignal(s) ==
  /\ evOpen
  /\ Oldest(s, evBatch)
  /\ s \notin Locked
  /\ decision[s] = "none"
  /\ evBatch' = evBatch \ {s}
  /\ \E d \in Outcomes(s) : evWrote' = [evWrote EXCEPT ![s] = d]
  /\ UNCHANGED <<rows, placed, overdue, strategyStatus, evOpen, consumerVars,
                 cancelRead, faults>>

\* An exception while evaluating one signal is logged and the loop goes on.
EvaluateError(s) ==
  /\ evOpen
  /\ Oldest(s, evBatch)
  /\ evBatch' = evBatch \ {s}
  /\ Fault
  /\ UNCHANGED <<rows, placed, overdue, strategyStatus, evOpen, evWrote,
                 consumerVars, cancelRead>>

\* Mutant: the cycle ends without commit or rollback; its locks stay.
EvaluatorCommitForgotten ==
  /\ evOpen
  /\ evBatch = {}
  /\ evOpen' = FALSE
  /\ UNCHANGED <<rows, placed, overdue, strategyStatus, evBatch, evWrote,
                 consumerVars, cancelRead, faults>>

EvaluatorCommit ==
  /\ evOpen
  /\ evBatch = {}
  /\ decision' = [s \in Signals |->
                    IF evWrote[s] # "none" THEN evWrote[s] ELSE decision[s]]
  /\ status' = [s \in Signals |->
                  IF evWrote[s] # "none" THEN DecidedStatus(evWrote[s]) ELSE status[s]]
  /\ evWrote' = [s \in Signals |-> "none"]
  /\ evOpen' = FALSE
  /\ UNCHANGED <<order, placed, overdue, strategyStatus, evBatch, consumerVars,
                 cancelRead, faults>>

\* A failed flush or commit, or a deadlock broken by the database: rollback.
EvaluatorRollback ==
  /\ evOpen
  /\ Fault
  /\ evOpen' = FALSE
  /\ evBatch' = {}
  /\ evWrote' = [s \in Signals |-> "none"]
  /\ UNCHANGED <<rows, placed, overdue, strategyStatus, consumerVars, cancelRead>>

-----------------------------------------------------------------------------
(* Order consumer: one session per cycle *)

ConsumerBegin ==
  /\ ~ocOpen
  /\ ApprovedSignals # {}
  /\ ocBatch' = ApprovedSignals
  /\ ocOpen' = TRUE
  /\ UNCHANGED <<rows, placed, overdue, strategyStatus, evaluatorVars, ocWrote,
                 ocDead, cancelRead, faults>>

\* Mutant: no UNIQUE constraint on paper_orders.signal_id.
ConsumeAgain(s, o) ==
  /\ ocOpen
  /\ ~ocDead
  /\ Oldest(s, ocBatch)
  /\ ocBatch' = ocBatch \ {s}
  /\ ocWrote' = [ocWrote EXCEPT ![s] = o]
  /\ UNCHANGED <<rows, overdue, strategyStatus, evaluatorVars, ocOpen, ocDead,
                 cancelRead>>

\* The next signal of a healthy session, with the given order row flushed.
Consume(s, o) ==
  /\ ocOpen
  /\ ~ocDead
  /\ Oldest(s, ocBatch)
  /\ order[s] = "none"
  /\ ocBatch' = ocBatch \ {s}
  /\ ocWrote' = [ocWrote EXCEPT ![s] = o]
  /\ UNCHANGED <<rows, overdue, strategyStatus, evaluatorVars, ocOpen, ocDead,
                 cancelRead>>

\* Mutant: the order is posted again after a slow answer.
PlaceTwice(s) ==
  placed' = [placed EXCEPT ![s] = IF @ + 1 < MaxPlaced THEN @ + 2 ELSE MaxPlaced]

\* The broker accepted an order: not undone by any rollback.
Place(s) ==
  placed' = [placed EXCEPT ![s] = IF @ < MaxPlaced THEN @ + 1 ELSE @]

\* Posting is only possible when the executor is a broker's.
MayPlace(s) == UNCHANGED placed \/ (s \in BrokerRouted /\ Place(s))

\* The order is filled, by the broker or by the simulator.
FillOrder(s) ==
  /\ s \notin Locked
  /\ Consume(s, "filled")
  /\ MayPlace(s)
  /\ UNCHANGED faults

\* No price, no quantity, no cash, no account, submission refused, or a fill
\* simulation that failed after the submission.
RejectOrder(s) ==
  /\ s \notin Locked
  /\ Consume(s, "rejected")
  /\ MayPlace(s)
  /\ UNCHANGED faults

\* The broker answers 200 with a body that does not parse: the exception
\* leaves process_signal after the order row was flushed as 'pending' and
\* before the signal was updated.  The loop logs it and goes on.
SubmitRaises(s) ==
  /\ MalformedReply
  /\ s \in BrokerRouted
  /\ Consume(s, "pending")
  /\ Place(s)
  /\ Fault

\* An exception before the order row is created.
ProcessError(s) ==
  /\ ocOpen
  /\ ~ocDead
  /\ Oldest(s, ocBatch)
  /\ ocBatch' = ocBatch \ {s}
  /\ Fault
  /\ UNCHANGED <<rows, placed, overdue, strategyStatus, evaluatorVars, ocOpen,
                 ocWrote, ocDead, cancelRead>>

\* A database error while processing: whatever the broker accepted stays.
ProcessDbError(s) ==
  /\ ocOpen
  /\ ~ocDead
  /\ Oldest(s, ocBatch)
  /\ ocDead' = TRUE
  /\ MayPlace(s)
  /\ Fault
  /\ UNCHANGED <<rows, overdue, strategyStatus, evaluatorVars, ocOpen, ocBatch,
                 ocWrote, cancelRead>>

\* paper_orders.signal_id is UNIQUE: a second order row for the signal fails
\* in the flush, before anything is submitted.
OrderConflict(s) ==
  /\ ocOpen
  /\ ~ocDead
  /\ Oldest(s, ocBatch)
  /\ order[s] # "none"
  /\ ocDead' = TRUE
  /\ UNCHANGED <<rows, placed, overdue, strategyStatus, evaluatorVars, ocOpen,
                 ocBatch, ocWrote, cancelRead, faults>>

\* Mutant: every finished order marks its signal as filled.
ConsumerCommitFilled ==
  /\ ocOpen
  /\ ~ocDead
  /\ ocBatch = {}
  /\ order' = [s \in Signals |-> IF ocWrote[s] # "none" THEN ocWrote[s] ELSE order[s]]
  /\ status' = [s \in Signals |->
                  IF ocWrote[s] \in {"filled", "rejected"} THEN "order_filled"
                  ELSE status[s]]
  /\ ocWrote' = [s \in Signals |-> "none"]
  /\ ocOpen' = FALSE
  /\ UNCHANGED <<decision, placed, overdue, strategyStatus, evaluatorVars, ocBatch,
                 ocDead, cancelRead, faults>>

ConsumerCommit ==
  /\ ocOpen
  /\ ~ocDead
  /\ ocBatch = {}
  /\ order' = [s \in Signals |-> IF ocWrote[s] # "none" THEN ocWrote[s] ELSE order[s]]
  /\ status' = [s \in Signals |->
                  IF ocWrote[s] \in {"filled", "rejected"}
                  THEN OrderedStatus(ocWrote[s]) ELSE status[s]]
  /\ ocWrote' = [s \in Signals |-> "none"]
  /\ ocOpen' = FALSE
  /\ UNCHANGED <<decision, placed, overdue, strategyStatus, evaluatorVars, ocBatch,
                 ocDead, cancelRead, faults>>

\* The commit itself fails.
CommitError ==
  /\ ocOpen
  /\ ~ocDead
  /\ ocBatch = {}
  /\ ocDead' = TRUE
  /\ Fault
  /\ UNCHANGED <<rows, placed, overdue, strategyStatus, evaluatorVars, ocOpen,
                 ocBatch, ocWrote, cancelRead>>

\* The commit of a session whose flush failed raises; closing it rolls back.
ConsumerRollback ==
  /\ ocOpen
  /\ ocDead
  /\ ocOpen' = FALSE
  /\ ocBatch' = {}
  /\ ocWrote' = [s \in Signals |-> "none"]
  /\ ocDead' = FALSE
  /\ UNCHANGED <<rows, placed, overdue, strategyStatus, evaluatorVars, cancelRead, faults>>

\* The process stops: every open transaction and request is lost.
Crash ==
  /\ evOpen \/ ocOpen \/ cancelRead # {}
  /\ Fault
  /\ evOpen' = FALSE
  /\ evBatch' = {}
  /\ evWrote' = [s \in Signals |-> "none"]
  /\ ocOpen' = FALSE
  /\ ocBatch' = {}
  /\ ocWrote' = [s \in Signals |-> "none"]
  /\ ocDead' = FALSE
  /\ cancelRead' = {}
  /\ UNCHANGED <<rows, placed, overdue, strategyStatus>>

-----------------------------------------------------------------------------
(* Specification *)

EvaluatorStep ==
  \/ EvaluatorBegin
  \/ \E s \in Signals : EvaluateSignal(s) \/ EvaluateError(s)
  \/ EvaluatorCommit
  \/ EvaluatorRollback

ConsumerStep ==
  \/ ConsumerBegin
  \/ \E s \in Signals :
       \/ FillOrder(s)
       \/ RejectOrder(s)
       \/ SubmitRaises(s)
       \/ ProcessError(s)
       \/ ProcessDbError(s)
       \/ OrderConflict(s)
  \/ ConsumerCommit
  \/ CommitError
  \/ ConsumerRollback

RequestStep ==
  \/ \E s \in Signals : CreateSignal(s) \/ CancelCheck(s) \/ CancelWrite(s)
  \/ \E g \in Strategies :
       \/ \E new \in {"paused", "disabled"} : PauseStrategy(g, new)
       \/ AutoPause(g)
       \/ EnableStrategy(g)

Next ==
  \/ EvaluatorStep
  \/ ConsumerStep
  \/ RequestStep
  \/ ExpireStale
  \/ \E s \in Signals : Lapse(s)
  \/ Crash

Spec == Init /\ [][Next]_vars

(***************************************************************************)
(* Fairness: each loop is an asyncio task that sleeps and runs again, so   *)
(* it never stops while it has work; time passes; an UPDATE waiting for a  *)
(* row lock is queued by the database and gets it in the end (SF).         *)
(* Requests, failures and crashes are never required to happen.            *)
(***************************************************************************)
FairSpec ==
  /\ Spec
  /\ WF_vars(EvaluatorStep)
  /\ WF_vars(ConsumerStep)
  /\ \A s \in Signals : WF_vars(Lapse(s))
  /\ SF_vars(ExpireStale)

-----------------------------------------------------------------------------
(* Properties *)

\* signals/service.py's table of the transitions update_signal_status allows.
ValidTransitions(old) ==
  CASE old = "pending"     -> {"risk_approved", "risk_rejected", "risk_modified",
                               "expired", "canceled"}
    [] old \in Executable  -> {"order_filled", "order_rejected"}
    [] OTHER               -> {}

\* Nothing is executed without an approval: an order row, flushed or
\* committed, and an order held by the broker all belong to a signal whose
\* approving risk decision is committed, although the consumer commits and
\* submits in another session than the one that decided.
ExecutedOnlyIfApproved ==
  \A s \in Signals :
    (order[s] # "none" \/ ocWrote[s] # "none" \/ placed[s] > 0)
      => decision[s] \in Approvals

\* A rejection by the risk engine stands: whatever the stale writers do, the
\* signal never shows a status the order consumer would pick up.
RejectionStands ==
  \A s \in Signals :
    decision[s] = "rejected" => status[s] \in {"risk_rejected", "canceled"}

\* The status of a signal never claims more than the order table holds, and
\* a finished order is only ever hidden by a stale cancellation.
StatusMatchesOrder ==
  \A s \in Signals :
    /\ status[s] \in {"order_filled", "order_rejected"}
         => order[s] \in {"filled", "rejected"} /\ status[s] = OrderedStatus(order[s])
    /\ order[s] \in {"filled", "rejected"}
         => status[s] \in {OrderedStatus(order[s]), "canceled"}

\* The evaluator never meets the UNIQUE constraint of risk_decisions: a
\* conflict would roll back the decisions of its whole batch.
EvaluatorNeverConflicts ==
  \A s \in Signals :
    (s \in evBatch \/ evWrote[s] # "none")
      => decision[s] = "none" /\ order[s] = "none" /\ placed[s] = 0

\* The two loops never hold or want the same row, so neither can overwrite
\* or deadlock the other.
LoopsTouchDisjointRows ==
  \A s \in Signals :
    ~ /\ s \in evBatch \/ evWrote[s] # "none"
      /\ s \in ocBatch \/ ocWrote[s] # "none"

\* A broker holds more than one order for a signal only as the price of a
\* transient failure that rolled the consumer back after a submission: one
\* failure each, until an unreadable reply leaves an order row pending.  From
\* then on every cycle fails at that row, after the signals before it were
\* submitted again.
DuplicatesCostAFault ==
  (\A s \in Signals : order[s] # "pending")
    => \A s \in Signals : placed[s] <= 1 + faults

\* What holds of every signal after every step.  A signal is decided only
\* after it left 'pending', and everything the consumer touches is approved.
\* Together with the type invariant this is preserved by every step.
SignalInv(s) ==
  /\ status[s] \in {"absent", "pending"} => decision[s] = "none"
  /\ status[s] = "absent" => s \notin cancelRead
  /\ status[s] \in Executable => decision[s] \in Approvals
  /\ status[s] = "risk_rejected" => decision[s] = "rejected"
  /\ s \in evBatch \/ evWrote[s] # "none" => decision[s] = "none" /\ status[s] # "absent"
  /\ s \in ocBatch \/ ocWrote[s] # "none" => decision[s] \in Approvals
  /\ ocWrote[s] # "none" => order[s] = "none"
  /\ order[s] # "none" \/ placed[s] > 0 => decision[s] \in Approvals
  /\ decision[s] = "rejected" => status[s] \in {"risk_rejected", "canceled"}
  /\ status[s] \in {"order_filled", "order_rejected"} =>
       order[s] \in {"filled", "rejected"} /\ status[s] = OrderedStatus(order[s])
  /\ order[s] \in {"filled", "rejected"} =>
       status[s] \in {OrderedStatus(order[s]), "canceled"}
  /\ ~evOpen => s \notin evBatch /\ evWrote[s] = "none"
  /\ ~ocOpen => s \notin ocBatch /\ ocWrote[s] = "none"
  /\ s \in evBatch => evWrote[s] = "none"
  /\ s \in ocBatch => ocWrote[s] = "none"

PipelineInv == TypeOK /\ \A s \in Signals : SignalInv(s)

\* The transition table is broken only by a session that acts on the status
\* it loaded: a cancel request that had read 'pending', or a loop committing
\* over a cancellation or an expiry.  No status ever returns to 'pending'.
OnlyStaleWritesBreakTheTable ==
  [][\A s \in Signals : status'[s] # status[s] =>
       \/ status[s] = "absent" /\ status'[s] = "pending"
       \/ status'[s] \in ValidTransitions(status[s])
       \/ status'[s] = "canceled" /\ s \in cancelRead
       \/ /\ status[s] \in {"expired", "canceled"}
          /\ evWrote[s] # "none" \/ ocWrote[s] # "none"]_status

\* Each signal is decided once and ordered once, in that order, and neither
\* record ever changes: the pipeline implements the execution ledger.
Ledger == INSTANCE ExecutionLedger WITH decision <- decision, order <- order
LedgerSpec == Ledger!Spec

\* No signal stays pending: it is decided, canceled or expired.
PendingResolved ==
  \A s \in Signals : (status[s] = "pending") ~> (status[s] # "pending")

\* "Risk Approved: Risk engine approved.  Paper trading engine will create an
\* order from it."  An approved signal ends with an order row, unless a stale
\* cancellation takes it away from the consumer.
ApprovedGetsOrder ==
  \A s \in Signals :
    (status[s] \in Executable) ~> (order[s] # "none" \/ status[s] = "canceled")

=============================================================================
