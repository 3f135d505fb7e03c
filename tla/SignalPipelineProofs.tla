------------------------ MODULE SignalPipelineProofs ------------------------
(***************************************************************************)
(* Type correctness and the safety of the signal pipeline for every set of *)
(* signals, strategies and every bound on failures, and the refinement of  *)
(* the execution ledger.  The inductive invariant is PipelineInv; what     *)
(* duplicates cost needs DuplicateInv on top of it.                        *)
(***************************************************************************)
EXTENDS SignalPipeline, TLAPS

USE SignalsAssumption DEF Approvals, Decisions, Orders, Statuses, Executable,
                          MaxPlaced

\* The variables of every step and signal keep their types: the statuses,
\* decisions and orders the loops and requests write are the ones the
\* columns of the three tables may hold.
THEOREM TypeCorrect == Spec => []TypeOK
<1>1. Init => TypeOK
  <2> SUFFICES ASSUME Init PROVE TypeOK
    OBVIOUS
  <2>1. strategyStatus \in [Strategies -> {"enabled", "paused", "disabled"}]
    BY Zenon DEF Init
  <2>2. placed \in [Signals -> 0..MaxPlaced] /\ faults \in 0..MaxFaults
    BY DEF Init
  <2>3. /\ status \in [Signals -> Statuses]
        /\ decision \in [Signals -> Decisions \cup {"none"}]
        /\ order \in [Signals -> Orders \cup {"none"}]
        /\ evWrote \in [Signals -> Decisions \cup {"none"}]
        /\ ocWrote \in [Signals -> Orders \cup {"none"}]
    BY DEF Init
  <2>4. /\ overdue \subseteq Signals /\ cancelRead \subseteq Signals
        /\ evBatch \subseteq Signals /\ ocBatch \subseteq Signals
        /\ evOpen \in BOOLEAN /\ ocOpen \in BOOLEAN /\ ocDead \in BOOLEAN
    BY DEF Init
  <2>5. QED
    BY <2>1, <2>2, <2>3, <2>4 DEF TypeOK
<1>2. TypeOK /\ [Next]_vars => TypeOK'
  <2> SUFFICES ASSUME TypeOK, [Next]_vars PROVE TypeOK'
    OBVIOUS
  <2> USE DEF TypeOK
  <2>1. ASSUME NEW x \in Signals, CreateSignal(x) PROVE TypeOK'
    BY <2>1 DEF CreateSignal, evaluatorVars, consumerVars, rows
  <2>2. ASSUME NEW x \in Signals, Lapse(x) PROVE TypeOK'
    BY <2>2 DEF Lapse, evaluatorVars, consumerVars, rows
  <2>3. ASSUME NEW x \in Signals, CancelCheck(x) PROVE TypeOK'
    BY <2>3 DEF CancelCheck, evaluatorVars, consumerVars, rows
  <2>4. ASSUME NEW x \in Signals, CancelWrite(x) PROVE TypeOK'
    BY <2>4 DEF CancelWrite, evaluatorVars, consumerVars, rows
  <2>5. ASSUME NEW x \in Signals, EvaluateSignal(x) PROVE TypeOK'
    BY <2>5 DEF EvaluateSignal, Oldest, Outcomes, evaluatorVars, consumerVars, rows
  <2>6. ASSUME NEW x \in Signals, EvaluateError(x) PROVE TypeOK'
    BY <2>6 DEF EvaluateError, Oldest, Fault, evaluatorVars, consumerVars, rows
  <2>7. ASSUME NEW x \in Signals, FillOrder(x) PROVE TypeOK'
    BY <2>7 DEF FillOrder, Consume, MayPlace, Place, Oldest, evaluatorVars, consumerVars, rows
  <2>8. ASSUME NEW x \in Signals, RejectOrder(x) PROVE TypeOK'
    BY <2>8 DEF RejectOrder, Consume, MayPlace, Place, Oldest, evaluatorVars, consumerVars, rows
  <2>9. ASSUME NEW x \in Signals, SubmitRaises(x) PROVE TypeOK'
    BY <2>9 DEF SubmitRaises, Consume, Place, Fault, Oldest, evaluatorVars, consumerVars, rows
  <2>10. ASSUME NEW x \in Signals, ProcessError(x) PROVE TypeOK'
    BY <2>10 DEF ProcessError, Oldest, Fault, evaluatorVars, consumerVars, rows
  <2>11. ASSUME NEW x \in Signals, ProcessDbError(x) PROVE TypeOK'
    BY <2>11 DEF ProcessDbError, Oldest, Fault, MayPlace, Place, evaluatorVars, consumerVars, rows
  <2>12. ASSUME NEW x \in Signals, OrderConflict(x) PROVE TypeOK'
    BY <2>12 DEF OrderConflict, Oldest, evaluatorVars, consumerVars, rows
  <2>13. ASSUME NEW g \in Strategies, NEW new \in {"paused", "disabled"},
               PauseStrategy(g, new) PROVE TypeOK'
    BY <2>13 DEF PauseStrategy, PendingOf, PendingSignals, evaluatorVars, consumerVars, rows
  <2>14. ASSUME NEW g \in Strategies, AutoPause(g) PROVE TypeOK'
    BY <2>14 DEF AutoPause, evaluatorVars, consumerVars, rows
  <2>15. ASSUME NEW g \in Strategies, EnableStrategy(g) PROVE TypeOK'
    BY <2>15 DEF EnableStrategy, evaluatorVars, consumerVars, rows
  <2>16. CASE ExpireStale
    BY <2>16 DEF ExpireStale, evaluatorVars, consumerVars, rows
  <2>17. CASE EvaluatorBegin
    BY <2>17 DEF EvaluatorBegin, PendingSignals, evaluatorVars, consumerVars, rows
  <2>18. CASE EvaluatorCommit
    BY <2>18 DEF EvaluatorCommit, DecidedStatus, evaluatorVars, consumerVars, rows
  <2>19. CASE EvaluatorRollback
    <3>1. faults' \in 0..MaxFaults
      BY <2>19 DEF EvaluatorRollback, Fault
    <3>2. QED
      BY <3>1, <2>19 DEF EvaluatorRollback, consumerVars, rows
  <2>20. CASE ConsumerBegin
    BY <2>20 DEF ConsumerBegin, ApprovedSignals, evaluatorVars, consumerVars, rows
  <2>21. CASE ConsumerCommit
    BY <2>21 DEF ConsumerCommit, OrderedStatus, evaluatorVars, consumerVars, rows
  <2>22. CASE CommitError
    BY <2>22 DEF CommitError, Fault, evaluatorVars, consumerVars, rows
  <2>23. CASE ConsumerRollback
    BY <2>23 DEF ConsumerRollback, evaluatorVars, consumerVars, rows
  <2>24. CASE Crash
    <3>1. faults' \in 0..MaxFaults
      BY <2>24 DEF Crash, Fault
    <3>2. QED
      BY <3>1, <2>24 DEF Crash, rows
  <2>25. CASE UNCHANGED vars
    BY <2>25 DEF vars
  <2>26. CASE EvaluatorStep
    BY <2>5, <2>6, <2>17, <2>18, <2>19, <2>26 DEF EvaluatorStep
  <2>27. CASE ConsumerStep
    BY <2>7, <2>8, <2>9, <2>10, <2>11, <2>12, <2>20, <2>21, <2>22, <2>23, <2>27 DEF ConsumerStep
  <2>28. CASE RequestStep
    BY <2>1, <2>3, <2>4, <2>13, <2>14, <2>15, <2>28 DEF RequestStep
  <2>29. QED
    BY <2>2, <2>16, <2>24, <2>25, <2>26, <2>27, <2>28 DEF Next
<1>3. QED
  BY <1>1, <1>2, PTL DEF Spec

\* The inductive invariant: every signal satisfies SignalInv after every
\* step of every loop and request, rollbacks and crashes included.
THEOREM PipelineInvariant == Spec => []PipelineInv
<1>1. TypeOK /\ Init => PipelineInv
  BY DEF Init, PipelineInv, SignalInv
<1>2. PipelineInv /\ TypeOK' /\ [Next]_vars => PipelineInv'
  <2> SUFFICES ASSUME TypeOK, TypeOK', [Next]_vars,
                      \A t \in Signals : SignalInv(t),
                      NEW s \in Signals
               PROVE  SignalInv(s)'
    BY DEF PipelineInv
  <2>0. SignalInv(s)
    OBVIOUS
  <2> USE DEF TypeOK, SignalInv, OrderedStatus
  <2>1. ASSUME NEW x \in Signals, CreateSignal(x) PROVE SignalInv(s)'
    BY <2>0, <2>1 DEF CreateSignal, evaluatorVars, consumerVars, rows
  <2>2. ASSUME NEW x \in Signals, Lapse(x) PROVE SignalInv(s)'
    BY <2>0, <2>2 DEF Lapse, evaluatorVars, consumerVars, rows
  <2>3. ASSUME NEW x \in Signals, CancelCheck(x) PROVE SignalInv(s)'
    BY <2>0, <2>3 DEF CancelCheck, evaluatorVars, consumerVars, rows
  <2>4. ASSUME NEW x \in Signals, CancelWrite(x) PROVE SignalInv(s)'
    BY <2>0, <2>4 DEF CancelWrite, evaluatorVars, consumerVars, rows
  <2>5. ASSUME NEW x \in Signals, EvaluateSignal(x) PROVE SignalInv(s)'
    BY <2>0, <2>5 DEF EvaluateSignal, Oldest, Outcomes, evaluatorVars, consumerVars, rows
  <2>6. ASSUME NEW x \in Signals, EvaluateError(x) PROVE SignalInv(s)'
    BY <2>0, <2>6 DEF EvaluateError, Oldest, Fault, evaluatorVars, consumerVars, rows
  <2>7. ASSUME NEW x \in Signals, FillOrder(x) PROVE SignalInv(s)'
    BY <2>0, <2>7 DEF FillOrder, Consume, MayPlace, Place, Oldest, evaluatorVars, consumerVars, rows
  <2>8. ASSUME NEW x \in Signals, RejectOrder(x) PROVE SignalInv(s)'
    BY <2>0, <2>8 DEF RejectOrder, Consume, MayPlace, Place, Oldest, evaluatorVars, consumerVars, rows
  <2>9. ASSUME NEW x \in Signals, SubmitRaises(x) PROVE SignalInv(s)'
    BY <2>0, <2>9 DEF SubmitRaises, Consume, Place, Fault, Oldest, evaluatorVars, consumerVars, rows
  <2>10. ASSUME NEW x \in Signals, ProcessError(x) PROVE SignalInv(s)'
    BY <2>0, <2>10 DEF ProcessError, Oldest, Fault, evaluatorVars, consumerVars, rows
  <2>11. ASSUME NEW x \in Signals, ProcessDbError(x) PROVE SignalInv(s)'
    BY <2>0, <2>11 DEF ProcessDbError, Oldest, Fault, MayPlace, Place, evaluatorVars, consumerVars, rows
  <2>12. ASSUME NEW x \in Signals, OrderConflict(x) PROVE SignalInv(s)'
    BY <2>0, <2>12 DEF OrderConflict, Oldest, evaluatorVars, consumerVars, rows
  <2>13. ASSUME NEW g \in Strategies, NEW new \in {"paused", "disabled"},
               PauseStrategy(g, new) PROVE SignalInv(s)'
    BY <2>0, <2>13 DEF PauseStrategy, PendingOf, PendingSignals, evaluatorVars, consumerVars, rows
  <2>14. ASSUME NEW g \in Strategies, AutoPause(g) PROVE SignalInv(s)'
    BY <2>0, <2>14 DEF AutoPause, evaluatorVars, consumerVars, rows
  <2>15. ASSUME NEW g \in Strategies, EnableStrategy(g) PROVE SignalInv(s)'
    BY <2>0, <2>15 DEF EnableStrategy, evaluatorVars, consumerVars, rows
  <2>16. CASE ExpireStale
    BY <2>0, <2>16 DEF ExpireStale, evaluatorVars, consumerVars, rows
  <2>17. CASE EvaluatorBegin
    BY <2>0, <2>17 DEF EvaluatorBegin, PendingSignals, evaluatorVars, consumerVars, rows
  <2>18. CASE EvaluatorCommit
    BY <2>0, <2>18 DEF EvaluatorCommit, DecidedStatus, evaluatorVars, consumerVars, rows
  <2>19. CASE EvaluatorRollback
    BY <2>0, <2>19 DEF EvaluatorRollback, Fault, evaluatorVars, consumerVars, rows
  <2>20. CASE ConsumerBegin
    BY <2>0, <2>20 DEF ConsumerBegin, ApprovedSignals, evaluatorVars, consumerVars, rows
  <2>21. CASE ConsumerCommit
    BY <2>0, <2>21 DEF ConsumerCommit, evaluatorVars, consumerVars, rows
  <2>22. CASE CommitError
    BY <2>0, <2>22 DEF CommitError, Fault, evaluatorVars, consumerVars, rows
  <2>23. CASE ConsumerRollback
    BY <2>0, <2>23 DEF ConsumerRollback, evaluatorVars, consumerVars, rows
  <2>24. CASE Crash
    BY <2>0, <2>24 DEF Crash, Fault, evaluatorVars, consumerVars, rows
  <2>25. CASE UNCHANGED vars
    BY <2>0, <2>25 DEF vars
  <2>26. CASE EvaluatorStep
    BY <2>5, <2>6, <2>17, <2>18, <2>19, <2>26 DEF EvaluatorStep
  <2>27. CASE ConsumerStep
    BY <2>7, <2>8, <2>9, <2>10, <2>11, <2>12, <2>20, <2>21, <2>22, <2>23, <2>27 DEF ConsumerStep
  <2>28. CASE RequestStep
    BY <2>1, <2>3, <2>4, <2>13, <2>14, <2>15, <2>28 DEF RequestStep
  <2>29. QED
    BY <2>2, <2>16, <2>24, <2>25, <2>26, <2>27, <2>28 DEF Next
<1>3. QED
  BY <1>1, <1>2, TypeCorrect, PTL DEF Spec

-----------------------------------------------------------------------------

\* Whatever the consumer flushed, committed or had a broker accept belongs to
\* a signal with a committed approval.
THEOREM ExecutionNeedsApproval == Spec => []ExecutedOnlyIfApproved
<1>1. PipelineInv => ExecutedOnlyIfApproved
  BY DEF PipelineInv, SignalInv, ExecutedOnlyIfApproved
<1>2. QED
  BY <1>1, PipelineInvariant, PTL

\* A rejected signal never again shows a status the consumer picks up.
THEOREM RejectionIsFinal == Spec => []RejectionStands
<1>1. PipelineInv => RejectionStands
  BY DEF PipelineInv, SignalInv, RejectionStands
<1>2. QED
  BY <1>1, PipelineInvariant, PTL

\* Signal status and order row agree, up to a stale cancellation.
THEOREM StatusAgreesWithOrder == Spec => []StatusMatchesOrder
<1>1. PipelineInv => StatusMatchesOrder
  BY DEF PipelineInv, SignalInv, StatusMatchesOrder
<1>2. QED
  BY <1>1, PipelineInvariant, PTL

\* The evaluator's INSERT never violates the UNIQUE constraint.
THEOREM DecisionInsertIsSafe == Spec => []EvaluatorNeverConflicts
<1>1. PipelineInv => EvaluatorNeverConflicts
  BY DEF PipelineInv, SignalInv, EvaluatorNeverConflicts, TypeOK
<1>2. QED
  BY <1>1, PipelineInvariant, PTL

\* The evaluator and the consumer work on disjoint sets of rows.
THEOREM LoopsAreDisjoint == Spec => []LoopsTouchDisjointRows
<1>1. PipelineInv => LoopsTouchDisjointRows
  BY DEF PipelineInv, SignalInv, LoopsTouchDisjointRows
<1>2. QED
  BY <1>1, PipelineInvariant, PTL

-----------------------------------------------------------------------------

\* Only the two commits write the decision and order tables.
LEMMA RecordsChangeAtCommit ==
  ASSUME [Next]_vars
  PROVE  EvaluatorCommit \/ ConsumerCommit \/ UNCHANGED <<decision, order>>
BY DEF Next, EvaluatorStep, ConsumerStep, RequestStep, vars, CreateSignal, Lapse,
       CancelCheck, CancelWrite, EvaluateSignal, EvaluateError, FillOrder,
       RejectOrder, SubmitRaises, Consume, ProcessError, ProcessDbError,
       OrderConflict, PauseStrategy, AutoPause, EnableStrategy, ExpireStale,
       EvaluatorBegin, EvaluatorRollback, ConsumerBegin, CommitError,
       ConsumerRollback, Crash, rows

\* The pipeline implements the execution ledger: every commit of the risk
\* evaluator is a Decide step, every commit of the order consumer an Execute
\* step, and every other step leaves both tables alone.
THEOREM ImplementsLedger == Spec => LedgerSpec
<1> USE DEF Ledger!Init, Ledger!Next, Ledger!Decide, Ledger!Execute
<1>1. Init => Ledger!Init
  BY DEF Init
<1>2. PipelineInv /\ PipelineInv' /\ [Next]_vars => [Ledger!Next]_<<decision, order>>
  <2> SUFFICES ASSUME PipelineInv, PipelineInv', [Next]_vars
               PROVE  [Ledger!Next]_<<decision, order>>
    OBVIOUS
  <2> USE DEF PipelineInv, SignalInv
  <2>1. CASE EvaluatorCommit
    BY <2>1 DEF EvaluatorCommit, TypeOK
  <2>2. CASE ConsumerCommit
    BY <2>2 DEF ConsumerCommit, TypeOK
  <2>3. CASE UNCHANGED <<decision, order>>
    BY <2>3
  <2>4. QED
    BY <2>1, <2>2, <2>3, RecordsChangeAtCommit
<1>3. QED
  BY <1>1, <1>2, PipelineInvariant, PTL DEF Spec, LedgerSpec, Ledger!Spec

-----------------------------------------------------------------------------

\* The steps that write a signal's status.
LEMMA StatusWriters ==
  ASSUME [Next]_vars
  PROVE  \/ \E s \in Signals : CreateSignal(s) \/ CancelWrite(s)
         \/ \E g \in Strategies, new \in {"paused", "disabled"} : PauseStrategy(g, new)
         \/ ExpireStale \/ EvaluatorCommit \/ ConsumerCommit
         \/ UNCHANGED status
BY DEF Next, EvaluatorStep, ConsumerStep, RequestStep, vars, Lapse, CancelCheck,
       EvaluateSignal, EvaluateError, FillOrder, RejectOrder, SubmitRaises,
       Consume, ProcessError, ProcessDbError, OrderConflict, AutoPause,
       EnableStrategy, EvaluatorBegin, EvaluatorRollback, ConsumerBegin,
       CommitError, ConsumerRollback, Crash, rows

\* A step outside the transition table is the write of a session that acts
\* on a status it loaded earlier, and nothing returns to 'pending'.
THEOREM TableBrokenOnlyByStaleWrites == Spec => OnlyStaleWritesBreakTheTable
<1> DEFINE Step(s) ==
      \/ status[s] = "absent" /\ status'[s] = "pending"
      \/ status'[s] \in ValidTransitions(status[s])
      \/ status'[s] = "canceled" /\ s \in cancelRead
      \/ /\ status[s] \in {"expired", "canceled"}
         /\ evWrote[s] # "none" \/ ocWrote[s] # "none"
<1>1. PipelineInv /\ [Next]_vars =>
        [\A s \in Signals : status'[s] # status[s] => Step(s)]_status
  <2> SUFFICES ASSUME PipelineInv, [Next]_vars, NEW s \in Signals,
                      status'[s] # status[s]
               PROVE  Step(s)
    OBVIOUS
  <2>0. TypeOK /\ SignalInv(s)
    BY DEF PipelineInv
  <2> USE <2>0 DEF TypeOK, SignalInv, ValidTransitions
  <2>1. ASSUME NEW x \in Signals, CreateSignal(x) PROVE Step(s)
    BY <2>1 DEF CreateSignal
  <2>2. ASSUME NEW x \in Signals, CancelWrite(x) PROVE Step(s)
    BY <2>2 DEF CancelWrite
  <2>3. ASSUME NEW g \in Strategies, NEW new \in {"paused", "disabled"},
               PauseStrategy(g, new) PROVE Step(s)
    BY <2>3 DEF PauseStrategy, PendingOf, PendingSignals
  <2>4. CASE ExpireStale
    BY <2>4 DEF ExpireStale
  <2>5. CASE EvaluatorCommit
    BY <2>5 DEF EvaluatorCommit, DecidedStatus, OrderedStatus
  <2>6. CASE ConsumerCommit
    BY <2>6 DEF ConsumerCommit, OrderedStatus
  <2>7. CASE UNCHANGED status
    BY <2>7
  <2>8. QED
    BY <2>1, <2>2, <2>3, <2>4, <2>5, <2>6, <2>7, StatusWriters
<1>2. QED
  BY <1>1, PipelineInvariant, PTL DEF Spec, OnlyStaleWritesBreakTheTable

-----------------------------------------------------------------------------
(* What a second order costs *)

\* Each order the broker holds beyond the one that is recorded, or about to
\* be, has cost a failure; a session that only raises has paid already.
DuplicateInv(s) ==
  /\ order[s] # "none" \/ ocWrote[s] # "none" => placed[s] <= faults + 1
  /\ order[s] = "none" /\ (ocWrote[s] = "none" \/ ocDead) => placed[s] <= faults
  /\ s \in ocBatch => order[s] = "none"

\* An order row that was committed as pending stays so: no later cycle writes
\* a signal that has an order row.
LEMMA StuckStays ==
  ASSUME PipelineInv, [Next]_vars, NEW s \in Signals, order[s] = "pending"
  PROVE  order'[s] = "pending"
<1>1. TypeOK /\ SignalInv(s)
  BY DEF PipelineInv
<1>2. CASE ConsumerCommit
  BY <1>1, <1>2 DEF ConsumerCommit, SignalInv
<1>3. CASE UNCHANGED order
  BY <1>3
<1>4. ConsumerCommit \/ UNCHANGED order
  BY DEF Next, EvaluatorStep, EvaluatorBegin, EvaluateSignal, EvaluateError, EvaluatorCommit, EvaluatorRollback,
         ConsumerStep, ConsumerBegin, FillOrder, RejectOrder, SubmitRaises, Consume, ProcessError, ProcessDbError,
         OrderConflict, CommitError, ConsumerRollback, RequestStep, CreateSignal, CancelCheck, CancelWrite,
         PauseStrategy, AutoPause, EnableStrategy, ExpireStale, Lapse, Crash, rows, vars
<1>5. QED
  BY <1>2, <1>3, <1>4

NothingStuck == \A s \in Signals : order[s] # "pending"

LEMMA DuplicateStep ==
  ASSUME PipelineInv, [Next]_vars, NothingStuck, \A t \in Signals : DuplicateInv(t), NEW s \in Signals
  PROVE  DuplicateInv(s)'
<1>0. TypeOK /\ SignalInv(s) /\ DuplicateInv(s)
  BY DEF PipelineInv
<1>1. placed[s] \in Nat /\ faults \in Nat
  BY <1>0 DEF TypeOK
<1>2. ASSUME faults' \in {faults, faults + 1}, ocBatch' \subseteq ocBatch,
             UNCHANGED <<order, placed, ocWrote, ocDead>>
      PROVE  DuplicateInv(s)'
  BY <1>0, <1>1, <1>2 DEF DuplicateInv
<1>3. ASSUME NEW x \in Signals, NEW o \in {"filled", "rejected", "pending"}, Consume(x, o), MayPlace(x),
             faults' \in {faults, faults + 1}
      PROVE  DuplicateInv(s)'
  <2>0. faults' \in Nat /\ faults <= faults' /\ placed'[s] \in Nat
    BY <1>0, <1>1, <1>3 DEF MayPlace, Place, TypeOK
  <2>1. UNCHANGED <<order, ocDead>> /\ ocBatch' \subseteq ocBatch /\ x \in ocBatch /\ ~ocDead
    BY <1>3, Zenon DEF Consume, Oldest, rows
  <2>2. CASE s = x
    <3>1. order[s] = "none" /\ ocWrote[s] = "none"
      BY <1>0, <2>1, <2>2 DEF SignalInv, DuplicateInv
    <3>2. placed'[s] <= faults + 1
      BY <1>0, <1>1, <1>3, <2>2, <3>1 DEF DuplicateInv, MayPlace, Place, TypeOK
    <3>3. ocWrote'[s] \in {"filled", "rejected", "pending"}
      BY <1>0, <1>3, <2>2 DEF Consume, TypeOK
    <3>4. order'[s] = "none" /\ ~ocDead' /\ placed'[s] <= faults' + 1 /\ ocWrote'[s] # "none"
      BY <1>1, <1>3, <2>1, <3>1, <3>2, <3>3, <2>0
    <3>5. s \in ocBatch' => order'[s] = "none"
      BY <3>4
    <3>6. QED
      BY <3>4, <3>5 DEF DuplicateInv
  <2>3. CASE s # x
    <3>1. placed'[s] = placed[s] /\ ocWrote'[s] = ocWrote[s]
      BY <1>0, <1>3, <2>3 DEF Consume, MayPlace, Place, TypeOK
    <3>2. QED
      BY <1>0, <1>1, <2>0, <2>1, <3>1 DEF DuplicateInv
  <2>4. QED
    BY <2>2, <2>3
<1>4. ASSUME NEW x \in Signals, ProcessDbError(x) PROVE DuplicateInv(s)'
  <2>1. /\ UNCHANGED <<order, ocWrote, ocBatch>> /\ faults' = faults + 1 /\ x \in ocBatch /\ ~ocDead
        /\ MayPlace(x)
    BY <1>4 DEF ProcessDbError, Oldest, Fault, rows
  <2>2. placed'[s] <= faults + 1
    <3>1. CASE s = x
      <4>1. placed[s] <= faults
        BY <1>0, <2>1, <3>1 DEF SignalInv, DuplicateInv
      <4>2. QED
        BY <1>0, <1>1, <2>1, <3>1, <4>1 DEF MayPlace, Place, TypeOK
    <3>2. CASE s # x
      <4>1. placed'[s] = placed[s]
        BY <1>0, <2>1, <3>2 DEF MayPlace, Place, TypeOK
      <4>2. QED
        BY <1>0, <1>1, <4>1 DEF DuplicateInv
    <3>3. QED
      BY <3>1, <3>2
  <2>3. placed'[s] \in Nat
    BY <1>0, <1>1, <2>1 DEF MayPlace, Place, TypeOK
  <2>4. QED
    BY <1>0, <1>1, <2>1, <2>2, <2>3 DEF DuplicateInv
<1>5. ASSUME NEW x \in Signals, OrderConflict(x) PROVE FALSE
  <2>1. x \in ocBatch /\ order[x] # "none"
    BY <1>5 DEF OrderConflict, Oldest
  <2>2. QED
    BY <1>0, <2>1 DEF DuplicateInv
<1>6. CASE ConsumerBegin
  <2>1. s \in ocBatch' => order[s] = "none"
    BY <1>0, <1>6 DEF ConsumerBegin, ApprovedSignals, SignalInv, DuplicateInv, NothingStuck, OrderedStatus, TypeOK
  <2>2. UNCHANGED <<order, placed, ocWrote, ocDead, faults>>
    BY <1>6 DEF ConsumerBegin, rows
  <2>3. QED
    BY <1>0, <2>1, <2>2 DEF DuplicateInv
<1>7. CASE ConsumerCommit
  <2>1. /\ order'[s] = IF ocWrote[s] # "none" THEN ocWrote[s] ELSE order[s]
        /\ ocWrote'[s] = "none" /\ ocBatch' = {} /\ UNCHANGED <<placed, faults>>
    BY <1>7 DEF ConsumerCommit
  <2>2. ~ocDead /\ ~ocDead'
    BY <1>7, Zenon DEF ConsumerCommit
  <2>3. QED
    BY <1>0, <2>1, <2>2 DEF DuplicateInv
<1>8. CASE CommitError
  <2>1. UNCHANGED <<order, placed, ocWrote, ocBatch>> /\ faults' = faults + 1
    BY <1>8 DEF CommitError, Fault, rows
  <2>2. QED
    BY <1>0, <1>1, <2>1 DEF DuplicateInv
<1>9. CASE ConsumerRollback
  <2>1. ocDead /\ UNCHANGED <<order, placed, faults>> /\ ocBatch' = {} /\ ocWrote'[s] = "none"
    BY <1>9 DEF ConsumerRollback, rows
  <2>2. QED
    BY <1>0, <2>1 DEF DuplicateInv
<1>10. CASE Crash
  <2>1. UNCHANGED <<order, placed>> /\ faults' = faults + 1 /\ ocBatch' = {} /\ ocWrote'[s] = "none"
    BY <1>10 DEF Crash, Fault, rows
  <2>2. QED
    BY <1>0, <1>1, <2>1 DEF DuplicateInv
<1> DEFINE Aside == /\ faults' \in {faults, faults + 1} /\ ocBatch' \subseteq ocBatch
                    /\ UNCHANGED <<order, placed, ocWrote, ocDead>>
<1>11. EvaluatorStep => Aside
  BY DEF EvaluatorStep, EvaluatorBegin, EvaluateSignal, EvaluateError, EvaluatorCommit, EvaluatorRollback,
         Fault, rows, consumerVars
<1>12. RequestStep \/ ExpireStale \/ (\E x \in Signals : Lapse(x)) \/ UNCHANGED vars => Aside
  BY DEF RequestStep, CreateSignal, CancelCheck, CancelWrite, PauseStrategy, AutoPause, EnableStrategy,
         ExpireStale, Lapse, rows, consumerVars, vars
<1>13. \A x \in Signals : ProcessError(x) => Aside
  BY DEF ProcessError, Fault, rows
<1>14. ASSUME NEW x \in Signals, SubmitRaises(x) PROVE Consume(x, "pending") /\ MayPlace(x) /\ faults' = faults + 1
  BY <1>14 DEF SubmitRaises, MayPlace, Fault
<1>15. QED
  BY <1>2, <1>3, <1>4, <1>5, <1>6, <1>7, <1>8, <1>9, <1>10, <1>11, <1>12, <1>13, <1>14
     DEF Next, ConsumerStep, FillOrder, RejectOrder

\* The broker holds a second order of a signal only after a failure that
\* rolled the consumer back, unless some order row was left pending.
THEOREM DuplicatesArePaidFor == Spec => []DuplicatesCostAFault
<1> DEFINE Inv == NothingStuck => \A s \in Signals : DuplicateInv(s)
<1>1. Init => Inv
  BY DEF Init, DuplicateInv
<1>2. PipelineInv /\ Inv /\ [Next]_vars => Inv'
  BY DuplicateStep, StuckStays DEF NothingStuck
<1>3. PipelineInv /\ Inv => DuplicatesCostAFault
  BY DEF PipelineInv, TypeOK, DuplicateInv, DuplicatesCostAFault, NothingStuck
<1> HIDE DEF Inv
<1>4. QED
  BY <1>1, <1>2, <1>3, PipelineInvariant, PTL DEF Spec

=============================================================================
