--------------------------- MODULE StrategyRunner ---------------------------
(***************************************************************************)
(* The loop that evaluates the enabled strategies: one session loads them, *)
(* evaluates all that are due as tasks of one gather over that session,    *)
(* counts failures, pauses a strategy that failed too often, and commits.  *)
(* Requests change the status and the configuration meanwhile.  Statements *)
(* of the shared session are serialised by the driver; two flushes at once *)
(* are an error of the second.                                             *)
(***************************************************************************)
EXTENDS Integers, FiniteSets

CONSTANTS Strategies, Editors,
          Threshold,   \* auto_pause_error_threshold
          Faulty,      \* strategies whose evaluation always raises
          MaxVersion,  \* bound: configuration versions
          MaxFaults,   \* bound: other failures of an evaluation or of the database
          MaxRequests, \* bound: status changes by request
          MaxSignals   \* bound: signals of an evaluation, one per symbol

ASSUME RunnerAssumption == /\ Faulty \subseteq Strategies
                           /\ Threshold \in Nat \ {0} /\ MaxVersion \in Nat \ {0}
                           /\ MaxFaults \in Nat /\ MaxRequests \in Nat /\ MaxSignals \in Nat

VARIABLES rows,      \* strategies: [status, errors, version], committed
          configs,   \* strategy_configs: [version, active], committed
          editor,    \* update_config requests: what they loaded
          loaded,    \* the error counts as the runner's session loaded them, 0 when idle
          due,       \* strategies the cycle evaluates, empty when idle
          task,      \* where the evaluation of a strategy is
          signals,   \* signals it has begun to emit
          broken,    \* the session's transaction was rolled back by a failed flush
          faults, requests,
          streak,    \* history: failures in a row since the last success, pause or resumption
          disturbed  \* history: strategies whose status was changed during their evaluation

vars == <<rows, configs, editor, loaded, due, task, signals, broken, faults, requests, streak, disturbed>>

Idle == [pc |-> "idle"]

StrategyTransitions ==
  {<<"enabled", "paused">>, <<"enabled", "disabled">>, <<"paused", "enabled">>,
   <<"paused", "disabled">>, <<"disabled", "enabled">>}

Zeros == [s \in Strategies |-> 0]

Ended    == {"ok", "failed"}
Flushing == {s \in due : task[s] \in {"emitting", "recording"}}

Statuses == {"enabled", "paused", "disabled"}

\* What an update_config request holds between its read and its write.
Update == [pc : {"loaded"}, strategy : Strategies, status : Statuses, version : 1..(MaxVersion - 1)]

\* A row of strategies, and one of strategy_configs.
Row       == [status : Statuses, errors : 0..(Threshold - 1), version : 1..MaxVersion]
ConfigRow == [version : 1..MaxVersion, active : BOOLEAN]

TypeOK ==
  /\ rows \in [Strategies -> Row] /\ configs \in [Strategies -> SUBSET ConfigRow]
  /\ editor \in [Editors -> Update \cup {Idle}]
  /\ due \subseteq Strategies /\ disturbed \subseteq Strategies
  /\ task \in [Strategies -> {"none", "symbols", "emitting", "record", "recording"} \cup Ended]
  /\ loaded \in [Strategies -> 0..(Threshold - 1)] /\ streak \in [Strategies -> Nat]
  /\ signals \in [Strategies -> 0..MaxSignals] /\ broken \in BOOLEAN
  /\ faults \in 0..MaxFaults /\ requests \in 0..MaxRequests

Init ==
  /\ rows = [s \in Strategies |-> [status |-> "enabled", errors |-> 0, version |-> 1]]
  /\ configs = [s \in Strategies |-> {[version |-> 1, active |-> TRUE]}]
  /\ editor = [e \in Editors |-> Idle]
  /\ loaded = Zeros /\ due = {} /\ task = [s \in Strategies |-> "none"] /\ signals = Zeros /\ broken = FALSE
  /\ faults = 0 /\ requests = 0
  /\ streak = Zeros /\ disturbed = {}

-----------------------------------------------------------------------------
(* Requests *)

ChangeStatus(s, status) ==
  /\ requests < MaxRequests /\ requests' = requests + 1
  /\ <<rows[s].status, status>> \in StrategyTransitions
  /\ rows' = [rows EXCEPT ![s].status = status,
                          ![s].errors = IF status = "enabled" THEN 0 ELSE @]
  /\ streak' = [streak EXCEPT ![s] = IF status = "enabled" THEN 0 ELSE @]
  /\ disturbed' = disturbed \cup ({s} \cap due)
  /\ UNCHANGED <<configs, editor, loaded, due, task, signals, broken, faults>>

LoadForUpdate(e, s) ==
  /\ editor[e] = Idle /\ rows[s].version < MaxVersion
  /\ editor' = [editor EXCEPT ![e] = [pc |-> "loaded", strategy |-> s, status |-> rows[s].status, version |-> rows[s].version]]
  /\ UNCHANGED <<rows, configs, loaded, due, task, signals, broken, faults, requests, streak, disturbed>>

Deactivated(versions) == {[c EXCEPT !.active = FALSE] : c \in versions}

\* Mutant: the versions before are left active.
NewVersionOnly(versions, v) == versions \cup {[version |-> v, active |-> TRUE]}

NewVersion(versions, v) == Deactivated(versions) \cup {[version |-> v, active |-> TRUE]}

\* An enabled strategy gets a new version; two requests that computed the same one
\* meet in its UNIQUE constraint and the second is rolled back.  The configuration
\* of any other strategy is edited in place.
WriteUpdate(e) ==
  /\ editor[e] # Idle
  /\ LET s == editor[e].strategy
         v == editor[e].version + 1
     IN IF editor[e].status = "enabled" /\ \A c \in configs[s] : c.version # v
        THEN /\ configs' = [configs EXCEPT ![s] = NewVersion(@, v)]
             /\ rows' = [rows EXCEPT ![s].version = v]
        ELSE UNCHANGED <<rows, configs>>
  /\ editor' = [editor EXCEPT ![e] = Idle]
  /\ UNCHANGED <<loaded, due, task, signals, broken, faults, requests, streak, disturbed>>

-----------------------------------------------------------------------------
(* The cycle *)

ActiveConfigs(s) == {c \in configs[s] : c.active}

\* Mutant: every strategy is loaded.
EnabledAny == Strategies

Enabled == {s \in Strategies : rows[s].status = "enabled"}

\* More than one active configuration of any strategy would end the cycle here.
\* Faulty strategies have the timeframe 1m and are always due, others may be.
BeginCycle ==
  /\ due = {}
  /\ \A s \in Enabled : Cardinality(ActiveConfigs(s)) <= 1
  /\ \E d \in SUBSET Enabled :
       /\ d # {} /\ Faulty \cap Enabled \subseteq d
       /\ \A s \in d : ActiveConfigs(s) # {}
       /\ due' = d
       /\ task' = [s \in Strategies |-> IF s \in d THEN "symbols" ELSE "none"]
  /\ signals' = Zeros
  /\ loaded' = [s \in Strategies |-> IF s \in due' THEN rows[s].errors ELSE 0]
  /\ UNCHANGED <<rows, configs, editor, broken, faults, requests, streak, disturbed>>

Move(s, from, to) ==
  /\ task[s] = from /\ task' = [task EXCEPT ![s] = to]
  /\ UNCHANGED <<rows, configs, editor, loaded, due, broken, faults, requests, streak, disturbed>>

\* An error outside the symbols, such as of the configuration, ends the task.
Raise(s) ==
  /\ task[s] = "symbols" /\ task' = [task EXCEPT ![s] = "failed"]
  /\ s \in Faulty \/ faults < MaxFaults
  /\ faults' = IF s \in Faulty THEN faults ELSE faults + 1
  /\ UNCHANGED <<rows, configs, editor, loaded, due, signals, broken, requests, streak, disturbed>>

\* Signals are created and flushed; create_signal swallows every error, so that
\* of a flush during another one too.
BeginEmit(s) == /\ s \notin Faulty /\ Flushing = {} /\ ~broken /\ signals[s] < MaxSignals
                /\ Move(s, "symbols", "emitting") /\ signals' = [signals EXCEPT ![s] = @ + 1]

EndEmit(s) == Move(s, "emitting", "symbols") /\ UNCHANGED signals

\* The market is closed, no symbol has data or signals, or all symbols raised:
\* each is recorded, and a record is a success.
SymbolsDone(s) == s \notin Faulty /\ Move(s, "symbols", "record") /\ UNCHANGED signals

BeginRecord(s) == Flushing = {} /\ ~broken /\ Move(s, "record", "recording") /\ UNCHANGED signals

RecordCollides(s) == (Flushing # {} \/ broken) /\ Move(s, "record", "failed") /\ UNCHANGED signals

EndRecord(s) == Move(s, "recording", "ok") /\ UNCHANGED signals

DatabaseError(s) ==
  /\ task[s] \in {"emitting", "recording"} /\ faults < MaxFaults /\ faults' = faults + 1
  /\ task' = [task EXCEPT ![s] = IF @ = "emitting" THEN "symbols" ELSE "failed"]
  /\ broken' = TRUE
  /\ UNCHANGED <<rows, configs, editor, loaded, due, signals, requests, streak, disturbed>>

Task(s) == \/ Raise(s) \/ BeginEmit(s) \/ EndEmit(s) \/ SymbolsDone(s)
           \/ BeginRecord(s) \/ RecordCollides(s) \/ EndRecord(s)

-----------------------------------------------------------------------------
(* The results *)

Failures(s) == loaded[s] + 1

AutoPaused == {s \in due : task[s] = "failed" /\ Failures(s) >= Threshold}

\* Mutant: a success leaves the count as it was.
TalliedOnFailure(s) ==
  CASE s \in AutoPaused   -> [rows[s] EXCEPT !.status = "paused", !.errors = 0]
    [] task[s] = "failed" -> [rows[s] EXCEPT !.errors = IF Failures(s) >= Threshold THEN 0 ELSE Failures(s)]
    [] OTHER              -> rows[s]

\* Mutant: the count starts again but the status is not written.
TalliedUnpaused(s) ==
  CASE s \in AutoPaused -> [rows[s] EXCEPT !.errors = 0]
    [] s \notin AutoPaused /\ task[s] = "failed" -> [rows[s] EXCEPT !.errors = Failures(s)]
    [] OTHER -> [rows[s] EXCEPT !.errors = IF loaded[s] = 0 THEN @ ELSE 0]

\* Only columns that differ from what was loaded are written.
Tallied(s) ==
  CASE s \in AutoPaused -> [rows[s] EXCEPT !.status = "paused", !.errors = 0]
    [] s \notin AutoPaused /\ task[s] = "failed" -> [rows[s] EXCEPT !.errors = Failures(s)]
    [] OTHER -> [rows[s] EXCEPT !.errors = IF loaded[s] = 0 THEN @ ELSE 0]

Results ==
  /\ due # {} /\ \A s \in due : task[s] \in Ended
  /\ due' = {} /\ task' = [s \in Strategies |-> "none"]
  /\ loaded' = Zeros /\ signals' = Zeros /\ broken' = FALSE /\ disturbed' = {}

\* The rows are written under their locks and committed in one step.
Commit ==
  /\ Results /\ ~broken
  /\ rows' = [s \in Strategies |-> IF s \in due THEN Tallied(s) ELSE rows[s]]
  /\ streak' = [s \in Strategies |-> IF s \notin due THEN streak[s]
                                     ELSE IF task[s] = "failed" /\ s \notin AutoPaused THEN streak[s] + 1 ELSE 0]
  /\ UNCHANGED <<configs, editor, faults, requests>>

\* After a database error the first write of a result raises: the whole cycle is
\* rolled back, the counts of all its strategies with it.
Rollback ==
  /\ Results /\ broken
  /\ UNCHANGED <<rows, configs, editor, faults, requests, streak>>

-----------------------------------------------------------------------------

Cycle == BeginCycle \/ (\E s \in Strategies : Task(s)) \/ Commit \/ Rollback

Request == \/ \E s \in Strategies, status \in Statuses : ChangeStatus(s, status)
           \/ \E e \in Editors, s \in Strategies : LoadForUpdate(e, s)
           \/ \E e \in Editors : WriteUpdate(e)

Next == Cycle \/ Request \/ \E s \in Strategies : DatabaseError(s)

\* The event loop lets every task go on, and each has finitely many steps.
Fairness == WF_vars(Cycle)

Spec == Init /\ [][Next]_vars /\ Fairness

-----------------------------------------------------------------------------
(* Properties *)

\* Whatever update requests overlap, every strategy keeps exactly one active
\* configuration, the one of its current version: with two the runner's
\* get_active would raise in every later cycle and no strategy would be evaluated.
OneActiveConfig == \A s \in Strategies : ActiveConfigs(s) = {[version |-> rows[s].version, active |-> TRUE]}

\* The inductive invariant of OneActiveConfig: the versions are those up to the
\* current one, and no request has loaded a later one.
ConfigInv ==
  /\ \A s \in Strategies :
       /\ \A c \in configs[s] : c.version \in 1..rows[s].version /\ (c.active <=> c.version = rows[s].version)
       /\ \A v \in 1..rows[s].version : \E c \in configs[s] : c.version = v
  /\ \A e \in Editors : editor[e] # Idle => editor[e].version <= rows[editor[e].strategy].version

\* What the action properties rest on: the counts a cycle loaded are those of the
\* rows, which are enabled still, but where the status was changed since.
CycleInv == \A s \in due \ disturbed : loaded[s] = rows[s].errors /\ rows[s].status = "enabled"

\* The persisted count is the number of failures in a row and stays so, unless the
\* strategy was resumed while a failing evaluation of it was running, whose stale
\* count is then written over the reset.
CountsAreHonest ==
  [][\A s \in Strategies \ disturbed :
       rows[s].errors = streak[s] => rows'[s].errors = streak'[s]]_vars

\* The runner pauses an enabled strategy at its Threshold-th failure in a row, unless
\* the count is stale or the status changed during the evaluation; a strategy that
\* is not enabled it does not touch, except that one disabled while its last failing
\* evaluation ran is made paused again.
PausesAreCaused ==
  [][\A s \in Strategies :
       rows'[s].status # rows[s].status /\ requests' = requests =>
         /\ rows'[s].status = "paused" /\ streak'[s] = 0
         /\ \/ s \in disturbed
            \/ /\ rows[s].status = "enabled"
               /\ rows[s].errors = streak[s] => streak[s] = Threshold - 1]_vars

\* A strategy whose evaluation always raises does not stay enabled, whatever the
\* tasks beside it do and with finitely many failures of the database.
FailingIsPaused == \A s \in Faulty : rows[s].status = "enabled" ~> rows[s].status # "enabled"

\* What the specification of the module promises of a cycle and the session that
\* its tasks share breaks: a task fails by an error of its own only.
StrategiesIsolated ==
  [][\A s \in due : task'[s] = "failed" /\ task[s] # "failed" /\ due' = due =>
                    s \in Faulty \/ faults' > faults]_vars
=============================================================================
