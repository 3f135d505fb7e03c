----------------------------- MODULE KillSwitch -----------------------------
(***************************************************************************)
(* The kill switches: the rows of `kill_switches`, the requests that       *)
(* activate and deactivate them in sessions of their own, and the risk     *)
(* evaluator, which looks them up before it lets an entry signal pass.     *)
(*                                                                         *)
(* Three things make this more than a flag.  There is no unique key per    *)
(* scope, so a scope may get several rows; every lookup is a SELECT with   *)
(* LIMIT 1 and no ORDER BY, so any of them may answer; and whoever looks a *)
(* switch up acts on the answer several statements later.                  *)
(*                                                                         *)
(* An uncommitted write holds its row until the commit that follows, so    *)
(* the flush and the commit of a request are one step here.                *)
(***************************************************************************)
EXTENDS Naturals, FiniteSets

CONSTANTS
  Global,      \* the scope "global"
  Strategies,  \* each strategy is a scope of its own
  Requests,    \* concurrent requests
  MaxRows      \* bound: rows of one scope

ASSUME SwitchAssumption ==
  /\ Global \notin Strategies
  /\ MaxRows \in Nat

VARIABLES
  rows,     \* kill_switches: the rows of each scope
  req,      \* the session of each request
  context,  \* the signal under evaluation, with the switches as looked up
  passed,   \* strategies whose last entry passed the check
  armed,    \* history: scopes activated and not deactivated since
  overlap   \* history: scopes that two requests worked on at once

vars == <<rows, req, context, passed, armed, overlap>>

Scopes == {Global} \cup Strategies
Rows   == 1 .. MaxRows
States == {"none", "active", "inactive"}   \* "none": no such row

NoRow == 0   \* the lookup found nothing

\* A request between its statements: the row it works on, as loaded.
Idle == [phase |-> "idle", scope |-> Global, row |-> NoRow, loaded |-> "none"]
Session == [phase : {"idle", "activate", "write", "deactivate"}, scope : Scopes,
            row : Rows \cup {NoRow}, loaded : States]

\* The risk context of the evaluator's signal; `armed` remembers which of
\* its scopes were armed when it was built.
Context == [strategy : Strategies, blocked : BOOLEAN, armed : SUBSET Scopes]
NoContext == [strategy |-> Global, blocked |-> TRUE, armed |-> {}]

TypeOK ==
  /\ rows \in [Scopes -> [Rows -> States]]
  /\ req \in [Requests -> Session]
  /\ context \in Context \cup {NoContext}
  /\ passed \subseteq Strategies
  /\ armed \subseteq Scopes
  /\ overlap \subseteq Scopes

Init ==
  /\ rows = [sc \in Scopes |-> [i \in Rows |-> "none"]]
  /\ req = [r \in Requests |-> Idle]
  /\ context = NoContext
  /\ passed = {}
  /\ armed = {}
  /\ overlap = {}

-----------------------------------------------------------------------------
(* Lookups *)

Existing(sc) == {i \in Rows : rows[sc][i] # "none"}

\* The rows that SELECT ... WHERE scope = ... LIMIT 1 may return.
Lookup(sc) == IF Existing(sc) = {} THEN {NoRow} ELSE Existing(sc)

StateOf(sc, i) == IF i = NoRow THEN "none" ELSE rows[sc][i]

evaluatorVars == <<context, passed>>

-----------------------------------------------------------------------------
(* Requests.  One that finds nothing to do raises and changes nothing. *)

Begin(r, sc, phase, i) ==
  /\ req[r].phase = "idle"
  /\ req' = [req EXCEPT ![r] = [phase |-> phase, scope |-> sc, row |-> i,
                                loaded |-> StateOf(sc, i)]]
  /\ overlap' = IF \E q \in Requests : req[q].phase # "idle" /\ req[q].scope = sc
                THEN overlap \cup {sc} ELSE overlap
  /\ UNCHANGED <<evaluatorVars, rows, armed>>

\* The switch is looked up; it must not be active.
BeginActivate(r, sc) ==
  \E i \in Lookup(sc) : StateOf(sc, i) # "active" /\ Begin(r, sc, "activate", i)

\* Mutant: upsert always inserts.
LookupAgainInserts(r) ==
  /\ req[r].phase = "activate"
  /\ req' = [req EXCEPT ![r].phase = "write", ![r].row = NoRow, ![r].loaded = "none"]
  /\ UNCHANGED <<evaluatorVars, rows, armed, overlap>>

\* upsert looks the switch up once more.  A row the session has is returned
\* as it was loaded.
LookupAgain(r) ==
  LET sc == req[r].scope IN
  /\ req[r].phase = "activate"
  /\ \E i \in Lookup(sc) :
       req' = [req EXCEPT ![r].phase = "write", ![r].row = i,
                          ![r].loaded = IF i = req[r].row THEN @ ELSE StateOf(sc, i)]
  /\ UNCHANGED <<evaluatorVars, rows, armed, overlap>>

\* The row is inserted or updated.  An update leaves out a column whose new
\* value is the one that was loaded.
CommitActivate(r) ==
  LET sc == req[r].scope IN
  /\ req[r].phase = "write"
  /\ IF req[r].row = NoRow
     THEN \E i \in Rows \ Existing(sc) : rows' = [rows EXCEPT ![sc][i] = "active"]
     ELSE rows' = IF req[r].loaded = "active" THEN rows
                  ELSE [rows EXCEPT ![sc][req[r].row] = "active"]
  /\ req' = [req EXCEPT ![r] = Idle]
  /\ armed' = armed \cup {sc}
  /\ UNCHANGED <<evaluatorVars, overlap>>

\* The switch is looked up; it must be active.
BeginDeactivate(r, sc) ==
  \E i \in Lookup(sc) : StateOf(sc, i) = "active" /\ Begin(r, sc, "deactivate", i)

CommitDeactivate(r) ==
  LET sc == req[r].scope IN
  /\ req[r].phase = "deactivate"
  /\ rows' = [rows EXCEPT ![sc][req[r].row] = "inactive"]
  /\ req' = [req EXCEPT ![r] = Idle]
  /\ armed' = armed \ {sc}
  /\ UNCHANGED <<evaluatorVars, overlap>>

\* The request fails or its client goes: the session is rolled back.
Rollback(r) ==
  /\ req[r].phase # "idle"
  /\ req' = [req EXCEPT ![r] = Idle]
  /\ UNCHANGED <<evaluatorVars, rows, armed, overlap>>

-----------------------------------------------------------------------------
(* The risk evaluator *)

\* Mutant: the lookup of the strategy's switch forgets the strategy.
BlockedByGlobalOnly(g) ==
  {b \in BOOLEAN : \E i \in Lookup(Global) : b <=> StateOf(Global, i) = "active"}

\* What the two lookups of one evaluation may yield.
Blocked(g) ==
  {b \in BOOLEAN : \E i \in Lookup(Global), j \in Lookup(g) :
     b <=> StateOf(Global, i) = "active" \/ StateOf(g, j) = "active"}

\* The evaluator builds the context of an entry signal of g.
BuildContext(g) ==
  /\ context = NoContext
  /\ \E blocked \in Blocked(g) :
       context' = [strategy |-> g, blocked |-> blocked, armed |-> armed \cap {Global, g}]
  /\ passed' = passed \ {g}
  /\ UNCHANGED <<rows, req, armed, overlap>>

\* Exposure, drawdown, losses and prices are read in between.  Then the
\* checks run on the context.
CheckEntry ==
  /\ context # NoContext
  /\ passed' = IF context.blocked THEN passed ELSE passed \cup {context.strategy}
  /\ context' = NoContext
  /\ UNCHANGED <<rows, req, armed, overlap>>

-----------------------------------------------------------------------------

Next ==
  \/ \E r \in Requests :
       \/ \E sc \in Scopes : BeginActivate(r, sc) \/ BeginDeactivate(r, sc)
       \/ LookupAgain(r) \/ CommitActivate(r)
       \/ CommitDeactivate(r) \/ Rollback(r)
  \/ \E g \in Strategies : BuildContext(g)
  \/ CheckEntry

Spec == Init /\ [][Next]_vars

-----------------------------------------------------------------------------
(* Properties *)

\* A switch that was armed when an entry's context was built does not let the
\* entry pass, unless two requests once worked on it at the same time.
ArmedSwitchBlocks ==
  [][\A g \in passed' \ passed : context.armed \subseteq overlap]_vars

\* The same of the context, before the checks.
ContextIsRight == ~context.blocked => context.armed \subseteq overlap

\* The invariant behind it: an armed switch is active, on its only row.
ArmedIsActive ==
  \A sc \in armed \ overlap :
    Existing(sc) # {} /\ \A i \in Existing(sc) : rows[sc][i] = "active"

\* A scope gets a second row only if two requests worked on it at once.
Pending(r, sc) == req[r].phase # "idle" /\ req[r].scope = sc

DuplicatesNeedOverlap ==
  \A sc \in Scopes \ overlap : \A i, j \in Existing(sc) : i = j

\* The invariant behind it: a request alone on its scope acts on a lookup
\* that is still true, so it inserts only where there is no row.
LoneRequestsSeeTheTruth ==
  \A sc \in Scopes \ overlap : \A r \in Requests : Pending(r, sc) =>
    /\ \A q \in Requests : Pending(q, sc) => q = r
    /\ req[r].row \in Lookup(sc)
    /\ req[r].loaded = StateOf(sc, req[r].row)
    /\ req[r].phase # "deactivate" => req[r].loaded # "active"

SwitchInv ==
  /\ TypeOK
  /\ ContextIsRight
  /\ ArmedIsActive
  /\ DuplicatesNeedOverlap
  /\ LoneRequestsSeeTheTruth

=============================================================================
