-------------------------- MODULE KillSwitchProofs --------------------------
(***************************************************************************)
(* The kill switches block what they should, for every set of strategies   *)
(* and requests and any number of rows; the inductive invariant is         *)
(* SwitchInv.  And the limits of the risk checks hold up to the causes     *)
(* LimitsHold names, for every set of strategies, symbols, prices and      *)
(* limits; the inductive invariant is LimitsInv, and a fill is followed    *)
(* through the sums of the exposures (Moves).                              *)
(***************************************************************************)
EXTENDS KillSwitch, RiskLimits, SumTheorems, TLAPS

USE SwitchAssumption DEF Scopes, Rows, States, NoRow

\* A lookup returns a row that exists, or none when there is none.
LEMMA LookupFinds ==
  ASSUME NEW sc \in Scopes, NEW i \in Lookup(sc)
  PROVE  /\ i \in Rows \cup {NoRow}
         /\ i = NoRow => Existing(sc) = {}
         /\ i # NoRow => i \in Existing(sc)
BY DEF Lookup, Existing

\* Every step keeps the types of tables, sessions and histories.
LEMMA NextType == TypeOK /\ [Next]_vars => TypeOK'
<1> SUFFICES ASSUME TypeOK, [Next]_vars PROVE TypeOK'
  OBVIOUS
<1> USE DEF TypeOK, evaluatorVars
<1>1. ASSUME NEW r \in Requests, NEW sc \in Scopes, NEW i \in Lookup(sc),
             NEW phase \in {"activate", "deactivate"}, Begin(r, sc, phase, i)
      PROVE  TypeOK'
  <2>1. StateOf(sc, i) \in States
    BY LookupFinds DEF StateOf
  <2>2. [phase |-> phase, scope |-> sc, row |-> i, loaded |-> StateOf(sc, i)] \in Session
    BY <2>1, LookupFinds DEF Session
  <2>3. QED
    BY <1>1, <2>2 DEF Begin
<1>2. ASSUME NEW r \in Requests, LookupAgain(r) PROVE TypeOK'
  <2>1. PICK i \in Lookup(req[r].scope) :
          req' = [req EXCEPT ![r].phase = "write", ![r].row = i,
                    ![r].loaded = IF i = req[r].row THEN @ ELSE StateOf(req[r].scope, i)]
    BY <1>2 DEF LookupAgain
  <2>2. req[r] \in Session /\ req[r].scope \in Scopes /\ req[r].loaded \in States
    BY DEF Session
  <2>3. i \in Rows \cup {NoRow} /\ StateOf(req[r].scope, i) \in States
    BY <2>2, LookupFinds DEF StateOf
  <2>4. req' \in [Requests -> Session]
    BY <2>1, <2>2, <2>3 DEF Session
  <2>5. QED
    BY <1>2, <2>4 DEF LookupAgain
<1>3. Idle \in Session
  BY DEF Idle, Session
<1>4. ASSUME NEW r \in Requests, CommitActivate(r) PROVE TypeOK'
  <2>1. req[r].scope \in Scopes
    BY DEF Session
  <2>2. armed' \subseteq Scopes /\ req' \in [Requests -> Session]
    BY <1>3, <1>4, <2>1 DEF CommitActivate
  <2>3. CASE req[r].row = NoRow
    <3>1. PICK i \in Rows : rows' = [rows EXCEPT ![req[r].scope][i] = "active"]
      BY <1>4, <2>3 DEF CommitActivate
    <3>2. rows' \in [Scopes -> [Rows -> States]]
      BY <2>1, <3>1
    <3>3. QED
      BY <1>4, <2>2, <3>2 DEF CommitActivate
  <2>4. CASE req[r].row # NoRow
    <3>1. req[r].row \in Rows
      BY <2>4 DEF Session
    <3>2. \/ rows' = rows
          \/ rows' = [rows EXCEPT ![req[r].scope][req[r].row] = "active"]
      BY <1>4, <2>4 DEF CommitActivate
    <3>3. [rows[req[r].scope] EXCEPT ![req[r].row] = "active"] \in [Rows -> States]
      <4>1. rows[req[r].scope] \in [Rows -> States] /\ "active" \in States
        BY <2>1 DEF States
      <4>2. QED
        BY <3>1, <4>1
    <3>4. rows' \in [Scopes -> [Rows -> States]]
      BY <2>1, <3>2, <3>3
    <3>5. QED
      BY <1>4, <2>2, <3>4 DEF CommitActivate
  <2>5. QED
    BY <2>3, <2>4
<1>5. ASSUME NEW r \in Requests, CommitDeactivate(r) PROVE TypeOK'
  BY <1>3, <1>5 DEF CommitDeactivate
<1>6. ASSUME NEW r \in Requests, Rollback(r) PROVE TypeOK'
  BY <1>3, <1>6 DEF Rollback
<1>8. CASE CheckEntry
  <2>1. context.strategy \in Strategies
    BY <1>8 DEF CheckEntry, Context
  <2>2. QED
    BY <1>8, <2>1 DEF CheckEntry
<1>9. ASSUME NEW g \in Strategies, BuildContext(g) PROVE TypeOK'
  <2>1. Blocked(g) \subseteq BOOLEAN
    BY DEF Blocked
  <2>2. context' \in Context
    BY <1>9, <2>1 DEF BuildContext, Context
  <2>3. QED
    BY <1>9, <2>2 DEF BuildContext
<1>10. CASE UNCHANGED vars
  BY <1>10 DEF vars
<1>11. QED
  BY <1>1, <1>2, <1>4, <1>5, <1>6, <1>8, <1>9, <1>10
     DEF Next, BeginActivate, BeginDeactivate

\* The rows, the sessions of the requests and what the evaluator remembers
\* keep their types.
THEOREM TypeCorrect == Spec => []TypeOK
<1>1. Init => TypeOK
  BY DEF Init, TypeOK, Idle, Session
<1>2. QED
  BY <1>1, NextType, PTL DEF Spec

-----------------------------------------------------------------------------

\* A scope whose rows a step leaves alone looks the same afterwards.
LEMMA SameScope ==
  ASSUME NEW sc, rows'[sc] = rows[sc]
  PROVE  /\ Existing(sc)' = Existing(sc)
         /\ Lookup(sc)' = Lookup(sc)
         /\ \A i : StateOf(sc, i)' = StateOf(sc, i)
<1>1. Existing(sc)' = Existing(sc)
  BY DEF Existing
<1>2. Lookup(sc)' = Lookup(sc)
  BY <1>1 DEF Lookup
<1>3. \A i : StateOf(sc, i)' = StateOf(sc, i)
  BY DEF StateOf
<1>4. QED
  BY <1>1, <1>2, <1>3

\* Where no two requests ever met, the only row is the one a lookup returns.
LEMMA OnlyRow ==
  ASSUME SwitchInv, NEW sc \in Scopes \ overlap, NEW i \in Lookup(sc), NEW j \in Lookup(sc)
  PROVE  i = j
BY LookupFinds DEF SwitchInv, DuplicatesNeedOverlap, Lookup

\* A request that begins: it is alone on its scope, or the scope is marked.
LEMMA BeginStep ==
  ASSUME SwitchInv, TypeOK',
         NEW r \in Requests, NEW sc \in Scopes, NEW i \in Lookup(sc), NEW phase,
         phase = "deactivate" \/ StateOf(sc, i) # "active", Begin(r, sc, phase, i)
  PROVE  SwitchInv'
<1> USE DEF SwitchInv
<1>1. /\ rows' = rows /\ armed' = armed /\ context' = context
      /\ overlap \subseteq overlap'
  BY DEF Begin, evaluatorVars
<1>2. \A s : /\ Existing(s)' = Existing(s)
             /\ Lookup(s)' = Lookup(s)
             /\ \A k : StateOf(s, k)' = StateOf(s, k)
  BY <1>1, SameScope
<1>3. ContextIsRight' /\ ArmedIsActive' /\ DuplicatesNeedOverlap'
  BY <1>1, <1>2 DEF ContextIsRight, ArmedIsActive, DuplicatesNeedOverlap
<1>4. req'[r] = [phase |-> phase, scope |-> sc, row |-> i, loaded |-> StateOf(sc, i)]
  BY DEF Begin, TypeOK
<1>5. \A q \in Requests \ {r} : req'[q] = req[q]
  BY DEF Begin, TypeOK
<1>6. \A q \in Requests \ {r} : Pending(q, sc) => sc \in overlap'
  BY DEF Begin, Pending
<1>7. LoneRequestsSeeTheTruth'
  <2> SUFFICES ASSUME NEW s \in Scopes \ overlap', NEW p \in Requests, Pending(p, s)'
               PROVE  /\ \A q \in Requests : Pending(q, s)' => q = p
                      /\ req'[p].row \in Lookup(s)
                      /\ req'[p].loaded = StateOf(s, req'[p].row)
                      /\ req'[p].phase # "deactivate" => req'[p].loaded # "active"
    BY <1>2 DEF LoneRequestsSeeTheTruth
  <2>1. CASE p = r
    <3>1. s = sc
      BY <2>1, <1>4 DEF Pending
    <3>2. QED
      BY <2>1, <3>1, <1>4, <1>5, <1>6 DEF Pending
  <2>2. CASE p # r
    <3>1. Pending(p, s) /\ s # sc
      BY <2>2, <1>5, <1>6 DEF Pending
    <3>2. \A q \in Requests : Pending(q, s)' => q = p
      BY <2>2, <3>1, <1>1, <1>4, <1>5 DEF Pending, LoneRequestsSeeTheTruth
    <3>3. QED
      BY <2>2, <3>1, <3>2, <1>1, <1>5 DEF LoneRequestsSeeTheTruth
  <2>3. QED
    BY <2>1, <2>2
<1>8. QED
  BY <1>3, <1>7

\* A request that ends leaves at most its own scope to be looked at again.
LEMMA EndKeepsTheOthers ==
  ASSUME SwitchInv, TypeOK', NEW r \in Requests,
         req' = [req EXCEPT ![r] = Idle], overlap' = overlap,
         \A s \in Scopes : ~Pending(r, s) => rows'[s] = rows[s]
  PROVE  LoneRequestsSeeTheTruth'
<1> USE DEF SwitchInv
<1>1. req'[r] = Idle /\ \A q \in Requests \ {r} : req'[q] = req[q]
  BY DEF TypeOK
<1> SUFFICES ASSUME NEW s \in Scopes \ overlap, NEW p \in Requests, Pending(p, s)'
             PROVE  /\ \A q \in Requests : Pending(q, s)' => q = p
                    /\ req'[p].row \in Lookup(s)'
                    /\ req'[p].loaded = StateOf(s, req[p].row)'
                    /\ req'[p].phase # "deactivate" => req'[p].loaded # "active"
  BY Zenon DEF LoneRequestsSeeTheTruth
<1>2. p # r /\ Pending(p, s)
  BY <1>1 DEF Pending, Idle
<1>3. ~Pending(r, s)
  BY <1>2 DEF LoneRequestsSeeTheTruth
<1>4. Lookup(s)' = Lookup(s) /\ \A k : StateOf(s, k)' = StateOf(s, k)
  BY <1>3, SameScope
<1>5. \A q \in Requests : Pending(q, s)' => Pending(q, s)
  BY <1>1 DEF Pending, Idle
<1>6. \A q \in Requests : Pending(q, s)' => q = p
  BY <1>2, <1>5 DEF LoneRequestsSeeTheTruth
<1>7. req'[p].loaded = StateOf(s, req[p].row)'
  <2>1. PICK k : k = req'[p].row
    OBVIOUS
  <2>2. req'[p].loaded = StateOf(s, k)'
    BY <1>1, <1>2, <1>4, <2>1 DEF LoneRequestsSeeTheTruth
  <2>3. StateOf(s, k)' = StateOf(s, req[p].row)'
    BY <2>1 DEF StateOf
  <2>4. QED
    BY <2>2, <2>3
<1>8. QED
  BY <1>1, <1>2, <1>4, <1>6, <1>7 DEF LoneRequestsSeeTheTruth

\* The second lookup, and the new loaded state, still tell the truth.
LEMMA LookupAgainStep ==
  ASSUME SwitchInv, TypeOK', NEW r \in Requests, LookupAgain(r)
  PROVE  SwitchInv'
<1> USE DEF SwitchInv
<1>1. PICK sc \in Scopes : sc = req[r].scope
  BY DEF TypeOK, Session
<1>2. PICK i \in Lookup(sc) :
        req' = [req EXCEPT ![r].phase = "write", ![r].row = i,
                  ![r].loaded = IF i = req[r].row THEN @ ELSE StateOf(sc, i)]
  BY <1>1 DEF LookupAgain
<1>3. /\ rows' = rows /\ armed' = armed /\ context' = context /\ overlap' = overlap
      /\ Pending(r, sc) /\ req[r].phase = "activate"
  BY <1>1 DEF LookupAgain, evaluatorVars, Pending
<1>4. \A s : /\ Existing(s)' = Existing(s)
             /\ Lookup(s)' = Lookup(s)
             /\ \A k : StateOf(s, k)' = StateOf(s, k)
  BY <1>3, SameScope
<1>5. ContextIsRight' /\ ArmedIsActive' /\ DuplicatesNeedOverlap'
  BY <1>3, <1>4 DEF ContextIsRight, ArmedIsActive, DuplicatesNeedOverlap
<1>6. /\ req'[r].scope = sc /\ req'[r].phase = "write" /\ req'[r].row = i
      /\ req'[r].loaded = IF i = req[r].row THEN req[r].loaded ELSE StateOf(sc, i)
  BY <1>1, <1>2 DEF TypeOK, Session
<1>7. \A q \in Requests \ {r} : req'[q] = req[q]
  BY <1>2 DEF TypeOK
<1>8. \A q \in Requests, s \in Scopes : Pending(q, s)' <=> Pending(q, s)
  BY <1>1, <1>3, <1>6, <1>7 DEF Pending
<1>9. LoneRequestsSeeTheTruth'
  <2> SUFFICES ASSUME NEW s \in Scopes \ overlap', NEW p \in Requests, Pending(p, s)'
               PROVE  /\ \A q \in Requests : Pending(q, s)' => q = p
                      /\ req'[p].row \in Lookup(s)
                      /\ req'[p].loaded = StateOf(s, req'[p].row)
                      /\ req'[p].phase # "deactivate" => req'[p].loaded # "active"
    BY <1>4 DEF LoneRequestsSeeTheTruth
  <2>1. /\ Pending(p, s) /\ s \in Scopes \ overlap
        /\ \A q \in Requests : Pending(q, s)' => q = p
    BY <1>3, <1>8 DEF LoneRequestsSeeTheTruth
  <2>2. /\ req[p].row \in Lookup(s)
        /\ req[p].loaded = StateOf(s, req[p].row)
        /\ req[p].phase # "deactivate" => req[p].loaded # "active"
    BY <2>1 DEF LoneRequestsSeeTheTruth
  <2>3. CASE p = r
    <3>1. s = sc
      BY <2>1, <2>3, <1>1 DEF Pending
    <3>2. i = req[r].row
      BY <2>1, <2>2, <2>3, <3>1, OnlyRow
    <3>3. QED
      BY <2>1, <2>2, <2>3, <3>1, <3>2, <1>3, <1>6
  <2>4. CASE p # r
    BY <2>1, <2>2, <2>4, <1>7
  <2>5. QED
    BY <2>3, <2>4
<1>10. QED
  BY <1>5, <1>9

\* The commit of an activation: on a scope that was never shared, the only
\* row becomes active.
LEMMA CommitActivateStep ==
  ASSUME SwitchInv, TypeOK', NEW r \in Requests, CommitActivate(r)
  PROVE  SwitchInv'
<1> USE DEF SwitchInv
<1>1. PICK sc \in Scopes : sc = req[r].scope
  BY DEF TypeOK, Session
<1>2. /\ req' = [req EXCEPT ![r] = Idle] /\ overlap' = overlap /\ context' = context
      /\ armed' = armed \cup {sc} /\ Pending(r, sc) /\ req[r].phase = "write"
  BY <1>1 DEF CommitActivate, evaluatorVars, Pending
<1>3. \A s \in Scopes \ {sc} : rows'[s] = rows[s]
  BY <1>1 DEF CommitActivate, TypeOK
<1>4. LoneRequestsSeeTheTruth'
  BY <1>1, <1>2, <1>3, EndKeepsTheOthers DEF Pending
<1>5. ContextIsRight'
  BY <1>2 DEF ContextIsRight
<1>6. \A s \in Scopes \ {sc} : Existing(s)' = Existing(s)
  BY <1>3, SameScope
<1>7. ASSUME sc \notin overlap
      PROVE  \E k \in Rows : Existing(sc)' = {k} /\ rows'[sc][k] = "active"
  <2>1. /\ req[r].row \in Lookup(sc) /\ req[r].loaded = StateOf(sc, req[r].row)
        /\ req[r].loaded # "active"
    BY <1>2, <1>7 DEF LoneRequestsSeeTheTruth
  <2>2. CASE req[r].row = NoRow
    <3>1. Existing(sc) = {}
      BY <2>1, <2>2, LookupFinds
    <3>2. PICK k \in Rows : rows' = [rows EXCEPT ![sc][k] = "active"]
      BY <1>1, <2>2 DEF CommitActivate
    <3>3. rows'[sc] = [rows[sc] EXCEPT ![k] = "active"]
      BY <3>2 DEF TypeOK
    <3>4. rows[sc] \in [Rows -> States] /\ \A n \in Rows : rows[sc][n] = "none"
      BY <3>1 DEF Existing, TypeOK
    <3>5. rows'[sc][k] = "active" /\ \A n \in Rows : n # k => rows'[sc][n] = "none"
      BY <3>3, <3>4
    <3>6. Existing(sc)' = {k}
      BY <3>5 DEF Existing
    <3>7. QED
      BY <3>5, <3>6
  <2>3. CASE req[r].row # NoRow
    <3>1. PICK k \in Rows : k = req[r].row /\ k \in Existing(sc)
      BY <2>1, <2>3, LookupFinds
    <3>2. Existing(sc) = {k}
      <4>1. \A n \in Existing(sc) : n = k
        BY <3>1, <1>7 DEF DuplicatesNeedOverlap
      <4>2. QED
        BY <3>1, <4>1
    <3>3. rows' = [rows EXCEPT ![sc][k] = "active"]
      BY <1>1, <2>1, <2>3, <3>1 DEF CommitActivate
    <3>4. rows'[sc] = [rows[sc] EXCEPT ![k] = "active"]
      BY <3>3 DEF TypeOK
    <3>5. rows'[sc][k] = "active" /\ \A n \in Rows : n # k => rows'[sc][n] = rows[sc][n]
      BY <3>4 DEF TypeOK
    <3>6. \A n \in Rows : n # k => rows[sc][n] = "none"
      BY <3>2 DEF Existing
    <3>7. Existing(sc)' = {k}
      BY <3>5, <3>6 DEF Existing
    <3>8. QED
      BY <3>5, <3>7
  <2>4. QED
    BY <2>2, <2>3
<1>8. ArmedIsActive'
  <2> SUFFICES ASSUME NEW s \in armed' \ overlap'
               PROVE  Existing(s)' # {} /\ \A k \in Existing(s)' : rows'[s][k] = "active"
    BY DEF ArmedIsActive
  <2>1. CASE s = sc
    BY <1>2, <1>7, <2>1
  <2>2. CASE s # sc
    <3>1. s \in Scopes /\ s \in armed \ overlap
      BY <1>2, <2>2 DEF TypeOK
    <3>2. QED
      BY <3>1, <2>2, <1>3, <1>6 DEF ArmedIsActive
  <2>3. QED
    BY <2>1, <2>2
<1>9. DuplicatesNeedOverlap'
  <2> SUFFICES ASSUME NEW s \in Scopes \ overlap' PROVE \A i, j \in Existing(s)' : i = j
    BY DEF DuplicatesNeedOverlap
  <2>1. CASE s = sc
    BY <1>2, <1>7, <2>1
  <2>2. CASE s # sc
    BY <1>2, <1>6, <2>2 DEF DuplicatesNeedOverlap
  <2>3. QED
    BY <2>1, <2>2
<1>10. QED
  BY <1>4, <1>5, <1>8, <1>9

\* The commit of a deactivation takes its scope out of the armed ones.
LEMMA CommitDeactivateStep ==
  ASSUME SwitchInv, TypeOK', NEW r \in Requests, CommitDeactivate(r)
  PROVE  SwitchInv'
<1> USE DEF SwitchInv
<1>1. PICK sc \in Scopes : sc = req[r].scope
  BY DEF TypeOK, Session
<1>2. /\ req' = [req EXCEPT ![r] = Idle] /\ overlap' = overlap /\ context' = context
      /\ armed' = armed \ {sc} /\ Pending(r, sc)
  BY <1>1 DEF CommitDeactivate, evaluatorVars, Pending
<1>3. \A s \in Scopes \ {sc} : rows'[s] = rows[s]
  BY <1>1 DEF CommitDeactivate, TypeOK
<1>4. LoneRequestsSeeTheTruth'
  BY <1>1, <1>2, <1>3, EndKeepsTheOthers DEF Pending
<1>5. ContextIsRight'
  BY <1>2 DEF ContextIsRight
<1>6. \A s \in Scopes \ {sc} : Existing(s)' = Existing(s)
  BY <1>3, SameScope
<1>7. ArmedIsActive'
  <2> SUFFICES ASSUME NEW s \in armed' \ overlap'
               PROVE  Existing(s)' # {} /\ \A k \in Existing(s)' : rows'[s][k] = "active"
    BY DEF ArmedIsActive
  <2>1. s # sc /\ s \in Scopes /\ s \in armed \ overlap
    BY <1>2 DEF TypeOK
  <2>2. QED
    BY <2>1, <1>3, <1>6 DEF ArmedIsActive
<1>8. ASSUME sc \notin overlap PROVE Existing(sc)' \subseteq Existing(sc)
  <2>1. req[r].row \in Lookup(sc)
    BY <1>2, <1>8 DEF LoneRequestsSeeTheTruth
  <2>2. rows' = [rows EXCEPT ![sc][req[r].row] = "inactive"]
    BY <1>1 DEF CommitDeactivate
  <2>3. rows'[sc] = [rows[sc] EXCEPT ![req[r].row] = "inactive"]
    BY <2>2 DEF TypeOK
  <2>4. \A n \in Rows : n # req[r].row => rows'[sc][n] = rows[sc][n]
    BY <2>3 DEF TypeOK
  <2>5. \A n \in Rows : n = req[r].row => n \in Existing(sc)
    BY <2>1, LookupFinds
  <2>6. QED
    BY <2>4, <2>5 DEF Existing
<1>9. DuplicatesNeedOverlap'
  <2> SUFFICES ASSUME NEW s \in Scopes \ overlap' PROVE \A i, j \in Existing(s)' : i = j
    BY DEF DuplicatesNeedOverlap
  <2>1. Existing(s)' \subseteq Existing(s)
    BY <1>2, <1>6, <1>8
  <2>2. QED
    BY <1>2, <2>1 DEF DuplicatesNeedOverlap
<1>10. QED
  BY <1>4, <1>5, <1>7, <1>9

\* A rolled back request leaves everything but its session as it was.
LEMMA RollbackStep ==
  ASSUME SwitchInv, TypeOK', NEW r \in Requests, Rollback(r)
  PROVE  SwitchInv'
<1>1. /\ req' = [req EXCEPT ![r] = Idle] /\ rows' = rows /\ overlap' = overlap
      /\ armed' = armed /\ context' = context
  BY DEF Rollback, evaluatorVars
<1>2. \A s : Existing(s)' = Existing(s)
  BY <1>1, SameScope
<1>3. LoneRequestsSeeTheTruth'
  BY <1>1, EndKeepsTheOthers
<1>4. ContextIsRight' /\ ArmedIsActive' /\ DuplicatesNeedOverlap'
  BY <1>1, <1>2 DEF SwitchInv, ContextIsRight, ArmedIsActive, DuplicatesNeedOverlap
<1>5. QED
  BY <1>3, <1>4 DEF SwitchInv

\* A step of the evaluator reads the switches and writes only its context.
LEMMA EvaluatorStep ==
  ASSUME SwitchInv, TypeOK', CheckEntry \/ \E g \in Strategies : BuildContext(g)
  PROVE  SwitchInv'
<1> USE DEF SwitchInv
<1>1. rows' = rows /\ req' = req /\ armed' = armed /\ overlap' = overlap
  BY DEF CheckEntry, BuildContext
<1>2. \A s : /\ Existing(s)' = Existing(s)
             /\ Lookup(s)' = Lookup(s)
             /\ \A k : StateOf(s, k)' = StateOf(s, k)
  BY <1>1, SameScope
<1>3. ArmedIsActive' /\ DuplicatesNeedOverlap'
  BY <1>1, <1>2 DEF ArmedIsActive, DuplicatesNeedOverlap
<1>4. LoneRequestsSeeTheTruth'
  BY <1>1, <1>2 DEF LoneRequestsSeeTheTruth, Pending
<1>5. ContextIsRight'
  <2>1. CASE CheckEntry
    BY <2>1 DEF CheckEntry, NoContext, ContextIsRight
  <2>2. ASSUME NEW g \in Strategies, BuildContext(g) PROVE ContextIsRight'
    <3>1. PICK b \in Blocked(g) :
            context' = [strategy |-> g, blocked |-> b, armed |-> armed \cap {Global, g}]
      BY <2>2 DEF BuildContext
    <3>2. ASSUME ~b, NEW s \in armed \cap {Global, g}, s \notin overlap PROVE FALSE
      <4>1. PICK i \in Lookup(Global), j \in Lookup(g) :
              StateOf(Global, i) # "active" /\ StateOf(g, j) # "active"
        BY <3>2 DEF Blocked
      <4>2. PICK k \in Lookup(s) : StateOf(s, k) # "active"
        BY <3>2, <4>1
      <4>3. Existing(s) # {} /\ \A n \in Existing(s) : rows[s][n] = "active"
        BY <3>2 DEF ArmedIsActive
      <4>4. k \in Existing(s) /\ k # NoRow
        BY <4>2, <4>3 DEF Lookup, Existing
      <4>5. QED
        BY <4>2, <4>3, <4>4 DEF StateOf
    <3>3. QED
      BY <1>1, <3>1, <3>2 DEF ContextIsRight
  <2>3. QED
    BY <2>1, <2>2
<1>6. QED
  BY <1>3, <1>4, <1>5

\* Every step keeps the invariant.
LEMMA NextSwitch == SwitchInv /\ [Next]_vars => SwitchInv'
<1> SUFFICES ASSUME SwitchInv, [Next]_vars PROVE SwitchInv'
  OBVIOUS
<1>1. TypeOK'
  BY NextType DEF SwitchInv
<1>2. ASSUME NEW r \in Requests, NEW sc \in Scopes, BeginActivate(r, sc) \/ BeginDeactivate(r, sc)
      PROVE  SwitchInv'
  BY <1>1, <1>2, BeginStep DEF BeginActivate, BeginDeactivate
<1>3. CASE UNCHANGED vars
  <2>1. rows' = rows /\ \A s : Existing(s)' = Existing(s) /\ Lookup(s)' = Lookup(s)
                            /\ \A k : StateOf(s, k)' = StateOf(s, k)
    BY <1>3, SameScope DEF vars
  <2>2. QED
    BY <1>1, <1>3, <2>1 DEF vars, SwitchInv, ContextIsRight, ArmedIsActive,
       DuplicatesNeedOverlap, LoneRequestsSeeTheTruth, Pending
<1>4. QED
  BY <1>1, <1>2, <1>3, LookupAgainStep, CommitActivateStep, CommitDeactivateStep,
     RollbackStep, EvaluatorStep DEF Next

\* The inductive invariant: an armed switch that was never worked on twice at
\* once is active on its only row, and whoever looked it up saw that.
THEOREM SwitchInvariant == Spec => []SwitchInv
<1>1. Init => SwitchInv
  <2> SUFFICES ASSUME Init PROVE SwitchInv
    OBVIOUS
  <2>1. TypeOK
    BY DEF Init, TypeOK, Idle, Session
  <2>2. \A sc \in Scopes : Existing(sc) = {}
    BY DEF Init, Existing
  <2>3. QED
    BY <2>1, <2>2 DEF Init, SwitchInv, ContextIsRight, ArmedIsActive, NoContext, Idle,
       DuplicatesNeedOverlap, LoneRequestsSeeTheTruth, Pending
<1>2. QED
  BY <1>1, NextSwitch, PTL DEF Spec

\* kill_switches gets a second row for a scope only if two requests worked on
\* the scope at the same time.
THEOREM RowsAreUnique == Spec => []DuplicatesNeedOverlap
<1>1. SwitchInv => DuplicatesNeedOverlap
  BY DEF SwitchInv
<1>2. QED
  BY <1>1, SwitchInvariant, PTL

\* An entry whose context was built while a switch was armed does not pass
\* the checks, unless two requests once worked on that switch at once.
THEOREM ArmedSwitchesBlock == Spec => ArmedSwitchBlocks
<1>1. SwitchInv /\ [Next]_vars => [\A g \in passed' \ passed : context.armed \subseteq overlap]_vars
  <2> SUFFICES ASSUME SwitchInv, Next, NEW g \in passed' \ passed
               PROVE  context.armed \subseteq overlap
    OBVIOUS
  <2>1. CheckEntry
    BY DEF Next, BeginActivate, BeginDeactivate, Begin, LookupAgain, CommitActivate,
       CommitDeactivate, Rollback, BuildContext, evaluatorVars
  <2>2. QED
    BY <2>1 DEF CheckEntry, SwitchInv, ContextIsRight
<1>2. QED
  BY <1>1, SwitchInvariant, PTL DEF Spec, ArmedSwitchBlocks

-----------------------------------------------------------------------------
(* The limits: exposures *)

HIDE SwitchAssumption DEF Scopes, Rows, States, NoRow

LEMMA QuotientType ==
  ASSUME NEW a \in Nat, NEW b \in Nat \ {0}
  PROVE  a \div b \in Nat
OBVIOUS

\* A row is worth a number,
LEMMA ValueType ==
  ASSUME LTypeOK, NEW s \in Traders, NEW x \in Symbols
  PROVE  /\ books[s][x] \in Position /\ books[s][x].qty \in Nat /\ books[s][x].mark \in Nat
         /\ books[s][x].cost \in Int /\ books[s][x].realized \in Int
         /\ ValueOf(books[s][x]) \in Int
<1>1. books[s][x] \in Position
  BY DEF LTypeOK
<1>2. QED
  BY <1>1 DEF Position, ValueOf

\* and so are the rows of a symbol, of a strategy, and all of them.
LEMMA ExposureType ==
  ASSUME LTypeOK
  PROVE  /\ \A x \in Symbols : SymbolExposure(x) \in Int
         /\ \A s \in Traders : StrategyExposure(s) \in Int
         /\ TotalExposure \in Int /\ Equity \in Int
<1>1. ASSUME NEW x \in Symbols PROVE SymbolExposure(x) \in Int
  <2> DEFINE f == [s \in Traders |-> ValueOf(books[s][x])]
  <2>1. \A s \in Traders : f[s] \in Int
    BY ValueType
  <2> HIDE DEF f
  <2>2. SumFunctionOnSet(f, Traders) \in Int
    BY <2>1, LimitsAssumption, SumType
  <2>3. QED
    BY <2>2 DEF f, SymbolExposure
<1>2. ASSUME NEW s \in Traders PROVE StrategyExposure(s) \in Int
  <2> DEFINE f == [x \in Symbols |-> ValueOf(books[s][x])]
  <2>1. \A x \in Symbols : f[x] \in Int
    BY ValueType
  <2> HIDE DEF f
  <2>2. SumFunctionOnSet(f, Symbols) \in Int
    BY <2>1, LimitsAssumption, SumType
  <2>3. QED
    BY <2>2 DEF f, StrategyExposure
<1>3. TotalExposure \in Int
  <2> DEFINE f == [x \in Symbols |-> SymbolExposure(x)]
  <2>1. \A x \in Symbols : f[x] \in Int
    BY <1>1
  <2> HIDE DEF f
  <2>2. SumFunctionOnSet(f, Symbols) \in Int
    BY <2>1, LimitsAssumption, SumType
  <2>3. QED
    BY <2>2 DEF f, TotalExposure
<1>4. QED
  BY <1>1, <1>2, <1>3 DEF Equity, LTypeOK

LEMMA ContextType ==
  ASSUME LTypeOK
  PROVE  RiskContext \in Contexts
<1>1. Drawdown \in [available : BOOLEAN, peak : Int, equity : Int]
  <2>1. DefaultEquity \in Int
    BY LimitsAssumption
  <2>2. CASE ~ready
    BY <2>1, <2>2 DEF Drawdown, CurrentEquity, None
  <2>3. CASE ready
    <3>1. CurrentEquity = <<Equity>> /\ CurrentEquity # <<>> /\ CurrentEquity[1] = Equity /\ Equity \in Int
      BY <2>3, ExposureType DEF CurrentEquity, Some
    <3>2. PeakEquity[1] \in Int
      BY <3>1 DEF PeakEquity, LTypeOK, None
    <3>3. QED
      BY <3>1, <3>2 DEF Drawdown, None
  <2>4. QED
    BY <2>2, <2>3 DEF LTypeOK
<1>2. \A s \in Traders : PositionsOf(s) \in Nat
  <2> SUFFICES ASSUME NEW s \in Traders PROVE PositionsOf(s) \in Nat
    OBVIOUS
  <2>1. IsFiniteSet({x \in Symbols : books[s][x].qty > 0})
    BY LimitsAssumption, FS_Subset
  <2>2. QED
    BY <2>1, FS_CardinalityType DEF PositionsOf
<1>3. DefaultEquity \in Int /\ 0 \in Int /\ 0 \in Nat
  BY LimitsAssumption
<1>4. /\ (IF ready THEN Equity ELSE DefaultEquity) \in Int
      /\ [x \in Symbols |-> IF ready THEN SymbolExposure(x) ELSE 0] \in [Symbols -> Int]
      /\ [s \in Traders |-> IF ready THEN StrategyExposure(s) ELSE 0] \in [Traders -> Int]
      /\ (IF ready THEN TotalExposure ELSE 0) \in Int
      /\ [s \in Traders |-> IF ready THEN PositionsOf(s) ELSE 0] \in [Traders -> Nat]
      /\ TodaysLoss \in Int
  BY <1>2, <1>3, ExposureType DEF TodaysLoss, LTypeOK
<1>5. config \in RiskConfigs /\ price \in [Symbols -> Prices] /\ halted \in BOOLEAN
  BY DEF LTypeOK
<1>6. QED
  BY <1>1, <1>4, <1>5 DEF RiskContext, Contexts

\* The price of a share and the quantity of an order.
LEMMA SizeType ==
  ASSUME LTypeOK, NEW s \in Traders, NEW x \in Symbols
  PROVE  price[x] \in Nat \ {0} /\ OrderQty(SizingOf[s], price[x]) \in Nat
<1> DEFINE z == SizingOf[s]
           p == price[x]
<1>1. p \in Nat \ {0} /\ z.value \in Nat /\ z.own \in Nat /\ z.stop \in Nat /\ InitialCash \in Nat
  BY LimitsAssumption DEF LTypeOK
<1> DEFINE v == z.value
           o == z.own
           t == z.stop
<1>2. v \div p \in Nat
  BY <1>1, QuotientType
<1>3. \A n \in Nat : ((InitialCash * n) \div 100) \in Nat
  BY <1>1, QuotientType
<1>4. ((InitialCash * v) \div 100) \div p \in Nat
  BY <1>1, <1>3, QuotientType
<1>5. t # p => (IF p > t THEN p - t ELSE t - p) \in Nat \ {0}
  BY <1>1
<1>6. t # p => ((InitialCash * o) \div 100) \div (IF p > t THEN p - t ELSE t - p) \in Nat
  BY <1>1, <1>3, <1>5, QuotientType
<1>7. QED
  BY <1>1, <1>2, <1>4, <1>6 DEF OrderQty

\* One row changes, and with it what is exposed in its symbol, by its
\* strategy, and altogether.
LEMMA Moves ==
  ASSUME LTypeOK, NEW s \in Traders, NEW x \in Symbols, NEW row \in Position,
         books' = [books EXCEPT ![s][x] = row], NEW d \in Int,
         d = ValueOf(row) - ValueOf(books[s][x])
  PROVE  /\ SymbolExposure(x)' = SymbolExposure(x) + d
         /\ \A y \in Symbols \ {x} : SymbolExposure(y)' = SymbolExposure(y)
         /\ StrategyExposure(s)' = StrategyExposure(s) + d
         /\ \A r \in Traders \ {s} : StrategyExposure(r)' = StrategyExposure(r)
         /\ TotalExposure' = TotalExposure + d
<1>0. /\ IsFiniteSet(Traders) /\ IsFiniteSet(Symbols)
      /\ \A r \in Traders, y \in Symbols : ValueOf(books[r][y]) \in Int
      /\ ValueOf(row) \in Int
  BY LimitsAssumption, ValueType DEF Position, ValueOf
<1>a. IsFiniteSet(Traders)
  BY <1>0
<1>b. IsFiniteSet(Symbols)
  BY <1>0
<1>1. \A r \in Traders, y \in Symbols : books'[r][y] = IF r = s /\ y = x THEN row ELSE books[r][y]
  BY DEF LTypeOK
<1> DEFINE V(r, y)  == ValueOf(books[r][y])
           W(r, y)  == ValueOf(books'[r][y])
<1>2. \A r \in Traders, y \in Symbols :
        V(r, y) \in Int /\ W(r, y) \in Int /\ W(r, y) = IF r = s /\ y = x THEN V(s, x) + d ELSE V(r, y)
  BY <1>0, <1>1
<1>3. /\ \A y : SymbolExposure(y) = SumFunctionOnSet([r \in Traders |-> V(r, y)], Traders)
      /\ \A y : SymbolExposure(y)' = SumFunctionOnSet([r \in Traders |-> W(r, y)], Traders)
      /\ \A r : StrategyExposure(r) = SumFunctionOnSet([y \in Symbols |-> V(r, y)], Symbols)
      /\ \A r : StrategyExposure(r)' = SumFunctionOnSet([y \in Symbols |-> W(r, y)], Symbols)
  BY DEF SymbolExposure, StrategyExposure, ValueOf
<1> HIDE DEF V, W
<1>4. SymbolExposure(x)' = SymbolExposure(x) + d
  <2> DEFINE f == [r \in Traders |-> V(r, x)]
             g == [r \in Traders |-> W(r, x)]
  <2>1. /\ \A r \in Traders : f[r] \in Int /\ g[r] \in Int
        /\ \A r \in Traders \ {s} : f[r] = g[r]
        /\ g[s] - f[s] = d
    BY <1>2
  <2> HIDE DEF f, g
  <2>2. SumFunctionOnSet(g, Traders) = SumFunctionOnSet(f, Traders) + (g[s] - f[s])
    BY ONLY <1>a, <1>b, <2>1, SumChange, s \in Traders, x \in Symbols
  <2>3. QED
    BY <1>3, <2>1, <2>2 DEF f, g
<1>5. ASSUME NEW y \in Symbols \ {x} PROVE SymbolExposure(y)' = SymbolExposure(y)
  <2>1. [r \in Traders |-> V(r, y)] = [r \in Traders |-> W(r, y)]
    BY <1>2
  <2>2. QED
    BY <1>3, <2>1
<1>6. StrategyExposure(s)' = StrategyExposure(s) + d
  <2> DEFINE f == [y \in Symbols |-> V(s, y)]
             g == [y \in Symbols |-> W(s, y)]
  <2>1. /\ \A y \in Symbols : f[y] \in Int /\ g[y] \in Int
        /\ \A y \in Symbols \ {x} : f[y] = g[y]
        /\ g[x] - f[x] = d
    BY <1>2
  <2> HIDE DEF f, g
  <2>2. SumFunctionOnSet(g, Symbols) = SumFunctionOnSet(f, Symbols) + (g[x] - f[x])
    BY ONLY <1>a, <1>b, <2>1, SumChange, s \in Traders, x \in Symbols
  <2>3. QED
    BY <1>3, <2>1, <2>2 DEF f, g
<1>7. ASSUME NEW r \in Traders \ {s} PROVE StrategyExposure(r)' = StrategyExposure(r)
  <2>1. [y \in Symbols |-> V(r, y)] = [y \in Symbols |-> W(r, y)]
    BY <1>2
  <2>2. QED
    BY <1>3, <2>1
<1>8. TotalExposure' = TotalExposure + d
  <2> DEFINE f == [y \in Symbols |-> SymbolExposure(y)]
             g == [y \in Symbols |-> SymbolExposure(y)']
  <2>1. /\ \A y \in Symbols : f[y] \in Int /\ g[y] \in Int
        /\ \A y \in Symbols \ {x} : f[y] = g[y]
        /\ g[x] - f[x] = d
    <3>1. \A y \in Symbols : SymbolExposure(y) \in Int
      BY ExposureType
    <3>2. QED
      BY <3>1, <1>4, <1>5
  <2>2. TotalExposure = SumFunctionOnSet(f, Symbols) /\ TotalExposure' = SumFunctionOnSet(g, Symbols)
    BY DEF TotalExposure
  <2> HIDE DEF f, g
  <2>3. SumFunctionOnSet(g, Symbols) = SumFunctionOnSet(f, Symbols) + (g[x] - f[x])
    BY ONLY <1>a, <1>b, <2>1, SumChange, s \in Traders, x \in Symbols
  <2>4. QED
    BY <2>1, <2>2, <2>3
<1>9. QED
  BY <1>4, <1>5, <1>6, <1>7, <1>8

-----------------------------------------------------------------------------
(* The limits: orders *)

LEMMA TailOf ==
  ASSUME NEW S, NEW q \in Seq(S), q # <<>>
  PROVE  /\ Head(q) = q[1] /\ 1 \in DOMAIN q /\ Head(q) \in S /\ Tail(q) \in Seq(S)
         /\ \A i \in DOMAIN Tail(q) : Tail(q)[i] = q[i + 1] /\ i + 1 \in DOMAIN q /\ i + 1 # 1 /\ i \in Int
<1>1. Len(q) \in Nat \ {0} /\ DOMAIN q = 1..Len(q) /\ \A i \in 1..Len(q) : q[i] \in S
  OBVIOUS
<1>2. Tail(q) \in Seq(S) /\ DOMAIN Tail(q) = 1..(Len(q) - 1) /\ \A i \in 1..(Len(q) - 1) : Tail(q)[i] = q[i + 1]
  BY <1>1
<1>3. QED
  BY <1>1, <1>2

LEMMA AppendOf ==
  ASSUME NEW S, NEW q \in Seq(S), NEW e \in S
  PROVE  /\ Append(q, e) \in Seq(S)
         /\ \A i \in DOMAIN Append(q, e) : \/ (i \in DOMAIN q /\ Append(q, e)[i] = q[i])
                                           \/ (i \notin DOMAIN q /\ i = Len(q) + 1 /\ Append(q, e)[i] = e)
<1>1. Len(q) \in Nat /\ DOMAIN q = 1..Len(q)
  OBVIOUS
<1>2. Append(q, e) \in Seq(S) /\ DOMAIN Append(q, e) = 1..(Len(q) + 1)
  BY <1>1
<1>3. QED
  BY <1>1, <1>2

\* What the execution of the oldest approval does to its row: nothing, the
\* purchase of what the order asks for, or the sale of what the row has of it.
Trades(o, at, qty) ==
  LET row == books[o.strategy][o.symbol]  sold == IF qty < row.qty THEN qty ELSE row.qty IN
  \/ UNCHANGED <<books, cash, loss>>
  \/ /\ o.type = "entry" /\ ready /\ qty > 0 /\ qty * at <= cash /\ cash' = cash - qty * at
     /\ Settle(o.strategy, o.symbol, Bought(row, qty, at))
  \/ /\ o.type = "exit" /\ ready /\ qty > 0 /\ cash' = cash + sold * at
     /\ Settle(o.strategy, o.symbol, Sold(row, sold, at))

LEMMA ExecuteTrades ==
  ASSUME LTypeOK, Execute, NEW o, o = Head(orders), NEW at, at = price[o.symbol],
         NEW qty, qty = OrderQty(SizingOf[o.strategy], at)
  PROVE  /\ orders # <<>> /\ orders' = Tail(orders) /\ o = orders[1] /\ o \in Approval
         /\ o.type \in {"entry", "exit"} /\ o.strategy \in Traders /\ o.symbol \in Symbols
         /\ at \in Nat \ {0} /\ qty \in Nat
         /\ UNCHANGED <<ready, config, price, peak, halted, signals, changes>>
         /\ Trades(o, at, qty)
<1>1. orders # <<>> /\ orders' = Tail(orders) /\ UNCHANGED <<ready, config, price, peak, halted, signals, changes>>
  BY DEF Execute
<1>2. o = orders[1] /\ o \in Approval
  BY <1>1, TailOf DEF LTypeOK
<1>3. o.type \in {"entry", "exit"} /\ o.strategy \in Traders /\ o.symbol \in Symbols
  BY <1>2 DEF Approval
<1>4. at \in Nat \ {0} /\ qty \in Nat
  BY <1>3, SizeType
<1>5. cash \in Nat /\ qty * at \in Int /\ ready \in BOOLEAN
  BY <1>4 DEF LTypeOK
<1>6. Trades(o, at, qty)
  <2> DEFINE row == books[o.strategy][o.symbol]
             sold == IF qty < row.qty THEN qty ELSE row.qty
  <2>1. IF ~ready \/ qty <= 0 \/ (o.type = "entry" /\ qty * at > cash)
        THEN UNCHANGED <<books, cash, loss>>
        ELSE IF o.type = "entry"
        THEN cash' = cash - qty * at /\ Settle(o.strategy, o.symbol, Bought(row, qty, at))
        ELSE cash' = cash + sold * at /\ Settle(o.strategy, o.symbol, Sold(row, sold, at))
    BY DEF Execute
  <2> HIDE DEF row, sold
  <2>2. ~(qty <= 0) => qty > 0
    BY <1>4
  <2>3. ~(qty * at > cash) => qty * at <= cash
    BY <1>5
  <2>4. \/ UNCHANGED <<books, cash, loss>>
        \/ /\ o.type = "entry" /\ ready /\ qty > 0 /\ qty * at <= cash /\ cash' = cash - qty * at
           /\ Settle(o.strategy, o.symbol, Bought(row, qty, at))
        \/ /\ o.type = "exit" /\ ready /\ qty > 0 /\ cash' = cash + sold * at
           /\ Settle(o.strategy, o.symbol, Sold(row, sold, at))
    BY <1>3, <2>1, <2>2, <2>3, Zenon
  <2>5. QED
    BY <2>4, Zenon DEF Trades, row, sold
<1>7. QED
  BY <1>1, <1>2, <1>3, <1>4, <1>6

\* A purchase adds to a row what it costs, when the row carries the price,
LEMMA Buying ==
  ASSUME LTypeOK, NEW s \in Traders, NEW x \in Symbols, NEW at \in Nat \ {0}, NEW qty \in Nat, qty > 0,
         NEW row, row = books[s][x], Settle(s, x, Bought(row, qty, at))
  PROVE  /\ loss' \in Int /\ Bought(row, qty, at) \in Position /\ Bought(row, qty, at).qty > 0
         /\ books' = [books EXCEPT ![s][x] = Bought(row, qty, at)]
         /\ row.qty = 0 \/ row.mark = at => ValueOf(Bought(row, qty, at)) - ValueOf(row) = qty * at
<1>1. /\ row \in Position /\ row.qty \in Nat /\ row.mark \in Nat /\ row.cost \in Int /\ row.realized \in Int
      /\ loss \in Int
  BY ValueType DEF LTypeOK
<1> DEFINE new == Bought(row, qty, at)
<1>2. qty * at \in Int /\ row.qty + qty \in Nat /\ row.qty + qty > 0 /\ row.qty + qty # 0
  BY <1>1
<1>3. row.qty = 0 => new = [qty |-> qty, mark |-> at, cost |-> qty * at, realized |-> 0]
  BY DEF Bought
<1>4. row.qty # 0 => new = [qty |-> row.qty + qty, mark |-> row.mark, cost |-> row.cost + qty * at,
                            realized |-> row.realized]
  BY <1>1 DEF Bought, Position
<1>5. new \in Position /\ new.qty > 0 /\ new.qty # 0 /\ new.realized \in Int
  BY <1>1, <1>2, <1>3, <1>4 DEF Position
<1>6. row.qty = 0 \/ row.mark = at => ValueOf(new) - ValueOf(row) = qty * at
  <2>1. CASE row.qty = 0
    BY <1>1, <1>2, <1>3, <2>1 DEF ValueOf
  <2>2. CASE row.qty # 0 /\ row.mark = at
    <3>1. new.qty = row.qty + qty /\ new.mark = at
      BY <1>4, <2>2
    <3>2. (row.qty + qty) * at - row.qty * at = qty * at
      BY <1>1
    <3>3. QED
      BY <2>2, <3>1, <3>2 DEF ValueOf
  <2>3. QED
    BY <2>1, <2>2
<1> HIDE DEF new
<1>7. Settle(s, x, new)
  BY DEF new
<1>8. QED
  BY <1>1, <1>5, <1>6, <1>7 DEF Settle, new

\* and a sale takes from it what it brings.
LEMMA Selling ==
  ASSUME LTypeOK, NEW s \in Traders, NEW x \in Symbols, NEW at \in Nat \ {0}, NEW sold \in Nat,
         NEW row, row = books[s][x], row.qty > 0, sold <= row.qty, Settle(s, x, Sold(row, sold, at))
  PROVE  /\ loss' \in Int
         /\ \E new \in Position :
              /\ books' = [books EXCEPT ![s][x] = new]
              /\ row.mark = at => ValueOf(new) - ValueOf(row) = -(sold * at)
<1>1. /\ row \in Position /\ row.qty \in Nat /\ row.mark \in Nat /\ row.cost \in Int /\ row.realized \in Int
      /\ loss \in Int
  BY ValueType DEF LTypeOK
<1> DEFINE left == Sold(row, sold, at)
           cost == (row.cost * sold) \div row.qty
           new  == IF left.qty = 0 THEN NoPosition ELSE left
<1>2. cost \in Int
  <2>1. row.cost * sold \in Int /\ row.qty \in Nat \ {0}
    BY <1>1
  <2>2. QED
    BY <2>1
<1> HIDE DEF left, cost
<1>a. left = [row EXCEPT !.qty = @ - sold, !.cost = @ - cost, !.realized = @ + sold * at - cost]
  BY DEF Sold, left, cost
<1>3. left = [qty |-> row.qty - sold, mark |-> row.mark, cost |-> row.cost - cost,
              realized |-> row.realized + sold * at - cost]
  BY <1>1, <1>a DEF Position
<1>4. row.qty - sold \in Nat /\ row.cost - cost \in Int /\ row.realized + sold * at - cost \in Int
  BY <1>1, <1>2
<1>5. left \in Position /\ left.realized \in Int /\ left.qty = row.qty - sold /\ left.mark = row.mark
  BY <1>1, <1>3, <1>4 DEF Position
<1>6. new \in Position
  BY <1>5 DEF NoPosition, Position
<1>7. row.mark = at => ValueOf(new) - ValueOf(row) = -(sold * at)
  <2> SUFFICES ASSUME row.mark = at PROVE ValueOf(new) - ValueOf(row) = -(sold * at)
    OBVIOUS
  <2>1. ValueOf(new) = (row.qty - sold) * at
    <3>1. CASE left.qty = 0
      BY <1>4, <1>5, <3>1 DEF NoPosition, ValueOf
    <3>2. CASE left.qty # 0
      BY <1>5, <3>2 DEF ValueOf
    <3>3. QED
      BY <3>1, <3>2
  <2>2. (row.qty - sold) * at - row.qty * at = -(sold * at)
    BY <1>1
  <2>3. QED
    BY <2>1, <2>2 DEF ValueOf
<1>8. loss' \in Int /\ books' = [books EXCEPT ![s][x] = new]
  BY <1>1, <1>5 DEF Settle, left
<1>9. QED
  BY <1>6, <1>7, <1>8

\* Approvals are not touched by what moves the books, as long as the rows that
\* are open stay open.
LEMMA ApprovalsStay ==
  ASSUME ExitsHaveRows, EntriesStand, orders' = orders,
         \A s \in Traders, x \in Symbols : books[s][x].qty > 0 => books'[s][x].qty > 0,
         orders \in Seq(Approval)
  PROVE  ExitsHaveRows' /\ EntriesStand'
<1>0. \A i \in DOMAIN orders : orders[i] \in Approval
  OBVIOUS
<1>1. \A i \in DOMAIN orders : orders[i].strategy \in Traders /\ orders[i].symbol \in Symbols
  BY <1>0 DEF Approval
<1>2. ExitsHaveRows'
  BY <1>1 DEF ExitsHaveRows
<1>3. EntriesStand'
  BY DEF EntriesStand
<1>4. QED
  BY <1>2, <1>3

\* A new approval waits behind them: an exit that none waits for, or an entry
\* that passed the checks.
LEMMA ApprovalComes ==
  ASSUME LimitsInv, NEW e \in Approval, orders' = Append(orders, e), books' = books,
         e.type = "exit" => /\ books[e.strategy][e.symbol].qty > 0
                            /\ ~\E i \in DOMAIN orders : orders[i].type = "exit" /\ orders[i].strategy = e.strategy
                                                         /\ orders[i].symbol = e.symbol,
         e.type = "entry" => Approved(e)
  PROVE  orders' \in Seq(Approval) /\ ExitsHaveRows' /\ EntriesStand'
<1>1. orders \in Seq(Approval) /\ ExitsHaveRows /\ EntriesStand
  BY DEF LimitsInv, LTypeOK
<1>2. /\ orders' \in Seq(Approval)
      /\ \A i \in DOMAIN orders' : \/ (i \in DOMAIN orders /\ orders'[i] = orders[i])
                                   \/ (i \notin DOMAIN orders /\ i = Len(orders) + 1 /\ orders'[i] = e)
  BY <1>1, AppendOf
<1>3. ExitsHaveRows'
  <2> SUFFICES ASSUME NEW i \in DOMAIN orders', orders'[i].type = "exit"
               PROVE  /\ books[orders'[i].strategy][orders'[i].symbol].qty > 0
                      /\ \A j \in DOMAIN orders' :
                           orders'[j].type = "exit" /\ orders'[j].strategy = orders'[i].strategy
                           /\ orders'[j].symbol = orders'[i].symbol => j = i
    BY DEF ExitsHaveRows
  <2>1. CASE i \in DOMAIN orders /\ orders'[i] = orders[i]
    <3>1. books[orders[i].strategy][orders[i].symbol].qty > 0
      BY <1>1, <2>1 DEF ExitsHaveRows
    <3>2. \A j \in DOMAIN orders : orders[j].type = "exit" /\ orders[j].strategy = orders[i].strategy
                                   /\ orders[j].symbol = orders[i].symbol => j = i
      BY <1>1, <2>1 DEF ExitsHaveRows
    <3>3. ~(e.type = "exit" /\ e.strategy = orders[i].strategy /\ e.symbol = orders[i].symbol)
      BY <2>1
    <3>4. QED
      BY <1>2, <2>1, <3>1, <3>2, <3>3, ZenonT(30)
  <2>2. CASE i \notin DOMAIN orders /\ i = Len(orders) + 1 /\ orders'[i] = e
    <3>1. \A j \in DOMAIN orders : ~(orders[j].type = "exit" /\ orders[j].strategy = e.strategy
                                      /\ orders[j].symbol = e.symbol)
      BY <2>2
    <3>2. QED
      BY <1>2, <2>2, <3>1, ZenonT(30)
  <2>3. QED
    BY <1>2, <2>1, <2>2
<1>4. EntriesStand'
  BY <1>1, <1>2, Zenon DEF EntriesStand
<1>5. QED
  BY <1>2, <1>3, <1>4

LEMMA QueueKeeps ==
  ASSUME LimitsInv, NEW type \in {"entry", "exit"}, NEW s \in Traders, NEW x \in Symbols,
         NEW status \in {"rejected", "modified", "approved"}, Queue(type, s, x, status),
         type = "exit" => /\ books[s][x].qty > 0
                          /\ ~\E i \in DOMAIN orders : orders[i].type = "exit" /\ orders[i].strategy = s
                                                       /\ orders[i].symbol = x,
         type = "entry" => \E time \in Times : status = Decision(RiskContext, s, x, time)
  PROVE  LimitsInv'
<1> DEFINE value == ProposedValue(SizingOf[s], RiskContext.equity, price[x])
           e == [type |-> type, strategy |-> s, symbol |-> x, status |-> status,
                 context |-> RiskContext, proposed |-> value]
<1>0. LTypeOK
  BY DEF LimitsInv
<1>1. RiskContext \in Contexts /\ RiskContext.equity \in Int /\ RiskContext.price = price
  <2>1. RiskContext \in Contexts
    BY <1>0, ContextType
  <2>2. RiskContext.equity \in Int
    BY <2>1 DEF Contexts
  <2>3. QED
    BY <2>1, <2>2 DEF RiskContext
<1>2. value \in Int
  <2>1. SizingOf[s].value \in Int /\ price[x] \in Int
    BY <1>0, SizeType, LimitsAssumption
  <2> DEFINE v == SizingOf[s].value
             q == RiskContext.equity
  <2>2. (q * v) \div 100 \in Int /\ v * price[x] \in Int
    BY <1>1, <2>1
  <2>3. QED
    BY <2>1, <2>2 DEF ProposedValue
<1> HIDE DEF value
<1>3. status # "rejected" => e \in Approval
  BY <1>1, <1>2 DEF Approval
<1>4. type = "entry" => Approved(e)
  BY <1>1 DEF Approved, value
<1>5. /\ orders' = IF status = "rejected" THEN orders ELSE Append(orders, e)
      /\ signals' \in 0..MaxSignals
      /\ UNCHANGED <<ready, config, price, books, cash, peak, loss, halted, changes>>
  BY <1>0, LimitsAssumption DEF Queue, LTypeOK, value
<1>6. orders' \in Seq(Approval) /\ ExitsHaveRows' /\ EntriesStand'
  <2>1. CASE status = "rejected"
    BY <1>0, <1>5, <2>1, ApprovalsStay DEF LimitsInv, LTypeOK
  <2>2. CASE status # "rejected"
    <3>1. e \in Approval /\ orders' = Append(orders, e) /\ books' = books
      BY <1>3, <1>5, <2>2
    <3>2. e.type = type /\ e.strategy = s /\ e.symbol = x
      OBVIOUS
    <3> HIDE DEF e
    <3>3. QED
      BY <1>4, <3>1, <3>2, ApprovalComes
  <2>3. QED
    BY <2>1, <2>2
<1>7. QED
  BY <1>0, <1>5, <1>6 DEF LimitsInv, LTypeOK

\* A trade leaves a row, an open one when it is a purchase.
LEMMA TradeKeeps ==
  ASSUME LTypeOK, NEW o \in Approval, NEW at \in Nat \ {0}, NEW qty \in Nat, Trades(o, at, qty),
         o.type = "exit" => books[o.strategy][o.symbol].qty > 0
  PROVE  /\ cash' \in Nat /\ loss' \in Int
         /\ \/ books' = books
            \/ \E new \in Position : /\ books' = [books EXCEPT ![o.strategy][o.symbol] = new]
                                     /\ o.type # "exit" => new.qty > 0
<1> DEFINE s    == o.strategy
           x    == o.symbol
           row  == books[s][x]
           sold == IF qty < row.qty THEN qty ELSE row.qty
<1>1. s \in Traders /\ x \in Symbols
  BY DEF Approval
<1>2. row.qty \in Nat /\ cash \in Nat /\ loss \in Int
  BY <1>1, ValueType DEF LTypeOK
<1>3. sold \in Nat /\ sold <= row.qty /\ qty * at \in Nat /\ sold * at \in Nat
  BY <1>2
<1>4. CASE UNCHANGED <<books, cash, loss>>
  BY <1>2, <1>4
<1> HIDE DEF s, x, row, sold
<1>5. CASE /\ o.type = "entry" /\ qty > 0 /\ qty * at <= cash /\ cash' = cash - qty * at
           /\ Settle(s, x, Bought(row, qty, at))
  <2>1. row = books[s][x]
    BY DEF row
  <2>2. /\ loss' \in Int /\ Bought(row, qty, at) \in Position /\ Bought(row, qty, at).qty > 0
        /\ books' = [books EXCEPT ![s][x] = Bought(row, qty, at)]
    BY <1>1, <1>5, <2>1, Buying
  <2>3. cash' \in Nat
    BY <1>2, <1>3, <1>5
  <2>4. QED
    BY <2>2, <2>3 DEF s, x
<1>6. CASE o.type = "exit" /\ cash' = cash + sold * at /\ Settle(s, x, Sold(row, sold, at))
  <2>1. row = books[s][x] /\ row.qty > 0
    BY <1>6 DEF row, s, x
  <2>2. loss' \in Int /\ \E new \in Position : books' = [books EXCEPT ![s][x] = new]
    BY <1>1, <1>3, <1>6, <2>1, Selling
  <2>3. cash' \in Nat
    BY <1>2, <1>3, <1>6
  <2>4. QED
    BY <1>6, <2>2, <2>3 DEF s, x
<1>7. QED
  BY <1>4, <1>5, <1>6 DEF Trades, s, x, row, sold

LEMMA ExecuteKeeps ==
  ASSUME LimitsInv, Execute
  PROVE  LimitsInv'
<1>0. LTypeOK /\ ExitsHaveRows /\ EntriesStand
  BY DEF LimitsInv
<1>1. PICK o, at, qty : o = Head(orders) /\ at = price[o.symbol] /\ qty = OrderQty(SizingOf[o.strategy], at)
  OBVIOUS
<1>2. /\ orders # <<>> /\ orders' = Tail(orders) /\ o = orders[1] /\ o \in Approval
      /\ o.type \in {"entry", "exit"} /\ o.strategy \in Traders /\ o.symbol \in Symbols
      /\ at \in Nat \ {0} /\ qty \in Nat
      /\ UNCHANGED <<ready, config, price, peak, halted, signals, changes>>
      /\ Trades(o, at, qty)
  BY <1>0, <1>1, ExecuteTrades
<1>3. /\ 1 \in DOMAIN orders /\ orders' \in Seq(Approval) /\ orders \in Seq(Approval)
      /\ \A i \in DOMAIN orders' : orders'[i] = orders[i + 1] /\ i + 1 \in DOMAIN orders /\ i + 1 # 1 /\ i \in Int
  BY <1>0, <1>2, TailOf DEF LTypeOK
<1>4. o.type = "exit" => books[o.strategy][o.symbol].qty > 0
  BY <1>0, <1>2, <1>3 DEF ExitsHaveRows
<1>5. /\ cash' \in Nat /\ loss' \in Int
      /\ \/ books' = books
         \/ \E new \in Position : /\ books' = [books EXCEPT ![o.strategy][o.symbol] = new]
                                  /\ o.type # "exit" => new.qty > 0
  BY <1>0, <1>2, <1>4, TradeKeeps
<1>6. books \in [Traders -> [Symbols -> Position]]
  BY <1>0 DEF LTypeOK
<1>7. books' \in [Traders -> [Symbols -> Position]]
  <2>1. ASSUME NEW new \in Position, books' = [books EXCEPT ![o.strategy][o.symbol] = new]
        PROVE  books' \in [Traders -> [Symbols -> Position]]
    BY <1>6, <2>1
  <2>2. QED
    BY <1>5, <1>6, <2>1, Zenon
<1>8. LTypeOK'
  BY <1>0, <1>2, <1>3, <1>5, <1>7 DEF LTypeOK
<1>9. ASSUME NEW k \in DOMAIN orders, k # 1, orders[k].type = "exit"
      PROVE  books'[orders[k].strategy][orders[k].symbol].qty > 0
  <2> DEFINE s == orders[k].strategy
             x == orders[k].symbol
  <2>1. orders[k] \in Approval
    BY <1>3
  <2>2. s \in Traders /\ x \in Symbols
    BY <2>1 DEF Approval
  <2>3. books[s][x].qty > 0
    BY <1>0, <1>9 DEF ExitsHaveRows
  <2>4. o.type = "exit" => ~(o.strategy = s /\ o.symbol = x)
    BY <1>0, <1>2, <1>3, <1>9 DEF ExitsHaveRows
  <2> HIDE DEF s, x
  <2>5. ASSUME NEW new \in Position, books' = [books EXCEPT ![o.strategy][o.symbol] = new],
               o.type # "exit" => new.qty > 0
        PROVE  books'[s][x].qty > 0
    <3>1. CASE o.strategy = s /\ o.symbol = x
      BY <1>6, <2>2, <2>4, <2>5, <3>1
    <3>2. CASE ~(o.strategy = s /\ o.symbol = x)
      <4>1. books'[s][x] = books[s][x]
        BY <1>2, <1>6, <2>2, <2>5, <3>2
      <4>2. QED
        BY <2>3, <4>1
    <3>3. QED
      BY <3>1, <3>2
  <2>6. QED
    BY <1>5, <2>3, <2>5 DEF s, x
<1>10. ExitsHaveRows'
  <2> SUFFICES ASSUME NEW i \in DOMAIN orders', orders'[i].type = "exit"
               PROVE  /\ books'[orders'[i].strategy][orders'[i].symbol].qty > 0
                      /\ \A j \in DOMAIN orders' :
                           orders'[j].type = "exit" /\ orders'[j].strategy = orders'[i].strategy
                           /\ orders'[j].symbol = orders'[i].symbol => j = i
    BY DEF ExitsHaveRows
  <2>1. i + 1 \in DOMAIN orders /\ i + 1 # 1 /\ orders'[i] = orders[i + 1] /\ i \in Int
    BY <1>3
  <2>2. books'[orders'[i].strategy][orders'[i].symbol].qty > 0
    BY <1>9, <2>1
  <2>3. ASSUME NEW j \in DOMAIN orders', orders'[j].type = "exit", orders'[j].strategy = orders'[i].strategy,
               orders'[j].symbol = orders'[i].symbol
        PROVE  j = i
    <3>1. j + 1 \in DOMAIN orders /\ orders'[j] = orders[j + 1] /\ j \in Int
      BY <1>3
    <3>2. j + 1 = i + 1
      BY <1>0, <2>1, <2>3, <3>1 DEF ExitsHaveRows
    <3>3. QED
      BY <2>1, <3>1, <3>2
  <2>4. QED
    BY <2>2, <2>3
<1>11. EntriesStand'
  BY <1>0, <1>3 DEF EntriesStand
<1>12. QED
  BY <1>8, <1>10, <1>11 DEF LimitsInv

LEMMA DecisionType ==
  ASSUME NEW c, NEW s, NEW x, NEW time
  PROVE  Decision(c, s, x, time) \in {"rejected", "modified", "approved"}
BY DEF Decision

LEMMA PeakType ==
  ASSUME NEW n \in Int
  PROVE  Some(n) \in Seq(Int) /\ Len(Some(n)) <= 1
BY DEF Some

LEMMA LimitsStart == LInit => LimitsInv
<1> SUFFICES ASSUME LInit PROVE LimitsInv
  OBVIOUS
<1>1. NoPosition \in Position
  BY DEF NoPosition, Position
<1>2. orders = <<>> /\ orders \in Seq(Approval) /\ DOMAIN orders = {}
  BY DEF LInit
<1>3. peak \in Seq(Int) /\ Len(peak) <= 1
  <2>1. InitialCash \in Int
    BY LimitsAssumption
  <2>2. Some(InitialCash) \in Seq(Int) /\ Len(Some(InitialCash)) <= 1
    BY <2>1, PeakType
  <2>3. None \in Seq(Int) /\ Len(None) <= 1
    BY DEF None
  <2>4. peak = None \/ peak = Some(InitialCash)
    BY DEF LInit
  <2>5. QED
    BY <2>2, <2>3, <2>4
<1>4. LTypeOK
  <2>1. books \in [Traders -> [Symbols -> Position]]
    BY <1>1 DEF LInit
  <2>2. /\ ready = FALSE /\ halted = FALSE /\ config \in RiskConfigs
        /\ price \in [Symbols -> Prices] /\ loss = 0 /\ cash = InitialCash
    BY DEF LInit
  <2>5. InitialCash \in Nat /\ 0 \in Int
    BY LimitsAssumption
  <2>3. signals \in 0..MaxSignals /\ changes \in 0..MaxChanges
    BY LimitsAssumption DEF LInit
  <2>4. QED
    BY <1>2, <1>3, <2>1, <2>2, <2>3, <2>5 DEF LTypeOK
<1>5. QED
  BY <1>2, <1>4 DEF LimitsInv, ExitsHaveRows, EntriesStand

\* A mark to market touches no quantity.
LEMMA MarksOnly ==
  ASSUME LTypeOK, books' = [s \in Traders |-> [x \in Symbols |-> Marked(books[s][x], price[x])]]
  PROVE  /\ books' \in [Traders -> [Symbols -> Position]]
         /\ \A s \in Traders, x \in Symbols : books'[s][x].qty = books[s][x].qty
<1>1. ASSUME NEW s \in Traders, NEW x \in Symbols
      PROVE  Marked(books[s][x], price[x]) \in Position /\ Marked(books[s][x], price[x]).qty = books[s][x].qty
  <2>1. price[x] \in Nat /\ books[s][x] \in Position
    BY SizeType, ValueType
  <2>2. QED
    BY <2>1 DEF Marked, Position
<1>2. QED
  BY <1>1

\* Every step keeps the types, the rows of the exits, and the checks that the
\* entries have passed.
LEMMA LimitsStep == LimitsInv /\ [LNext]_lvars => LimitsInv'
<1> SUFFICES ASSUME LimitsInv, [LNext]_lvars PROVE LimitsInv'
  OBVIOUS
<1>0. LTypeOK /\ ExitsHaveRows /\ EntriesStand /\ orders \in Seq(Approval)
  BY DEF LimitsInv, LTypeOK
<1>a. ASSUME LTypeOK', orders' = orders, books' = books PROVE LimitsInv'
  BY <1>0, <1>a, ApprovalsStay DEF LimitsInv
<1>1. ASSUME NEW s \in Traders, NEW x \in Symbols, EvaluateEntry(s, x) PROVE LimitsInv'
  <2>1. PICK time \in Times : Queue("entry", s, x, Decision(RiskContext, s, x, time))
    BY <1>1 DEF EvaluateEntry
  <2>2. PICK status : status = Decision(RiskContext, s, x, time)
    OBVIOUS
  <2>3. status \in {"rejected", "modified", "approved"}
    BY <2>2, DecisionType
  <2>4. QED
    BY <2>1, <2>2, <2>3, QueueKeeps
<1>2. ASSUME NEW s \in Traders, NEW x \in Symbols, EvaluateExit(s, x) PROVE LimitsInv'
  <2>1. PICK status \in {"modified", "approved"} : Queue("exit", s, x, status)
    BY <1>2 DEF EvaluateExit
  <2>2. /\ books[s][x].qty > 0
        /\ ~\E i \in DOMAIN orders : orders[i].type = "exit" /\ orders[i].strategy = s /\ orders[i].symbol = x
    BY <1>2 DEF EvaluateExit
  <2>3. QED
    BY <2>1, <2>2, QueueKeeps
<1>3. CASE Execute
  BY <1>3, ExecuteKeeps
<1>4. ASSUME NEW x \in Symbols, NEW p \in Prices, NewPrice(x, p) PROVE LimitsInv'
  <2>1. LTypeOK'
    BY <1>0, <1>4, LimitsAssumption DEF NewPrice, Change, LTypeOK
  <2>2. QED
    BY <1>4, <1>a, <2>1 DEF NewPrice
<1>5. CASE Start
  <2>1. peak' \in Seq(Int) /\ Len(peak') <= 1
    <3>1. peak \in Seq(Int) /\ Len(peak) <= 1 /\ cash \in Int
      BY <1>0 DEF LTypeOK
    <3>2. QED
      BY <1>5, <3>1, PeakType DEF Start
  <2>2. ready' = TRUE /\ UNCHANGED <<config, price, books, cash, loss, halted, orders, signals, changes>>
    BY <1>5 DEF Start
  <2>4. LTypeOK'
    BY <1>0, <2>1, <2>2 DEF LTypeOK
  <2>3. QED
    BY <1>5, <1>a, <2>4 DEF Start
<1>6. CASE Restart
  <2>1. ready' = FALSE /\ UNCHANGED <<config, price, books, cash, peak, loss, halted, orders, signals>>
    BY <1>6 DEF Restart
  <2>2. changes' \in 0..MaxChanges
    BY <1>0, <1>6, LimitsAssumption DEF Restart, Change, LTypeOK
  <2>3. LTypeOK'
    BY <1>0, <2>1, <2>2 DEF LTypeOK
  <2>4. QED
    BY <1>a, <2>1, <2>3
<1>7. CASE MarkToMarket
  <2>1. /\ books' \in [Traders -> [Symbols -> Position]]
        /\ \A s \in Traders, x \in Symbols : books'[s][x].qty = books[s][x].qty
    BY <1>0, <1>7, MarksOnly DEF MarkToMarket
  <2>2. UNCHANGED <<ready, config, price, cash, loss, halted, orders, signals, changes>>
    BY <1>7 DEF MarkToMarket
  <2>3. peak' \in Seq(Int) /\ Len(peak') <= 1
    <3>1. peak' \in {peak, Some(Equity')} /\ (peak' # peak => Equity' > peak[1])
      BY <1>7 DEF MarkToMarket
    <3>2. Equity' \in Int
      <4> DEFINE e == [x \in Symbols |-> SymbolExposure(x)']
      <4>1. \A s \in Traders, x \in Symbols : ValueOf(books'[s][x]) \in Int
        <5>1. \A s \in Traders, x \in Symbols : books'[s][x] \in Position
          BY <2>1
        <5>2. QED
          BY <5>1 DEF Position, ValueOf
      <4>2. \A x \in Symbols : SymbolExposure(x)' \in Int
        <5> SUFFICES ASSUME NEW x \in Symbols PROVE SymbolExposure(x)' \in Int
          OBVIOUS
        <5> DEFINE f == [s \in Traders |-> ValueOf(books'[s][x])]
        <5>1. \A s \in Traders : f[s] \in Int
          BY <4>1
        <5>2. SymbolExposure(x)' = SumFunctionOnSet(f, Traders)
          BY DEF SymbolExposure, ValueOf
        <5> HIDE DEF f
        <5>3. QED
          BY <5>1, <5>2, LimitsAssumption, SumType
      <4>3. \A x \in Symbols : e[x] \in Int
        BY <4>2
      <4>4. TotalExposure' = SumFunctionOnSet(e, Symbols)
        BY DEF TotalExposure
      <4> HIDE DEF e
      <4>5. TotalExposure' \in Int
        BY <4>3, <4>4, LimitsAssumption, SumType
      <4>6. QED
        BY <1>0, <2>2, <4>5 DEF Equity, LTypeOK
    <3>3. QED
      BY <1>0, <3>1, <3>2, PeakType DEF LTypeOK
  <2>4. LTypeOK'
    BY <1>0, <2>1, <2>2, <2>3 DEF LTypeOK
  <2>5. \A s \in Traders, x \in Symbols : books[s][x].qty > 0 => books'[s][x].qty > 0
    BY <2>1
  <2>6. QED
    BY <1>0, <2>2, <2>4, <2>5, ApprovalsStay DEF LimitsInv
<1>8. CASE UpdateRiskConfig
  <2>1. LTypeOK'
    BY <1>0, <1>8, LimitsAssumption DEF UpdateRiskConfig, Change, LTypeOK
  <2>2. QED
    BY <1>8, <1>a, <2>1 DEF UpdateRiskConfig
<1>9. CASE ResetPeakEquity
  <2>1. Equity \in Int
    BY <1>0, ExposureType
  <2>2. peak' \in Seq(Int) /\ Len(peak') <= 1
    BY <1>9, <2>1, PeakType DEF ResetPeakEquity
  <2>3. LTypeOK'
    BY <1>0, <1>9, <2>2 DEF ResetPeakEquity, LTypeOK
  <2>4. QED
    BY <1>9, <1>a, <2>3 DEF ResetPeakEquity
<1>10. CASE GetDrawdown
  <2>1. LTypeOK'
    BY <1>0, <1>10 DEF GetDrawdown, LTypeOK
  <2>2. QED
    BY <1>10, <1>a, <2>1 DEF GetDrawdown
<1>11. CASE Midnight
  <2>1. LTypeOK'
    BY <1>0, <1>11 DEF Midnight, LTypeOK
  <2>2. QED
    BY <1>11, <1>a, <2>1 DEF Midnight
<1>12. CASE UNCHANGED lvars
  <2>1. LTypeOK'
    BY <1>0, <1>12 DEF LTypeOK, lvars
  <2>2. QED
    BY <1>12, <1>a, <2>1 DEF lvars
<1>13. QED
  BY <1>1, <1>2, <1>3, <1>4, <1>5, <1>6, <1>7, <1>8, <1>9, <1>10, <1>11, <1>12 DEF LNext

LEMMA LimitsInvariant == LSpec => []LimitsInv
<1>1. QED
  BY LimitsStart, LimitsStep, PTL DEF LSpec

-----------------------------------------------------------------------------
(* The limits: what was checked holds when it is filled *)

\* An entry that was not rejected has been checked against every limit, and is
\* said to be modified when the limit of its symbol was the reason.
LEMMA Verdicts ==
  ASSUME NEW c, c.equity \in Int, NEW s, NEW x, NEW time, Decision(c, s, x, time) # "rejected",
         NEW proposed, proposed = ProposedValue(SizingOf[s], c.equity, c.price[x])
  PROVE  /\ c.equity > 0
         /\ SymbolVerdict(c, x, proposed) = "pass" \/ Decision(c, s, x, time) = "modified"
         /\ StrategyVerdict(c, s, proposed) = "pass"
         /\ PortfolioVerdict(c, proposed) = "pass"
<1> DEFINE verdicts == {IF c.halted THEN "reject" ELSE "pass", MarketHoursVerdict("entry", time),
                        LimitVerdict(c, s), SizingVerdict(c, s, x), SymbolVerdict(c, x, proposed),
                        StrategyVerdict(c, s, proposed), PortfolioVerdict(c, proposed),
                        DrawdownVerdict(c), DailyLossVerdict(c)}
<1>1. Decision(c, s, x, time) = IF "reject" \in verdicts THEN "rejected"
                                ELSE IF "modify" \in verdicts THEN "modified" ELSE "approved"
  BY DEF Decision
<1>2. /\ SizingVerdict(c, s, x) \in verdicts /\ SymbolVerdict(c, x, proposed) \in verdicts
      /\ StrategyVerdict(c, s, proposed) \in verdicts /\ PortfolioVerdict(c, proposed) \in verdicts
  OBVIOUS
<1> HIDE DEF verdicts
<1>3. "reject" \notin verdicts
  BY <1>1
<1>4. c.equity > 0
  <2>1. ~(c.equity <= 0)
    BY <1>2, <1>3 DEF SizingVerdict
  <2>2. QED
    BY <2>1
<1>5. SymbolVerdict(c, x, proposed) \in {"pass", "modify", "reject"}
  BY DEF SymbolVerdict
<1>6. StrategyVerdict(c, s, proposed) = "pass" /\ PortfolioVerdict(c, proposed) = "pass"
  BY <1>2, <1>3 DEF StrategyVerdict, PortfolioVerdict
<1>7. QED
  BY <1>1, <1>2, <1>3, <1>4, <1>5, <1>6

LEMMA LimitType ==
  ASSUME LTypeOK
  PROVE  /\ \A p \in Nat : Share(p, Equity) \in Int
         /\ config.symbol \in Nat /\ config.strategy \in Nat /\ config.total \in Nat
         /\ \A k \in Measured : Exposure(k) \in Int /\ Limit(k) \in Int
<1>1. Equity \in Int
  BY ExposureType
<1>2. \A p \in Nat : Share(p, Equity) \in Int
  BY <1>1 DEF Share
<1>3. config.symbol \in Nat /\ config.strategy \in Nat /\ config.total \in Nat
  BY LimitsAssumption DEF LTypeOK
<1>4. \A k \in Measured : Exposure(k) \in Int
  BY ExposureType DEF Exposure
<1>5. \A k \in Measured : Limit(k) \in Int
  BY <1>2, <1>3 DEF Limit
<1>6. QED
  BY <1>2, <1>3, <1>4, <1>5

\* A fill at the price the row is marked at: the cash pays what the row gains.
FilledAtMark(s, x, row, d) ==
  /\ books' = [books EXCEPT ![s][x] = row] /\ cash' = cash - d /\ config' = config
  /\ d = ValueOf(row) - ValueOf(books[s][x])

\* The limit of k stays, and its exposure moves by d if k is of this row.
MovesBy(k, s, x, d) ==
  /\ Limit(k)' = Limit(k)
  /\ \/ Exposure(k)' = Exposure(k)
     \/ Exposure(k)' = Exposure(k) + d
        /\ \/ k \in Symbols /\ k = x
           \/ k \notin Symbols /\ k \in Traders /\ k = s
           \/ k \notin Symbols /\ k \notin Traders

\* Such a fill leaves the equity what it was, and with it the limits.
LEMMA FillMoves ==
  ASSUME LTypeOK, NEW s \in Traders, NEW x \in Symbols, NEW row \in Position, NEW d \in Int,
         FilledAtMark(s, x, row, d)
  PROVE  \A k \in Measured : MovesBy(k, s, x, d)
<1>0. /\ books' = [books EXCEPT ![s][x] = row] /\ cash' = cash - d /\ config' = config
      /\ d = ValueOf(row) - ValueOf(books[s][x])
  BY DEF FilledAtMark
<1>1. /\ SymbolExposure(x)' = SymbolExposure(x) + d
      /\ \A y \in Symbols \ {x} : SymbolExposure(y)' = SymbolExposure(y)
      /\ StrategyExposure(s)' = StrategyExposure(s) + d
      /\ \A r \in Traders \ {s} : StrategyExposure(r)' = StrategyExposure(r)
      /\ TotalExposure' = TotalExposure + d
  BY <1>0, Moves
<1>2. cash \in Int /\ TotalExposure \in Int
  BY ExposureType DEF LTypeOK
<1>3. Equity' = Equity
  BY <1>0, <1>1, <1>2 DEF Equity
<1> TAKE k \in Measured
<1>4. Limit(k)' = Limit(k)
  BY <1>0, <1>3 DEF Limit, Share
<1>5. CASE k \in Symbols
  <2>1. Exposure(k) = SymbolExposure(k) /\ Exposure(k)' = SymbolExposure(k)'
    BY <1>5 DEF Exposure
  <2>2. QED
    BY <1>1, <1>4, <1>5, <2>1 DEF MovesBy
<1>6. CASE k \notin Symbols /\ k \in Traders
  <2>1. Exposure(k) = StrategyExposure(k) /\ Exposure(k)' = StrategyExposure(k)'
    BY <1>6 DEF Exposure
  <2>2. QED
    BY <1>1, <1>4, <1>6, <2>1 DEF MovesBy
<1>7. CASE k \notin Symbols /\ k \notin Traders
  <2>1. Exposure(k) = TotalExposure /\ Exposure(k)' = TotalExposure'
    BY <1>7 DEF Exposure
  <2>2. QED
    BY <1>1, <1>4, <1>7, <2>1 DEF MovesBy
<1>8. QED
  BY <1>5, <1>6, <1>7

LEMMA ExecuteHolds ==
  ASSUME LimitsInv, Execute, ~Drifted(Head(orders)), NEW k \in Over' \ Over
  PROVE  Quantities' = Quantities \/ CapIgnored(Head(orders), k)
<1>0. LTypeOK /\ ExitsHaveRows /\ EntriesStand
  BY DEF LimitsInv
<1>1. PICK o, at, qty : o = Head(orders) /\ at = price[o.symbol] /\ qty = OrderQty(SizingOf[o.strategy], at)
  OBVIOUS
<1>2. /\ orders # <<>> /\ orders' = Tail(orders) /\ o = orders[1] /\ o \in Approval
      /\ o.type \in {"entry", "exit"} /\ o.strategy \in Traders /\ o.symbol \in Symbols
      /\ at \in Nat \ {0} /\ qty \in Nat
      /\ UNCHANGED <<ready, config, price, peak, halted, signals, changes>>
      /\ Trades(o, at, qty)
  BY <1>0, <1>1, ExecuteTrades
<1>3. 1 \in DOMAIN orders
  BY <1>0, <1>2, TailOf DEF LTypeOK
<1>4. k \in Measured /\ Exposure(k)' > Limit(k)' /\ Exposure(k) <= Limit(k)
  <2>1. k \in Measured /\ Exposure(k)' > Limit(k)' /\ ~(Exposure(k) > Limit(k))
    BY DEF Over, Measured
  <2>2. Exposure(k) \in Int /\ Limit(k) \in Int
    BY <1>0, <2>1, LimitType
  <2>3. QED
    BY <2>1, <2>2
<1> DEFINE s    == o.strategy
           x    == o.symbol
           row  == books[s][x]
           sold == IF qty < row.qty THEN qty ELSE row.qty
<1>5. s \in Traders /\ x \in Symbols /\ row = books[s][x] /\ row.qty \in Nat
  BY <1>0, <1>2, ValueType
<1>6. /\ o.context = RiskContext
      /\ at * qty <= o.proposed
      /\ row.qty = 0 \/ row.mark = at
  <2>1. /\ o.context = RiskContext /\ ~(at * qty > o.proposed)
        /\ ~(row.qty > 0 /\ row.mark # at)
    BY <1>1 DEF Drifted
  <2>2. o.proposed \in Int /\ at * qty \in Int
    BY <1>2 DEF Approval
  <2>3. QED
    BY <1>5, <2>1, <2>2
<1>7. cash \in Int /\ Exposure(k) \in Int /\ Limit(k) \in Int
  BY <1>0, <1>4, LimitType DEF LTypeOK
<1>8. CASE UNCHANGED <<books, cash, loss>>
  BY <1>8 DEF Quantities
<1> HIDE DEF s, x, row, sold
<1>9. CASE /\ o.type = "entry" /\ ready /\ qty > 0 /\ cash' = cash - qty * at
           /\ Settle(s, x, Bought(row, qty, at))
  <2>1. PICK new, d : new = Bought(row, qty, at) /\ d = qty * at
    OBVIOUS
  <2>2. /\ new \in Position /\ books' = [books EXCEPT ![s][x] = new]
        /\ row.qty = 0 \/ row.mark = at => ValueOf(new) - ValueOf(row) = d
    BY <1>0, <1>2, <1>5, <1>9, <2>1, Buying
  <2>3. d \in Int /\ d <= o.proposed /\ o.proposed \in Int
    BY <1>2, <1>6, <2>1 DEF Approval
  <2>4. d = ValueOf(new) - ValueOf(books[s][x]) /\ cash' = cash - d
    BY <1>5, <1>6, <1>9, <2>1, <2>2
  <2>5. /\ Limit(k)' = Limit(k)
        /\ \/ Exposure(k)' = Exposure(k)
           \/ Exposure(k)' = Exposure(k) + d
              /\ \/ k \in Symbols /\ k = x
                 \/ k \notin Symbols /\ k \in Traders /\ k = s
                 \/ k \notin Symbols /\ k \notin Traders
    <3>1. FilledAtMark(s, x, new, d)
      BY <1>2, <2>2, <2>4 DEF FilledAtMark
    <3>2. MovesBy(k, s, x, d)
      BY <1>0, <1>4, <1>5, <2>2, <2>3, <3>1, FillMoves
    <3>3. QED
      BY <3>2 DEF MovesBy
  <2>6. Approved(o)
    BY <1>0, <1>2, <1>3, <1>9 DEF EntriesStand
  <2>7. PICK c, time, proposed :
          /\ c = RiskContext /\ o.status = Decision(c, s, x, time)
          /\ proposed = ProposedValue(SizingOf[s], c.equity, c.price[x]) /\ proposed = o.proposed
    BY <1>6, <2>6 DEF Approved, s, x
  <2>8. /\ c.equity = Equity /\ c.config = config /\ c.symbol[x] = SymbolExposure(x)
        /\ c.strategy[s] = StrategyExposure(s) /\ c.total = TotalExposure
    BY <1>5, <1>9, <2>7 DEF RiskContext
  <2>9. o.status \in {"approved", "modified"} /\ c.equity \in Int
    BY <1>0, <1>2, <2>8, ExposureType DEF Approval
  <2>10. /\ c.equity > 0
         /\ SymbolVerdict(c, x, proposed) = "pass" \/ o.status = "modified"
         /\ StrategyVerdict(c, s, proposed) = "pass"
         /\ PortfolioVerdict(c, proposed) = "pass"
    BY <2>7, <2>9, Verdicts
  <2>11. ~(c.equity <= 0)
    BY <2>9, <2>10
  <2>12. CASE k \in Symbols /\ k = x /\ o.status # "modified"
    <3>1. SymbolExposure(x) + proposed <= Share(config.symbol, Equity)
      BY <2>8, <2>10, <2>11, <2>12 DEF SymbolVerdict
    <3>2. Exposure(k) = SymbolExposure(x) /\ Limit(k) = Share(config.symbol, Equity)
      BY <2>12 DEF Exposure, Limit
    <3>3. QED
      BY <1>4, <1>7, <2>3, <2>5, <2>7, <3>1, <3>2
  <2>13. CASE k \notin Symbols /\ k \in Traders /\ k = s
    <3>1. ~(StrategyExposure(s) + proposed > Share(config.strategy, Equity))
      BY <2>8, <2>10 DEF StrategyVerdict
    <3>2. Exposure(k) = StrategyExposure(s) /\ Limit(k) = Share(config.strategy, Equity)
      BY <2>13 DEF Exposure, Limit
    <3>3. QED
      BY <1>4, <1>7, <2>3, <2>5, <2>7, <3>1, <3>2
  <2>14. CASE k \notin Symbols /\ k \notin Traders
    <3>1. ~(TotalExposure + proposed > Share(config.total, Equity))
      BY <2>8, <2>10 DEF PortfolioVerdict
    <3>2. Exposure(k) = TotalExposure /\ Limit(k) = Share(config.total, Equity)
      BY <2>14 DEF Exposure, Limit
    <3>3. QED
      BY <1>4, <1>7, <2>3, <2>5, <2>7, <3>1, <3>2
  <2>15. CASE k \in Symbols /\ k = x /\ o.status = "modified"
    BY <1>1, <2>15 DEF CapIgnored, x
  <2>16. CASE Exposure(k)' = Exposure(k)
    BY <1>4, <1>7, <2>5, <2>16
  <2>17. QED
    BY <2>5, <2>12, <2>13, <2>14, <2>15, <2>16
<1>10. CASE o.type = "exit" /\ cash' = cash + sold * at /\ Settle(s, x, Sold(row, sold, at))
  <2>1. row.qty > 0
    BY <1>0, <1>2, <1>3, <1>5, <1>10 DEF ExitsHaveRows, s, x
  <2>2. sold \in Nat /\ sold <= row.qty
    BY <1>2, <1>5 DEF sold
  <2>3. PICK new \in Position : /\ books' = [books EXCEPT ![s][x] = new]
                                /\ row.mark = at => ValueOf(new) - ValueOf(row) = -(sold * at)
    BY <1>0, <1>2, <1>5, <1>10, <2>1, <2>2, Selling
  <2>4. PICK d : d = -(sold * at)
    OBVIOUS
  <2>5. d \in Int /\ d <= 0 /\ sold * at \in Int
    BY <1>2, <2>2, <2>4
  <2>6. row.mark = at
    BY <1>5, <1>6, <2>1
  <2>7. d = ValueOf(new) - ValueOf(books[s][x]) /\ cash' = cash - d
    BY <1>5, <1>7, <1>10, <2>3, <2>4, <2>5, <2>6
  <2>8. Limit(k)' = Limit(k) /\ (Exposure(k)' = Exposure(k) \/ Exposure(k)' = Exposure(k) + d)
    <3>1. FilledAtMark(s, x, new, d)
      BY <1>2, <2>3, <2>7 DEF FilledAtMark
    <3>2. MovesBy(k, s, x, d)
      BY <1>0, <1>4, <1>5, <2>3, <2>5, <3>1, FillMoves
    <3>3. QED
      BY <3>2 DEF MovesBy
  <2>9. QED
    BY <1>4, <1>7, <2>5, <2>8
<1>11. QED
  BY <1>2, <1>8, <1>9, <1>10 DEF Trades, s, x, row, sold

\* Every other step leaves the quantities alone.
LEMMA OthersTradeNothing ==
  ASSUME LimitsInv, [LNext]_lvars, ~Execute
  PROVE  Quantities' = Quantities
<1>1. CASE MarkToMarket
  <2>1. \A s \in Traders, x \in Symbols : books'[s][x].qty = books[s][x].qty
    BY <1>1, MarksOnly DEF MarkToMarket, LimitsInv
  <2>2. QED
    BY <2>1 DEF Quantities
<1>2. CASE ~MarkToMarket
  <2>1. books' = books
    BY <1>2 DEF LNext, EvaluateEntry, EvaluateExit, Queue, NewPrice, Start, Restart, UpdateRiskConfig,
       ResetPeakEquity, GetDrawdown, Midnight, lvars
  <2>2. QED
    BY <2>1 DEF Quantities
<1>3. QED
  BY <1>1, <1>2

\* Types of what the risk checks measure: config, prices, books, cash, the
\* peak, and the approvals that wait with the contexts they were checked in.
THEOREM LimitsTypeCorrect == LSpec => []LTypeOK
<1>1. LimitsInv => LTypeOK
  BY DEF LimitsInv
<1>2. QED
  BY <1>1, LimitsInvariant, PTL

\* An exit that waits for its order finds the row it is to close: nothing else
\* closes a row, and fills of entries (fill_processor.py) only add to it.
THEOREM ExitsAlwaysHaveRows == LSpec => []ExitsHaveRows
<1>1. LimitsInv => ExitsHaveRows
  BY DEF LimitsInv
<1>2. QED
  BY <1>1, LimitsInvariant, PTL

\* The exposure of a symbol, a strategy or the portfolio passes its limit only
\* when the limit or the marks move, or by the fill of an order that had drifted
\* from what was checked or whose cap was ignored.
THEOREM LimitsAreHeld == LSpec => LimitsHold
<1> DEFINE Step == \A k \in Over' \ Over :
                     \/ config' # config
                     \/ Quantities' = Quantities
                     \/ /\ orders # <<>> /\ orders' = Tail(orders)
                        /\ \/ Drifted(Head(orders))
                           \/ CapIgnored(Head(orders), k)
<1>1. LimitsInv /\ [LNext]_lvars => [Step]_lvars
  <2> SUFFICES ASSUME LimitsInv, [LNext]_lvars PROVE Step
    OBVIOUS
  <2>1. CASE Execute
    <3>1. orders # <<>> /\ orders' = Tail(orders)
      BY <2>1 DEF Execute
    <3>2. QED
      BY <2>1, <3>1, ExecuteHolds
  <2>2. CASE ~Execute
    BY <2>2, OthersTradeNothing
  <2>3. QED
    BY <2>1, <2>2
<1>2. LSpec => [][Step]_lvars
  BY <1>1, LimitsInvariant, PTL DEF LSpec
<1>3. QED
  BY <1>2 DEF LimitsHold

=============================================================================
