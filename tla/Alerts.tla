------------------------------- MODULE Alerts -------------------------------
(***************************************************************************)
(* The alert engine: every cycle evaluates the enabled rules over the      *)
(* audit events and metric datapoints, creates an instance where a         *)
(* condition holds and resolves one where it does not, all in one          *)
(* transaction.  Users acknowledge instances and switch rules meanwhile.   *)
(***************************************************************************)
EXTENDS Integers, Sequences, FiniteSets, Functions

CONSTANTS Order,      \* rules in the order of their names
          Config,     \* by rule: [kind, window, count, over]
          Seeded,     \* by rule: the cooldown it is seeded with
          Cooldowns,  \* cooldowns a request may set
          Switched,   \* sets of rules that may be enabled at the start
          MaxTime, MaxRecords, MaxAlerts, MaxErrors, MaxSwitches  \* bounds

Rules == Range(Order)

ASSUME AlertsAssumption ==
  /\ Order \in Seq(Rules) /\ IsInjective(Order)
  /\ Seeded \in [Rules -> Nat] /\ Cooldowns \subseteq Nat
  /\ \A s \in Switched : s \subseteq Rules
  /\ MaxTime \in Nat

VARIABLES now,
          records,    \* by rule: what audit_events or metric_datapoints hold of its type, [at, value]
          open,       \* US market hours with symbols subscribed
          enabled,    \* enabled rules
          cooldown,   \* by rule
          instances,  \* alert_instances, oldest first: [rule, at, status], committed, and
                      \* as history the cooldown in force when an instance was created
          rest,       \* places in Order of the rules the cycle has yet to evaluate
          cached,     \* cooldowns as the cycle's session has loaded them
          view,       \* of the rule being evaluated: <<condition, active instance>>, or <<>>
          created,    \* rows the cycle's transaction has inserted
          resolved,   \* rows it has resolved, and locked
          errors, switches

world == <<now, records, open, enabled, cooldown, switches>>
cycle == <<rest, cached, view, created, resolved>>
avars == <<world, instances, cycle, errors>>

AlertStatuses == {"active", "acknowledged", "resolved"}

-----------------------------------------------------------------------------
(* Conditions *)

Recent(r, t) == {x \in records[r] : x.at >= t - Config[r].window}

\* A threshold without datapoints is not exceeded; the absence of the heartbeat
\* counts only while one is to be expected.
Condition(r, t) ==
  CASE Config[r].kind = "event_match"      -> Cardinality(Recent(r, t)) >= Config[r].count
    [] Config[r].kind = "metric_threshold" -> Recent(r, t) # {} /\ \A x \in Recent(r, t) : x.value > Config[r].over
    [] OTHER                               -> open /\ Recent(r, t) = {}

-----------------------------------------------------------------------------
(* What happens around the engine *)

AInit ==
  /\ now = 0 /\ records = [r \in Rules |-> {}] /\ open = FALSE /\ enabled \in Switched /\ cooldown = Seeded
  /\ instances = <<>> /\ rest = {} /\ cached = Seeded /\ view = <<>> /\ created = <<>> /\ resolved = {}
  /\ errors = 0 /\ switches = 0

Tick ==
  /\ now < MaxTime /\ now' = now + 1
  /\ UNCHANGED <<records, open, enabled, cooldown, instances, cycle, errors, switches>>

\* The batch writer commits an event, or the collector a cycle of datapoints.
Record(r, value) ==
  /\ Cardinality(records[r]) < MaxRecords
  /\ Config[r].kind # "metric_threshold" => value = 0
  /\ records' = [records EXCEPT ![r] = @ \cup {[at |-> now, value |-> value]}]
  /\ UNCHANGED <<now, open, enabled, cooldown, instances, cycle, errors, switches>>

MarketOpens ==
  /\ switches < MaxSwitches /\ switches' = switches + 1 /\ open' = ~open
  /\ UNCHANGED <<now, records, enabled, cooldown, instances, cycle, errors>>

\* A request switches a rule, or sets its cooldown.
UpdateRule(r) ==
  /\ switches < MaxSwitches /\ switches' = switches + 1
  /\ \/ enabled' = (IF r \in enabled THEN enabled \ {r} ELSE enabled \cup {r}) /\ cooldown' = cooldown
     \/ \E c \in Cooldowns \ {cooldown[r]} : cooldown' = [cooldown EXCEPT ![r] = c] /\ enabled' = enabled
  /\ UNCHANGED <<now, records, open, instances, cycle, errors>>

\* Whatever its status is; a row the engine has written is waited for.
Acknowledge(i) ==
  /\ i \notin resolved /\ switches < MaxSwitches /\ switches' = switches + 1
  /\ instances' = [instances EXCEPT ![i].status = "acknowledged"]
  /\ UNCHANGED <<now, records, open, enabled, cooldown, cycle, errors>>

-----------------------------------------------------------------------------
(* The cycle *)

ActiveRows(r) == {i \in DOMAIN instances : instances[i].rule = r /\ instances[i].status = "active"}

NewestOf(rows) == IF rows = {} THEN 0 ELSE CHOOSE i \in rows : \A j \in rows : i >= j

\* The rule whose turn it is.
Turn    == CHOOSE i \in rest : \A j \in rest : i <= j
Current == Order[Turn]

BeginAlerts ==
  /\ rest = {} /\ view = <<>> /\ created = <<>> /\ resolved = {} /\ enabled # {}
  /\ rest' = {i \in DOMAIN Order : Order[i] \in enabled} /\ cached' = cooldown
  /\ UNCHANGED <<world, instances, view, created, resolved, errors>>

Look ==
  /\ rest # {} /\ view = <<>>
  /\ view' = <<Condition(Current, now), NewestOf(ActiveRows(Current))>>
  /\ UNCHANGED <<world, instances, rest, cached, created, resolved, errors>>

CooledDown(r, active) == active # 0 => now - instances[active].at >= cached[r]

\* Mutant: an instance is resolved when its cooldown is over, not when its condition is.
ResolveCooled ==
  /\ view # <<>> /\ ~view[1] /\ view[2] # 0
  /\ resolved' = IF CooledDown(Current, view[2]) THEN resolved \cup {view[2]} ELSE resolved
  /\ rest' = rest \ {Turn} /\ view' = <<>>
  /\ UNCHANGED <<world, instances, cached, created, errors>>

Full == Len(instances) + Len(created) = MaxAlerts

Trigger ==
  /\ view # <<>> /\ view[1] /\ CooledDown(Current, view[2]) /\ ~Full
  /\ created' = Append(created, [rule |-> Current, at |-> now, status |-> "active", cooldown |-> cached[Current]])
  /\ rest' = rest \ {Turn} /\ view' = <<>>
  /\ UNCHANGED <<world, instances, cached, resolved, errors>>

\* An instance acknowledged since the look is resolved all the same.
Resolve ==
  /\ view # <<>> /\ ~view[1] /\ view[2] # 0
  /\ resolved' = resolved \cup {view[2]}
  /\ rest' = rest \ {Turn} /\ view' = <<>>
  /\ UNCHANGED <<world, instances, cached, created, errors>>

Pass ==
  /\ view # <<>>
  /\ IF view[1] THEN ~CooledDown(Current, view[2]) \/ Full ELSE view[2] = 0
  /\ rest' = rest \ {Turn} /\ view' = <<>>
  /\ UNCHANGED <<world, instances, cached, created, resolved, errors>>

Settled(rows) == [i \in DOMAIN instances |-> IF i \in rows THEN [instances[i] EXCEPT !.status = "resolved"] ELSE instances[i]]

CommitAlerts ==
  /\ rest = {} /\ (created # <<>> \/ resolved # {})
  /\ instances' = Settled(resolved) \o created
  /\ created' = <<>> /\ resolved' = {}
  /\ UNCHANGED <<world, rest, cached, view, errors>>

\* Whatever statement failed, no later rule got through and the commit fails too:
\* the cycle is gone, but for the notifications it sent.
Fail ==
  /\ rest = {} /\ (created # <<>> \/ resolved # {})
  /\ errors < MaxErrors /\ errors' = errors + 1
  /\ created' = <<>> /\ resolved' = {}
  /\ UNCHANGED <<world, instances, rest, cached, view>>

AlertCycle == BeginAlerts \/ Look \/ Trigger \/ Resolve \/ Pass \/ CommitAlerts

ANext ==
  \/ Tick \/ MarketOpens \/ AlertCycle \/ Fail
  \/ \E r \in Rules : UpdateRule(r) \/ \E v \in 0..1 : Record(r, v)
  \/ \E i \in DOMAIN instances : Acknowledge(i)

\* The loop goes on whatever a cycle met.
AFairness == WF_avars(AlertCycle)

ASpec == AInit /\ [][ANext]_avars /\ AFairness

-----------------------------------------------------------------------------
(* Properties *)

\* However acknowledgements, failed cycles and returning conditions follow on each
\* other, two instances of a rule that are both active are at least a cooldown
\* apart, the one in force when the later was created: the engine looks at the
\* newest only.
ActiveOnesApart ==
  \A i, j \in DOMAIN instances :
    i < j /\ instances[i].rule = instances[j].rule
      /\ instances[i].status = "active" /\ instances[j].status = "active"
    => instances[j].at - instances[i].at >= instances[j].cooldown

\* Instances that piled up under a lasting condition all go once it is over, one in
\* each cycle, unless the rule is disabled.
ClearedAreResolved ==
  \A r \in Rules : <>[](~Condition(r, now) /\ r \in enabled) => <>[](ActiveRows(r) = {})

\* What the specification promises and an acknowledgement or a resolution breaks:
\* no second alert within the cooldown.
CooldownRespected ==
  \A i, j \in DOMAIN instances :
    i < j /\ instances[i].rule = instances[j].rule
    => instances[j].at - instances[i].at >= instances[j].cooldown

-----------------------------------------------------------------------------
(* What ActiveOnesApart rests on *)

AlertRow == [rule : Rules, at : Nat, status : AlertStatuses, cooldown : Nat]

ATypeOK ==
  /\ now \in Nat /\ enabled \subseteq Rules
  /\ cooldown \in [Rules -> Nat] /\ cached \in [Rules -> Nat]
  /\ instances \in Seq(AlertRow) /\ created \in Seq(AlertRow)
  /\ rest \subseteq DOMAIN Order /\ resolved \subseteq DOMAIN instances

\* The rows of a sequence are in the order of their times, up to time t.
InOrder(s, t) ==
  /\ \A i \in DOMAIN s : s[i].at <= t
  /\ \A i, j \in DOMAIN s : i <= j => s[i].at <= s[j].at

\* What the engine has looked up is still the newest, or no longer active.
ViewIsNewest ==
  view # <<>> =>
    /\ rest # {}
    /\ view[2] # 0 => view[2] \in DOMAIN instances
    /\ \A i \in ActiveRows(Current) : view[2] # 0 /\ i <= view[2]

\* A row to be committed is younger than all rows, and its rule has had its turn,
\* once; what is active is a cooldown older.
CreatedAreApart ==
  \A k \in DOMAIN created :
    /\ \A i \in DOMAIN instances : instances[i].at <= created[k].at
    /\ \A p \in rest : Order[p] # created[k].rule
    /\ \A l \in DOMAIN created : created[l].rule = created[k].rule => l = k
    /\ \A i \in ActiveRows(created[k].rule) : created[k].at - instances[i].at >= created[k].cooldown

AlertsInv ==
  /\ ATypeOK /\ InOrder(instances, now) /\ InOrder(created, now)
  /\ ViewIsNewest /\ CreatedAreApart /\ ActiveOnesApart
=============================================================================
