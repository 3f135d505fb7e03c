--------------------------- MODULE ServicesProofs ---------------------------
(***************************************************************************)
(* The background services.                                                *)
(*                                                                         *)
(* The event emitter implements the abstract channel, whatever the number  *)
(* of its producers, the room of its queue and the size of its batches.    *)
(* The inductive invariant is EmitterInv.                                  *)
(*                                                                         *)
(* The runner's cycle and the requests beside it keep what they should for *)
(* every set of strategies and editors, every threshold and every bound.   *)
(* The inductive invariants are ConfigInv, about the versions a strategy   *)
(* has, and CycleInv, about the counts a cycle has loaded.  Of the exits:  *)
(* the runner and the safety monitor, written separately, decide the same. *)
(*                                                                         *)
(* The alert engine keeps the active instances of a rule a cooldown apart; *)
(* the inductive invariant is AlertsInv.                                   *)
(***************************************************************************)
EXTENDS StrategyRunner, StrategyExits, EventEmitter, Alerts, SumTheorems, SequenceTheorems, TLAPS

-----------------------------------------------------------------------------
(* Sequences of events *)

LEMMA SetOfEmpty == ToSet(<<>>) = {}
BY DEF ToSet

LEMMA SetOfConcat ==
  ASSUME NEW S, NEW s \in Seq(S), NEW t \in Seq(S)
  PROVE  ToSet(s \o t) = ToSet(s) \cup ToSet(t)
<1>1. /\ Len(s) \in Nat /\ Len(t) \in Nat /\ s \o t \in Seq(S) /\ Len(s \o t) = Len(s) + Len(t)
      /\ \A i \in 1..Len(s) + Len(t) : (s \o t)[i] = IF i <= Len(s) THEN s[i] ELSE t[i - Len(s)]
      /\ DOMAIN s = 1..Len(s) /\ DOMAIN t = 1..Len(t) /\ DOMAIN (s \o t) = 1..Len(s) + Len(t)
  BY ConcatProperties
<1>2. ToSet(s \o t) \subseteq ToSet(s) \cup ToSet(t)
  BY <1>1 DEF ToSet
<1>3. ToSet(s) \subseteq ToSet(s \o t)
  <2>1. \A i \in DOMAIN s : i \in DOMAIN (s \o t) /\ (s \o t)[i] = s[i]
    BY <1>1
  <2>2. QED
    BY <2>1 DEF ToSet
<1>4. ToSet(t) \subseteq ToSet(s \o t)
  <2>1. \A i \in DOMAIN t : i + Len(s) \in DOMAIN (s \o t) /\ (s \o t)[i + Len(s)] = t[i]
    BY <1>1
  <2>2. QED
    BY <2>1 DEF ToSet
<1>5. QED
  BY <1>2, <1>3, <1>4

\* Two sequences without duplicates and without common elements have none together.
LEMMA ConcatInjective ==
  ASSUME NEW S, NEW s \in Seq(S), NEW t \in Seq(S),
         IsInjective(s), IsInjective(t), ToSet(s) \cap ToSet(t) = {}
  PROVE  IsInjective(s \o t)
<1>1. /\ Len(s) \in Nat /\ Len(t) \in Nat /\ s \o t \in Seq(S) /\ Len(s \o t) = Len(s) + Len(t)
      /\ \A i \in 1..Len(s) + Len(t) : (s \o t)[i] = IF i <= Len(s) THEN s[i] ELSE t[i - Len(s)]
      /\ DOMAIN s = 1..Len(s) /\ DOMAIN t = 1..Len(t) /\ DOMAIN (s \o t) = 1..Len(s) + Len(t)
  BY ConcatProperties
<1>2. \A i \in DOMAIN s, j \in DOMAIN t : s[i] # t[j]
  BY DEF ToSet
<1>3. SUFFICES ASSUME NEW i \in 1..Len(s) + Len(t), NEW j \in 1..Len(s) + Len(t), (s \o t)[i] = (s \o t)[j]
               PROVE  i = j
  BY <1>1 DEF IsInjective
<1>4. CASE i <= Len(s) /\ j <= Len(s)
  BY <1>1, <1>3, <1>4 DEF IsInjective
<1>5. CASE i > Len(s) /\ j > Len(s)
  <2>1. i - Len(s) \in DOMAIN t /\ j - Len(s) \in DOMAIN t /\ t[i - Len(s)] = t[j - Len(s)]
    BY <1>1, <1>3, <1>5
  <2>2. i - Len(s) = j - Len(s)
    BY <2>1 DEF IsInjective
  <2>3. QED
    BY <1>1, <2>2
<1>6. CASE i <= Len(s) /\ j > Len(s)
  BY <1>1, <1>2, <1>3, <1>6
<1>7. CASE i > Len(s) /\ j <= Len(s)
  BY <1>1, <1>2, <1>3, <1>7
<1>8. QED
  BY <1>1, <1>4, <1>5, <1>6, <1>7

\* A sequence of at most one element.
LEMMA ShortInjective ==
  ASSUME NEW S, NEW s \in Seq(S), Len(s) <= 1
  PROVE  IsInjective(s)
BY DEF IsInjective

\* What is taken from a queue and what is left are the queue, and share nothing.
LEMMA TakenAndLeft ==
  ASSUME NEW S, NEW s \in Seq(S), NEW n \in Nat
  PROVE  /\ Taken(n, s) \in Seq(S) /\ Left(n, s) \in Seq(S)
         /\ ToSet(s) = ToSet(Taken(n, s)) \cup ToSet(Left(n, s))
         /\ IsInjective(s) => /\ IsInjective(Taken(n, s)) /\ IsInjective(Left(n, s))
                              /\ ToSet(Taken(n, s)) \cap ToSet(Left(n, s)) = {}
<1> DEFINE k == IF n < Len(s) THEN n ELSE Len(s)
<1>1. /\ Len(s) \in Nat /\ k \in 0..Len(s) /\ DOMAIN s = 1..Len(s)
      /\ Taken(n, s) = SubSeq(s, 1, k)
  BY DEF Taken
<1>2. Left(n, s) = SubSeq(s, k + 1, Len(s))
  <2>1. CASE n < Len(s)
    BY <2>1 DEF Left
  <2>2. CASE ~(n < Len(s))
    <3>1. SubSeq(s, n + 1, Len(s)) = <<>> /\ SubSeq(s, k + 1, Len(s)) = <<>>
      BY <1>1, <2>2, SubSeqEmpty
    <3>2. QED
      BY <3>1 DEF Left
  <2>3. QED
    BY <2>1, <2>2
<1> HIDE DEF k
<1>3. \A i \in 1..Len(s) : s[i] \in S
  BY ElementOfSeq
<1>4. /\ Taken(n, s) \in Seq(S) /\ Len(Taken(n, s)) = k
      /\ \A i \in 1..k : Taken(n, s)[i] = s[i]
  BY <1>1, <1>3, SubSeqProperties
<1>5. /\ Left(n, s) \in Seq(S) /\ Len(Left(n, s)) = Len(s) - k
      /\ \A i \in 1..(Len(s) - k) : Left(n, s)[i] = s[k + i]
  <2>1. k + 1 \in Int /\ Len(s) \in Int /\ \A i \in (k + 1)..Len(s) : s[i] \in S
    BY <1>1, <1>3
  <2>2. /\ SubSeq(s, k + 1, Len(s)) \in Seq(S)
        /\ Len(SubSeq(s, k + 1, Len(s))) = IF k + 1 <= Len(s) THEN Len(s) - (k + 1) + 1 ELSE 0
        /\ \A i \in 1..(Len(s) - (k + 1) + 1) : SubSeq(s, k + 1, Len(s))[i] = s[(k + 1) + i - 1]
    BY <2>1, SubSeqProperties
  <2>3. \A i \in 1..(Len(s) - k) : i \in 1..(Len(s) - (k + 1) + 1) /\ (k + 1) + i - 1 = k + i
    BY <1>1
  <2>4. \A i \in 1..(Len(s) - k) : Left(n, s)[i] = s[k + i]
    BY <1>2, <2>2, <2>3
  <2>5. Len(Left(n, s)) = Len(s) - k
    <3>1. (IF k + 1 <= Len(s) THEN Len(s) - (k + 1) + 1 ELSE 0) = Len(s) - k
      <4>1. k \in Nat /\ Len(s) \in Nat /\ k <= Len(s)
        BY <1>1
      <4>2. CASE k + 1 <= Len(s)
        BY <4>1, <4>2
      <4>3. CASE ~(k + 1 <= Len(s))
        BY <4>1, <4>3
      <4>4. QED
        BY <4>2, <4>3
    <3>2. QED
      BY <1>2, <2>2, <3>1, Zenon
  <2>6. QED
    BY <1>2, <2>2, <2>4, <2>5
<1>6. DOMAIN Taken(n, s) = 1..k /\ DOMAIN Left(n, s) = 1..(Len(s) - k)
  BY <1>4, <1>5, LenProperties
<1>7. ToSet(s) \subseteq ToSet(Taken(n, s)) \cup ToSet(Left(n, s))
  <2> SUFFICES ASSUME NEW i \in 1..Len(s)
               PROVE  s[i] \in ToSet(Taken(n, s)) \cup ToSet(Left(n, s))
    BY <1>1 DEF ToSet
  <2>1. CASE i <= k
    BY <1>4, <1>6, <2>1 DEF ToSet
  <2>2. CASE i > k
    <3>1. i - k \in 1..(Len(s) - k) /\ Left(n, s)[i - k] = s[i]
      BY <1>1, <1>5, <2>2
    <3>2. QED
      BY <1>6, <3>1 DEF ToSet
  <2>3. QED
    BY <1>1, <2>1, <2>2
<1>8. ToSet(Taken(n, s)) \subseteq ToSet(s) /\ ToSet(Left(n, s)) \subseteq ToSet(s)
  <2>1. \A i \in 1..k : i \in DOMAIN s
    BY <1>1
  <2>2. \A i \in 1..(Len(s) - k) : k + i \in DOMAIN s
    BY <1>1
  <2>3. QED
    BY <1>4, <1>5, <1>6, <2>1, <2>2 DEF ToSet
<1>9. ASSUME IsInjective(s)
      PROVE  /\ IsInjective(Taken(n, s)) /\ IsInjective(Left(n, s))
             /\ ToSet(Taken(n, s)) \cap ToSet(Left(n, s)) = {}
  <2>1. \A i, j \in 1..Len(s) : s[i] = s[j] => i = j
    BY <1>1, <1>9 DEF IsInjective
  <2>2. IsInjective(Taken(n, s))
    BY <1>1, <1>4, <1>6, <2>1 DEF IsInjective
  <2>3. IsInjective(Left(n, s))
    <3>1. \A i, j \in 1..(Len(s) - k) : s[k + i] = s[k + j] => i = j
      <4> SUFFICES ASSUME NEW i \in 1..(Len(s) - k), NEW j \in 1..(Len(s) - k), s[k + i] = s[k + j]
                   PROVE  i = j
        OBVIOUS
      <4>1. k + i \in 1..Len(s) /\ k + j \in 1..Len(s)
        BY <1>1
      <4>2. k + i = k + j
        BY <2>1, <4>1
      <4>3. QED
        BY <1>1, <4>2
    <3>2. QED
      BY <1>5, <1>6, <3>1 DEF IsInjective
  <2>4. \A i \in 1..k, j \in 1..(Len(s) - k) : s[i] # s[k + j]
    BY <1>1, <2>1
  <2>5. ToSet(Taken(n, s)) \cap ToSet(Left(n, s)) = {}
    BY <1>4, <1>5, <1>6, <2>4 DEF ToSet
  <2>6. QED
    BY <2>2, <2>3, <2>5
<1>10. QED
  BY <1>4, <1>5, <1>7, <1>8, <1>9

-----------------------------------------------------------------------------
(* Types *)

LEMMA ConcatType ==
  ASSUME NEW S, NEW s \in Seq(S), NEW t \in Seq(S)
  PROVE  s \o t \in Seq(S) /\ <<>> \in Seq(S)
BY ConcatProperties

LEMMA LostType ==
  ASSUME ETypeOK, NEW cause \in Causes, NEW s \in Seq(Event)
  PROVE  LostTo(cause, s) \in SUBSET (Event \X Causes)
BY DEF ETypeOK, LostTo, ToSet

\* Every step keeps the types of the sequences and of the history.
LEMMA EmitterNextType ==
  ASSUME BatchSize \in Nat
  PROVE  ETypeOK /\ [ENext]_evars => ETypeOK'
<1> SUFFICES ASSUME ETypeOK, [ENext]_evars PROVE ETypeOK'
  OBVIOUS
<1> USE DEF ETypeOK, Causes
<1>1. ASSUME NEW p \in Producers, NEW severity \in Severities, Emit(p, severity)
      PROVE  ETypeOK'
  <2> DEFINE e == [id |-> emitted + 1, severity |-> severity]
  <2>1. e \in Event /\ <<e>> \in Seq(Event)
    BY DEF Event
  <2> HIDE DEF e
  <2>2. LostTo("dropped", <<e>>) \in SUBSET (Event \X Causes)
    BY <2>1, LostType
  <2>3. \/ queue' = Append(queue, e) /\ UNCHANGED <<waiting, lost>>
        \/ lost' = LostTo("dropped", <<e>>) /\ UNCHANGED <<queue, waiting>>
        \/ waiting' = [waiting EXCEPT ![p] = <<e>>] /\ UNCHANGED <<queue, lost>>
    BY <1>1 DEF Emit, e
  <2>4. queue' \in Seq(Event) /\ lost' \in SUBSET (Event \X Causes)
    <3>1. Append(queue, e) \in Seq(Event)
      BY <2>1
    <3>2. QED
      BY <2>2, <2>3, <3>1, Zenon
  <2>6. waiting' \in [Producers -> Seq(Event)]
    BY <2>1, <2>3
  <2>5. emitted' \in Nat
    BY <1>1 DEF Emit
  <2>7. QED
    BY <1>1, <2>4, <2>5, <2>6 DEF Emit
<1>2. ASSUME NEW p \in Producers, Enqueue(p) PROVE ETypeOK'
  BY <1>2 DEF Enqueue
<1>3. ASSUME NEW p \in Producers, GiveUp(p) PROVE ETypeOK'
  <2>1. lost' \in SUBSET (Event \X Causes)
    BY <1>3, LostType DEF GiveUp
  <2>2. waiting' \in [Producers -> Seq(Event)]
    BY <1>3 DEF GiveUp
  <2>3. QED
    BY <1>3, <2>1, <2>2 DEF GiveUp
<1>4. CASE Take
  BY <1>4, TakenAndLeft DEF Take
<1>5. CASE Interval
  BY <1>5 DEF Interval
<1>6. ASSUME NEW ok \in BOOLEAN, Write(ok) PROVE ETypeOK'
  <2>1. lost' \in SUBSET (Event \X Causes) /\ failures' \in Nat
    BY <1>6, LostType DEF Write
  <2>2. written' \in Seq(Event) /\ batch' \in Seq(Event)
    BY <1>6, ConcatType DEF Write
  <2>3. QED
    BY <1>6, <2>1, <2>2 DEF Write, Again
<1>7. ASSUME NEW ok \in BOOLEAN, Flush(ok) PROVE ETypeOK'
  <2>1. lost' \in SUBSET (Event \X Causes) /\ failures' \in Nat
    BY <1>7, LostType DEF Flush
  <2>2. written' \in Seq(Event) /\ flushed' \in Seq(Event)
    BY <1>7, ConcatType DEF Flush
  <2>3. QED
    BY <1>7, <2>1, <2>2 DEF Flush
<1>8. CASE Stop
  BY <1>8 DEF Stop
<1>9. CASE Cancel
  <2>1. lost' \in SUBSET (Event \X Causes)
    BY <1>9, LostType DEF Cancel
  <2>2. written' \in Seq(Event) /\ batch' \in Seq(Event)
    BY <1>9, ConcatType DEF Cancel
  <2>3. QED
    BY <1>9, <2>1, <2>2 DEF Cancel
<1>10. CASE UNCHANGED evars
  BY <1>10 DEF evars
<1>11. QED
  BY <1>1, <1>2, <1>3, <1>4, <1>5, <1>6, <1>7, <1>8, <1>9, <1>10 DEF ENext, Writer

-----------------------------------------------------------------------------
(* The places of events *)

Places == {"queued", "waiting", "taken", "secured", "written"} \cup Causes

\* The events at each place are those of one variable.
Stands(e, x) ==
  \/ x = "queued" /\ e \in ToSet(queue)
  \/ x = "waiting" /\ \E p \in Producers : e \in ToSet(waiting[p])
  \/ x = "taken" /\ e \in ToSet(batch)
  \/ x = "secured" /\ e \in ToSet(flushed)
  \/ x = "written" /\ e \in ToSet(written)
  \/ <<e, x>> \in lost

AllStand == /\ Lives \subseteq Event \X Places
            /\ \A e \in Event, x \in Places : <<e, x>> \in Lives <=> Stands(e, x)

LEMMA LivesAre == ETypeOK => AllStand
<1> SUFFICES ASSUME ETypeOK PROVE AllStand
  OBVIOUS
<1> DEFINE In(l) == \/ l \in ToSet(queue) \X {"queued"}
                    \/ l \in (UNION {ToSet(waiting[p]) : p \in Producers}) \X {"waiting"}
                    \/ l \in ToSet(batch) \X {"taken"} \/ l \in ToSet(flushed) \X {"secured"}
                    \/ l \in ToSet(written) \X {"written"} \/ l \in lost
<1>1. \A l : l \in Lives <=> In(l)
  BY DEF Lives
<1>2. /\ ToSet(queue) \subseteq Event /\ ToSet(batch) \subseteq Event
      /\ ToSet(flushed) \subseteq Event /\ ToSet(written) \subseteq Event
      /\ \A p \in Producers : ToSet(waiting[p]) \subseteq Event
  BY DEF ETypeOK, ToSet
<1>3. lost \subseteq Event \X Places
  BY DEF ETypeOK, Places
<1>4. Lives \subseteq Event \X Places
  BY <1>1, <1>2, <1>3 DEF Places
<1>5. ASSUME NEW e \in Event, NEW x \in Places
      PROVE  <<e, x>> \in Lives <=> Stands(e, x)
  <2> DEFINE k == <<e, x>>
  <2>1. \A A, z : k \in A \X {z} <=> e \in A /\ x = z
    OBVIOUS
  <2>2. e \in UNION {ToSet(waiting[p]) : p \in Producers} <=> \E p \in Producers : e \in ToSet(waiting[p])
    OBVIOUS
  <2> HIDE DEF k
  <2>3. In(k) <=> \/ x = "queued" /\ e \in ToSet(queue)
                  \/ x = "waiting" /\ e \in UNION {ToSet(waiting[p]) : p \in Producers}
                  \/ x = "taken" /\ e \in ToSet(batch)
                  \/ x = "secured" /\ e \in ToSet(flushed)
                  \/ x = "written" /\ e \in ToSet(written)
                  \/ k \in lost
    BY <2>1, Zenon
  <2>4. QED
    BY <1>1, <2>2, <2>3 DEF Stands, k
<1>6. QED
  BY <1>4, <1>5 DEF AllStand

LEMMA LivesAreNext == ETypeOK' => AllStand'
BY LivesAre, PTL

\* The events E go from the place x to the place y, and no others move.
Goes(E, x, y) ==
  /\ x \in Places /\ y \in Places /\ x # y /\ E \in SUBSET Event
  /\ \A e \in Event, z \in Places :
       /\ z = x /\ e \in E => Stands(e, z)
       /\ Stands(e, z)' <=> (Stands(e, z) /\ ~(z = x /\ e \in E)) \/ (z = y /\ e \in E)

\* As sets of pairs.
LEMMA GoneAre ==
  ASSUME ETypeOK, ETypeOK', NEW E, NEW x, NEW y, Goes(E, x, y)
  PROVE  /\ Lives \ Lives' = E \X {x}
         /\ Lives' = Channel!Moved(E \X {x}, y)
<1>1. Lives \subseteq Event \X Places /\ Lives' \subseteq Event \X Places
  BY LivesAre, LivesAreNext DEF AllStand
<1>2. E \subseteq Event /\ x \in Places /\ y \in Places /\ x # y
  BY DEF Goes
<1>3. ASSUME NEW l \in Event \X Places
      PROVE  /\ l \in E \X {x} => l \in Lives
             /\ l \in Lives' <=> l \in Lives \ (E \X {x}) \/ l \in E \X {y}
  <2>1. PICK e \in Event, z \in Places : l = <<e, z>>
    BY <1>3
  <2>2. \A w : <<e, z>> \in E \X {w} <=> e \in E /\ z = w
    OBVIOUS
  <2>3. /\ z = x /\ e \in E => <<e, z>> \in Lives
        /\ <<e, z>> \in Lives' <=> (<<e, z>> \in Lives /\ ~(z = x /\ e \in E)) \/ (z = y /\ e \in E)
    BY LivesAre, LivesAreNext DEF AllStand, Goes
  <2>4. /\ <<e, z>> \in E \X {x} <=> e \in E /\ z = x
        /\ <<e, z>> \in E \X {y} <=> e \in E /\ z = y
    BY <2>2
  <2>5. /\ <<e, z>> \in E \X {x} => <<e, z>> \in Lives
        /\ <<e, z>> \in Lives' <=> <<e, z>> \in Lives \ (E \X {x}) \/ <<e, z>> \in E \X {y}
    <3> DEFINE k == <<e, z>>
    <3> HIDE DEF k
    <3>1. /\ k \in E \X {x} <=> e \in E /\ z = x
          /\ k \in E \X {y} <=> e \in E /\ z = y
          /\ z = x /\ e \in E => k \in Lives
          /\ k \in Lives' <=> (k \in Lives /\ ~(z = x /\ e \in E)) \/ (z = y /\ e \in E)
      BY <2>3, <2>4 DEF k
    <3>2. /\ k \in E \X {x} => k \in Lives
          /\ k \in Lives' <=> k \in Lives \ (E \X {x}) \/ k \in E \X {y}
      BY <3>1, Zenon
    <3>3. QED
      BY <3>2 DEF k
  <2>6. QED
    BY <2>1, <2>5
<1>4. E \X {x} \subseteq Event \X Places /\ E \X {y} \subseteq Event \X Places
  BY <1>2
<1>5. Lives' = (Lives \ (E \X {x})) \cup (E \X {y})
  BY <1>1, <1>3, <1>4
<1>6. {<<l[1], y>> : l \in E \X {x}} = E \X {y}
  <2>1. \A l \in E \X {x} : l[1] \in E
    OBVIOUS
  <2>2. \A e \in E : <<e, x>> \in E \X {x} /\ <<e, x>>[1] = e
    OBVIOUS
  <2>3. ASSUME NEW k \in E \X {y} PROVE k \in {<<l[1], y>> : l \in E \X {x}}
    <3>1. PICK e \in E : k = <<e, y>>
      BY <2>3
    <3>2. QED
      BY <2>2, <3>1
  <2>4. QED
    BY <2>1, <2>3
<1>7. E \X {x} \subseteq Lives
  BY <1>3, <1>4
<1>8. (E \X {x}) \cap (E \X {y}) = {}
  BY <1>2
<1>9. QED
  BY <1>5, <1>6, <1>7, <1>8 DEF Channel!Moved

\* Events that go along a line of the channel are a move of it.
LEMMA GoesIsMove ==
  ASSUME ETypeOK, ETypeOK', NEW E, NEW x, NEW y, Goes(E, x, y),
         <<x, y>> \in Channel!Lines, Phase' = Phase
  PROVE  Channel!Next \/ UNCHANGED <<Lives, Phase>>
<1>1. Lives \ Lives' = E \X {x} /\ Lives' = Channel!Moved(Lives \ Lives', y)
  BY GoneAre
<1>2. CASE E = {}
  BY <1>1, <1>2 DEF Channel!Moved
<1>3. CASE E # {}
  <2>1. \A l \in Lives \ Lives' : l[2] = x
    BY <1>1
  <2>2. Lives \ Lives' # {}
    <3>1. PICK e \in E : TRUE
      BY <1>3
    <3>2. <<e, x>> \in E \X {x}
      OBVIOUS
    <3>3. QED
      BY <1>1, <3>2
  <2>3. Channel!Move
    <3> DEFINE m == <<x, y>>
    <3>1. m \in Channel!Lines /\ m[1] = x /\ m[2] = y
      OBVIOUS
    <3>2. QED
      BY <1>1, <2>1, <2>2, <3>1 DEF Channel!Move
  <2>4. QED
    BY <2>3 DEF Channel!Next
<1>4. QED
  BY <1>2, <1>3

\* An event that goes elsewhere is at one place still.
LEMMA GoesKeepsPlaces ==
  ASSUME ETypeOK, ETypeOK', OnePlace, Numbered, emitted' = emitted, NEW E, NEW x, NEW y, Goes(E, x, y)
  PROVE  OnePlace' /\ Numbered'
<1>1. Lives \subseteq Event \X Places /\ Lives' \subseteq Event \X Places
  BY LivesAre, LivesAreNext DEF AllStand
<1>2. \A e \in Event, z, w \in Places : <<e, z>> \in Lives /\ <<e, w>> \in Lives => z = w
  <2> SUFFICES ASSUME NEW e \in Event, NEW z \in Places, NEW w \in Places, <<e, z>> \in Lives, <<e, w>> \in Lives
               PROVE  z = w
    OBVIOUS
  <2>1. <<e, z>>[1] = <<e, w>>[1] => <<e, z>> = <<e, w>>
    BY DEF OnePlace
  <2>2. QED
    BY <2>1
<1>3. \A e \in Event, z, w \in Places : <<e, z>> \in Lives' /\ <<e, w>> \in Lives' => z = w
  BY <1>2, LivesAre, LivesAreNext DEF AllStand, Goes
<1>4. \A e \in Event, z \in Places : <<e, z>> \in Lives' => e.id \in 1..emitted'
  <2>1. \A e \in Event, z \in Places : <<e, z>> \in Lives => e.id \in 1..emitted
    BY DEF Numbered
  <2>2. QED
    BY <2>1, LivesAre, LivesAreNext DEF AllStand, Goes
<1>5. QED
  BY <1>1, <1>3, <1>4 DEF OnePlace, Numbered

-----------------------------------------------------------------------------
(* Where the steps take events *)

LEMMA LostAre ==
  ASSUME NEW cause, NEW s, NEW e, NEW z
  PROVE  <<e, z>> \in LostTo(cause, s) <=> <<e, z>> \in lost \/ (z = cause /\ e \in ToSet(s))
<1>1. {<<d, cause>> : d \in ToSet(s)} = ToSet(s) \X {cause}
  OBVIOUS
<1>2. <<e, z>> \in ToSet(s) \X {cause} <=> z = cause /\ e \in ToSet(s)
  OBVIOUS
<1>3. QED
  BY <1>1, <1>2, Zenon DEF LostTo

LEMMA OnlyOne ==
  ASSUME NEW S, NEW s \in Seq(S), Len(s) <= 1, NEW e \in ToSet(s)
  PROVE  s = <<e>>
<1>1. PICK i \in DOMAIN s : s[i] = e
  BY DEF ToSet
<1>2. Len(s) \in Nat /\ i \in 1..Len(s)
  BY <1>1
<1>3. Len(s) = 1 /\ i = 1
  <2>1. \A n \in Nat : n <= 1 => \A j \in 1..n : n = 1 /\ j = 1
    OBVIOUS
  <2>2. QED
    BY <1>2, <2>1, Zenon
<1>4. QED
  BY <1>1, <1>3

\* No event is waited with by two emitters.
LEMMA WaitersApart ==
  ASSUME ETypeOK, EmitterInv, NEW p \in Producers, NEW q \in Producers, p # q
  PROVE  ToSet(waiting[p]) \cap ToSet(waiting[q]) = {}
<1> SUFFICES ASSUME NEW e \in ToSet(waiting[p]) \cap ToSet(waiting[q])
             PROVE  FALSE
  OBVIOUS
<1>1. waiting[p] \in Seq(Event) /\ waiting[q] \in Seq(Event) /\ Len(waiting[p]) <= 1 /\ Len(waiting[q]) <= 1
  BY DEF ETypeOK, EmitterInv
<1>2. waiting[p] = <<e>> /\ waiting[q] = <<e>>
  BY <1>1, OnlyOne
<1>3. waiting[p] # <<>>
  BY <1>2
<1>4. QED
  BY <1>2, <1>3 DEF EmitterInv

\* An emitter that no longer waits.
LEMMA WaiterLeaves ==
  ASSUME ETypeOK, EmitterInv, NEW p \in Producers, waiting' = [waiting EXCEPT ![p] = <<>>], NEW e
  PROVE  (\E q \in Producers : e \in ToSet(waiting'[q]))
           <=> (\E q \in Producers : e \in ToSet(waiting[q])) /\ e \notin ToSet(waiting[p])
<1>1. /\ waiting'[p] = <<>>
      /\ \A q \in Producers \ {p} : waiting'[q] = waiting[q]
  BY DEF ETypeOK
<1>2. \A q \in Producers : e \in ToSet(waiting'[q]) <=> q # p /\ e \in ToSet(waiting[q])
  BY <1>1, SetOfEmpty
<1>3. \A q \in Producers : q # p /\ e \in ToSet(waiting[q]) => e \notin ToSet(waiting[p])
  BY WaitersApart
<1>4. QED
  BY <1>2, <1>3

LEMMA EventSets ==
  ETypeOK => /\ ToSet(queue) \subseteq Event /\ ToSet(batch) \subseteq Event /\ ToSet(flushed) \subseteq Event
             /\ \A p \in Producers : ToSet(waiting[p]) \subseteq Event
             /\ \A e, z : <<e, z>> \in lost => z \in Causes
<1> SUFFICES ASSUME ETypeOK
             PROVE  /\ ToSet(queue) \subseteq Event /\ ToSet(batch) \subseteq Event /\ ToSet(flushed) \subseteq Event
                    /\ \A p \in Producers : ToSet(waiting[p]) \subseteq Event
                    /\ \A e, z : <<e, z>> \in lost => z \in Causes
  OBVIOUS
<1>1. \A e, z : <<e, z>> \in lost => z \in Causes
  BY DEF ETypeOK
<1>2. QED
  BY <1>1 DEF ETypeOK, ToSet

LEMMA EnqueueGoes ==
  ASSUME ETypeOK, EmitterInv, NEW p \in Producers, Enqueue(p)
  PROVE  Goes(ToSet(waiting[p]), "waiting", "queued")
<1>1. ToSet(queue') = ToSet(queue) \cup ToSet(waiting[p])
  BY SetOfConcat DEF ETypeOK, Enqueue
<1>2. UNCHANGED <<batch, flushed, written, lost>> /\ waiting' = [waiting EXCEPT ![p] = <<>>]
  BY DEF Enqueue
<1>3. /\ ToSet(waiting[p]) \in SUBSET Event
      /\ \A e : (\E q \in Producers : e \in ToSet(waiting'[q]))
                 <=> (\E q \in Producers : e \in ToSet(waiting[q])) /\ e \notin ToSet(waiting[p])
      /\ \A e : e \in ToSet(waiting[p]) => \E q \in Producers : e \in ToSet(waiting[q])
  BY <1>2, WaiterLeaves, EventSets
<1>4. QED
  BY <1>1, <1>2, <1>3, EventSets DEF Goes, Stands, Places, Causes

LEMMA GiveUpGoes ==
  ASSUME ETypeOK, EmitterInv, NEW p \in Producers, GiveUp(p)
  PROVE  Goes(ToSet(waiting[p]), "waiting", "timeout")
<1>1. UNCHANGED <<queue, batch, flushed, written>> /\ waiting' = [waiting EXCEPT ![p] = <<>>]
      /\ lost' = LostTo("timeout", waiting[p])
  BY DEF GiveUp
<1>2. /\ ToSet(waiting[p]) \in SUBSET Event
      /\ \A e : (\E q \in Producers : e \in ToSet(waiting'[q]))
                 <=> (\E q \in Producers : e \in ToSet(waiting[q])) /\ e \notin ToSet(waiting[p])
      /\ \A e : e \in ToSet(waiting[p]) => \E q \in Producers : e \in ToSet(waiting[q])
  BY <1>1, WaiterLeaves, EventSets
<1>3. QED
  BY <1>1, <1>2, EventSets, LostAre DEF Goes, Stands, Places, Causes

LEMMA TakeGoes ==
  ASSUME BatchSize \in Nat, ETypeOK, EmitterInv, Take
  PROVE  Goes(ToSet(Taken(BatchSize, queue)), "queued", "taken")
<1>1. /\ ToSet(queue) = ToSet(batch') \cup ToSet(queue') /\ ToSet(batch') \cap ToSet(queue') = {}
      /\ batch' = Taken(BatchSize, queue)
  BY TakenAndLeft DEF ETypeOK, EmitterInv, Take
<1>2. UNCHANGED <<waiting, flushed, written, lost>> /\ ToSet(batch) = {}
  BY SetOfEmpty DEF EmitterInv, Take
<1>3. QED
  BY <1>1, <1>2, EventSets DEF Goes, Stands, Places, Causes

\* Held events that are written, or lost by a cause.
LEMMA BatchGoes ==
  ASSUME ETypeOK, batch' = <<>>, UNCHANGED <<queue, waiting, flushed>>
  PROVE  /\ written' = written \o batch /\ lost' = lost => Goes(ToSet(batch), "taken", "written")
         /\ \A cause \in Causes : lost' = LostTo(cause, batch) /\ written' = written
                                  => Goes(ToSet(batch), "taken", cause)
<1>1. ToSet(batch') = {} /\ ToSet(batch) \subseteq Event
  BY SetOfEmpty, EventSets
<1>2. ASSUME written' = written \o batch, lost' = lost
      PROVE  Goes(ToSet(batch), "taken", "written")
  <2>1. ToSet(written') = ToSet(written) \cup ToSet(batch)
    BY <1>2, SetOfConcat DEF ETypeOK
  <2>2. QED
    BY <1>1, <1>2, <2>1, EventSets DEF Goes, Stands, Places, Causes
<1>3. ASSUME NEW cause \in Causes, lost' = LostTo(cause, batch), written' = written
      PROVE  Goes(ToSet(batch), "taken", cause)
  BY <1>1, <1>3, LostAre, EventSets DEF Goes, Stands, Places, Causes
<1>4. QED
  BY <1>2, <1>3

LEMMA FlushedGoes ==
  ASSUME ETypeOK, flushed' = <<>>, UNCHANGED <<queue, waiting, batch>>
  PROVE  /\ written' = written \o flushed /\ lost' = lost => Goes(ToSet(flushed), "secured", "written")
         /\ lost' = LostTo("failed", flushed) /\ written' = written => Goes(ToSet(flushed), "secured", "failed")
<1>1. ToSet(flushed') = {} /\ ToSet(flushed) \subseteq Event
  BY SetOfEmpty, EventSets
<1>2. ASSUME written' = written \o flushed, lost' = lost
      PROVE  Goes(ToSet(flushed), "secured", "written")
  <2>1. ToSet(written') = ToSet(written) \cup ToSet(flushed)
    BY <1>2, SetOfConcat DEF ETypeOK
  <2>2. QED
    BY <1>1, <1>2, <2>1, EventSets DEF Goes, Stands, Places, Causes
<1>3. ASSUME lost' = LostTo("failed", flushed), written' = written
      PROVE  Goes(ToSet(flushed), "secured", "failed")
  BY <1>1, <1>3, LostAre, EventSets DEF Goes, Stands, Places, Causes
<1>4. QED
  BY <1>2, <1>3

LEMMA StopGoes ==
  ASSUME ETypeOK, EmitterInv, Stop
  PROVE  Goes(ToSet(queue), "queued", "secured")
<1>1. UNCHANGED <<waiting, batch, written, lost>> /\ ToSet(queue') = {} /\ ToSet(flushed) = {}
  BY SetOfEmpty DEF Stop, EmitterInv
<1>2. flushed' = queue
  BY DEF Stop
<1>3. ToSet(queue) \in SUBSET Event
  BY EventSets
<1>4. QED
  BY <1>1, <1>2, <1>3, EventSets DEF Goes, Stands, Places, Causes

\* An event that is emitted is new, and queued, waited with or dropped.
Comes(e, x) ==
  /\ e \in Event /\ x \in Places /\ e.id = emitted'
  /\ \A d \in Event, z \in Places : Stands(d, z)' <=> Stands(d, z) \/ (d = e /\ z = x)

LEMMA EmitComes ==
  ASSUME ETypeOK, EmitterInv, NEW p \in Producers, NEW severity \in Severities, Emit(p, severity)
  PROVE  LET e == [id |-> emitted + 1, severity |-> severity]
         IN  \/ Comes(e, "queued")
             \/ severity = "info" /\ Comes(e, "dropped")
             \/ severity = "warning" /\ Comes(e, "waiting")
<1> DEFINE e == [id |-> emitted + 1, severity |-> severity]
<1>1. e \in Event /\ <<e>> \in Seq(Event) /\ e.id = emitted'
  BY DEF Event, ETypeOK, Emit
<1>2. UNCHANGED <<batch, flushed, written>> /\ waiting[p] = <<>>
  BY DEF Emit
<1>3. ToSet(<<e>>) = {e}
  BY DEF ToSet
<1>4. \/ queue' = Append(queue, e) /\ UNCHANGED <<waiting, lost>>
      \/ severity = "info" /\ lost' = LostTo("dropped", <<e>>) /\ UNCHANGED <<queue, waiting>>
      \/ severity = "warning" /\ waiting' = [waiting EXCEPT ![p] = <<e>>] /\ UNCHANGED <<queue, lost>>
  BY DEF Emit, Droppable, Severities
<1> HIDE DEF e
<1>5. CASE queue' = Append(queue, e) /\ UNCHANGED <<waiting, lost>>
  <2>1. queue' = queue \o <<e>>
    BY <1>1, <1>5 DEF ETypeOK
  <2>2. ToSet(queue \o <<e>>) = ToSet(queue) \cup ToSet(<<e>>)
    <3>1. queue \in Seq(Event)
      BY DEF ETypeOK
    <3>2. <<e>> \in Seq(Event)
      BY <1>1
    <3>3. QED
      BY <3>1, <3>2, SetOfConcat
  <2>3. Comes(e, "queued")
    BY <1>1, <1>2, <1>3, <1>5, <2>1, <2>2 DEF Comes, Stands, Places
  <2>4. QED
    BY <2>3 DEF e
<1>6. CASE severity = "info" /\ lost' = LostTo("dropped", <<e>>) /\ UNCHANGED <<queue, waiting>>
  <2>1. Comes(e, "dropped")
    BY <1>1, <1>2, <1>3, <1>6, LostAre DEF Comes, Stands, Places, Causes
  <2>2. QED
    BY <1>6, <2>1 DEF e
<1>7. CASE severity = "warning" /\ waiting' = [waiting EXCEPT ![p] = <<e>>] /\ UNCHANGED <<queue, lost>>
  <2>1. \A d : (\E q \in Producers : d \in ToSet(waiting'[q]))
               <=> (\E q \in Producers : d \in ToSet(waiting[q])) \/ d = e
    <3>1. /\ waiting'[p] = <<e>> /\ \A q \in Producers \ {p} : waiting'[q] = waiting[q]
          /\ ToSet(waiting[p]) = {}
      BY <1>2, <1>7, SetOfEmpty DEF ETypeOK
    <3>2. QED
      BY <1>3, <3>1
  <2>2. Comes(e, "waiting")
    BY <1>1, <1>2, <1>7, <2>1 DEF Comes, Stands, Places
  <2>3. QED
    BY <1>7, <2>2 DEF e
<1>8. QED
  BY <1>4, <1>5, <1>6, <1>7 DEF e

-----------------------------------------------------------------------------
(* The invariant *)

LEMMA ComesKeepsPlaces ==
  ASSUME ETypeOK, ETypeOK', OnePlace, Numbered, emitted' = emitted + 1, NEW e, NEW x, Comes(e, x)
  PROVE  OnePlace' /\ Numbered'
<1>1. Lives \subseteq Event \X Places /\ Lives' \subseteq Event \X Places
  BY LivesAre, LivesAreNext DEF AllStand
<1>2. ASSUME NEW d \in Event, NEW z \in Places, Stands(d, z)
      PROVE  d.id \in 1..emitted /\ \A w \in Places : Stands(d, w) => z = w
  <2>1. <<d, z>> \in Lives /\ \A w \in Places : Stands(d, w) => <<d, w>> \in Lives
    BY <1>2, LivesAre DEF AllStand
  <2>2. \A w \in Places : Stands(d, w) => <<d, z>> = <<d, w>>
    BY <2>1 DEF OnePlace
  <2>3. <<d, z>>[1] = d
    OBVIOUS
  <2>4. d.id \in 1..emitted
    BY <2>1, <2>3, Zenon DEF Numbered
  <2>5. QED
    BY <2>2, <2>4
<1>3. e.id = emitted + 1 /\ emitted \in Nat
  BY DEF Comes, ETypeOK
<1>4. \A z \in Places : ~Stands(e, z)
  BY <1>2, <1>3 DEF Comes
<1>5. \A d \in Event, z, w \in Places : <<d, z>> \in Lives' /\ <<d, w>> \in Lives' => z = w
  BY <1>2, <1>4, LivesAreNext DEF AllStand, Comes
<1>6. \A d \in Event, z \in Places : <<d, z>> \in Lives' => d.id \in 1..emitted'
  <2>1. 1..emitted \subseteq 1..emitted' /\ e.id \in 1..emitted'
    BY <1>3
  <2>2. QED
    BY <1>2, <2>1, LivesAreNext DEF AllStand, Comes
<1>7. QED
  BY <1>1, <1>5, <1>6 DEF OnePlace, Numbered

\* No event stands at two places.
LEMMA StandsOnce ==
  ASSUME ETypeOK, OnePlace, Numbered
  PROVE  \A d \in Event, z, w \in Places : Stands(d, z) /\ Stands(d, w) => z = w /\ d.id \in 1..emitted
<1> SUFFICES ASSUME NEW d \in Event, NEW z \in Places, NEW w \in Places, Stands(d, z), Stands(d, w)
             PROVE  z = w /\ d.id \in 1..emitted
  OBVIOUS
<1>1. <<d, z>> \in Lives /\ <<d, w>> \in Lives
  BY LivesAre DEF AllStand
<1>2. <<d, z>>[1] = d /\ <<d, w>>[1] = d
  OBVIOUS
<1>3. <<d, z>> = <<d, w>>
  BY <1>1, <1>2, Zenon DEF OnePlace
<1>4. d.id \in 1..emitted
  BY <1>1, <1>2, Zenon DEF Numbered
<1>5. QED
  BY <1>3, <1>4

\* The sequences, the one waiting and the events held, but for their places.
LocalInv ==
  /\ IsInjective(queue) /\ IsInjective(batch) /\ IsInjective(flushed) /\ IsInjective(written)
  /\ \A p, q \in Producers : Len(waiting[p]) <= 1 /\ (waiting[p] = waiting[q] /\ waiting[p] # <<>> => p = q)
  /\ writer # "writing" => batch = <<>>
  /\ stopper # "flushing" => flushed = <<>>

LEMMA InvParts == EmitterInv <=> OnePlace /\ Numbered /\ LocalInv
BY DEF EmitterInv, LocalInv

LEMMA EmptyInjective == IsInjective(<<>>)
BY DEF IsInjective

\* Sequences of events at different places can be put together.
LEMMA TogetherInjective ==
  ASSUME ETypeOK, OnePlace, Numbered, NEW s \in Seq(Event), NEW u \in Seq(Event), IsInjective(s), IsInjective(u),
         NEW z \in Places, NEW w \in Places, z # w,
         \A e \in ToSet(s) : Stands(e, z), \A e \in ToSet(u) : Stands(e, w)
  PROVE  IsInjective(s \o u)
<1>1. ToSet(s) \subseteq Event
  BY DEF ToSet
<1>2. ToSet(s) \cap ToSet(u) = {}
  BY <1>1, StandsOnce
<1>3. QED
  BY <1>2, ConcatInjective

LEMMA WaitersKept ==
  ASSUME ETypeOK, LocalInv, NEW p \in Producers, waiting' = [waiting EXCEPT ![p] = <<>>]
  PROVE  \A r, q \in Producers : Len(waiting'[r]) <= 1 /\ (waiting'[r] = waiting'[q] /\ waiting'[r] # <<>> => r = q)
<1>1. waiting'[p] = <<>> /\ \A q \in Producers \ {p} : waiting'[q] = waiting[q]
  BY DEF ETypeOK
<1>2. Len(<<>>) <= 1
  OBVIOUS
<1>3. QED
  BY <1>1, <1>2 DEF LocalInv

\* Every step keeps the sequences free of duplicates and idle tasks free of events.
LEMMA NextLocal ==
  ASSUME BatchSize \in Nat, ETypeOK, EmitterInv, [ENext]_evars
  PROVE  LocalInv'
<1>0. OnePlace /\ Numbered /\ LocalInv
  BY InvParts
<1>1. ASSUME NEW p \in Producers, NEW severity \in Severities, Emit(p, severity)
      PROVE  LocalInv'
  <2> DEFINE e == [id |-> emitted + 1, severity |-> severity]
  <2>1. e \in Event /\ <<e>> \in Seq(Event) /\ e.id = emitted + 1 /\ emitted \in Nat
    BY DEF Event, ETypeOK
  <2>2. \/ queue' = Append(queue, e) /\ UNCHANGED waiting
        \/ UNCHANGED <<queue, waiting>>
        \/ waiting' = [waiting EXCEPT ![p] = <<e>>] /\ UNCHANGED queue
    BY <1>1 DEF Emit
  <2>3. waiting[p] = <<>> /\ UNCHANGED <<batch, flushed, written, writer, stopper>>
    BY <1>1 DEF Emit
  <2> HIDE DEF e
  <2>4. \A z \in Places : ~Stands(e, z)
    BY <1>0, <2>1, StandsOnce
  <2>5. CASE queue' = Append(queue, e) /\ UNCHANGED waiting
    <3>1. e \notin ToSet(queue)
      BY <2>4 DEF Stands, Places
    <3>2. queue' = queue \o <<e>> /\ queue \in Seq(Event) /\ ToSet(<<e>>) = {e} /\ IsInjective(<<e>>)
      <4>1. queue \in Seq(Event)
        BY DEF ETypeOK
      <4>2. queue' = queue \o <<e>>
        BY <2>1, <2>5, <4>1
      <4>3. ToSet(<<e>>) = {e}
        BY DEF ToSet
      <4>4. Len(<<e>>) <= 1
        OBVIOUS
      <4>5. IsInjective(<<e>>)
        BY <2>1, <4>4, ShortInjective
      <4>6. QED
        BY <4>1, <4>2, <4>3, <4>5
    <3>3. IsInjective(queue')
      <4>1. IsInjective(queue)
        BY <1>0 DEF LocalInv
      <4>2. ToSet(queue) \cap ToSet(<<e>>) = {}
        BY <3>1, <3>2
      <4>3. <<e>> \in Seq(Event)
        BY <2>1
      <4>4. QED
        BY <3>2, <4>1, <4>2, <4>3, ConcatInjective
    <3>4. QED
      BY <1>0, <2>3, <2>5, <3>3 DEF LocalInv
  <2>6. CASE UNCHANGED <<queue, waiting>>
    BY <1>0, <2>3, <2>6 DEF LocalInv
  <2>7. CASE waiting' = [waiting EXCEPT ![p] = <<e>>] /\ UNCHANGED queue
    <3>1. waiting'[p] = <<e>> /\ \A q \in Producers \ {p} : waiting'[q] = waiting[q]
      BY <2>7 DEF ETypeOK
    <3>2. \A q \in Producers : waiting[q] # <<e>>
      <4>1. \A q \in Producers : e \notin ToSet(waiting[q])
        BY <2>4 DEF Stands, Places
      <4>2. e \in ToSet(<<e>>)
        BY DEF ToSet
      <4>3. QED
        BY <4>1, <4>2
    <3>3. Len(<<e>>) <= 1
      OBVIOUS
    <3>4. \A r, q \in Producers : Len(waiting'[r]) <= 1 /\ (waiting'[r] = waiting'[q] /\ waiting'[r] # <<>> => r = q)
      BY <1>0, <3>1, <3>2, <3>3 DEF LocalInv
    <3>5. QED
      BY <1>0, <2>3, <2>7, <3>4 DEF LocalInv
  <2>8. QED
    BY <2>2, <2>5, <2>6, <2>7
<1>2. ASSUME NEW p \in Producers, Enqueue(p) PROVE LocalInv'
  <2>1. waiting[p] \in Seq(Event) /\ queue \in Seq(Event) /\ IsInjective(waiting[p]) /\ IsInjective(queue)
    BY <1>0, ShortInjective DEF ETypeOK, LocalInv
  <2>2. /\ \A e \in ToSet(queue) : Stands(e, "queued")
        /\ \A e \in ToSet(waiting[p]) : Stands(e, "waiting")
    BY DEF Stands
  <2>3. IsInjective(queue')
    BY <1>0, <1>2, <2>1, <2>2, TogetherInjective DEF Enqueue, Places
  <2>4. UNCHANGED <<batch, flushed, written, writer, stopper>> /\ waiting' = [waiting EXCEPT ![p] = <<>>]
    BY <1>2 DEF Enqueue
  <2>5. QED
    BY <1>0, <2>3, <2>4, WaitersKept DEF LocalInv
<1>3. ASSUME NEW p \in Producers, GiveUp(p) PROVE LocalInv'
  <2>1. UNCHANGED <<queue, batch, flushed, written, writer, stopper>> /\ waiting' = [waiting EXCEPT ![p] = <<>>]
    BY <1>3 DEF GiveUp
  <2>2. QED
    BY <1>0, <2>1, WaitersKept DEF LocalInv
<1>4. CASE Take
  <2>1. IsInjective(batch') /\ IsInjective(queue')
    BY <1>0, <1>4, TakenAndLeft DEF Take, ETypeOK, LocalInv
  <2>2. QED
    BY <1>0, <1>4, <2>1 DEF Take, LocalInv
<1>5. CASE Interval
  BY <1>0, <1>5 DEF Interval, LocalInv
<1>6. /\ \A e \in ToSet(written) : Stands(e, "written")
      /\ \A e \in ToSet(batch) : Stands(e, "taken")
      /\ \A e \in ToSet(flushed) : Stands(e, "secured")
  BY DEF Stands
<1>7. IsInjective(written \o batch)
  BY <1>0, <1>6, TogetherInjective DEF ETypeOK, LocalInv, Places
<1>8. IsInjective(written \o flushed)
  BY <1>0, <1>6, TogetherInjective DEF ETypeOK, LocalInv, Places
<1>9. ASSUME NEW ok \in BOOLEAN, Write(ok) PROVE LocalInv'
  <2>1. IsInjective(written') /\ batch' = <<>>
    BY <1>0, <1>7, <1>9 DEF Write, LocalInv
  <2>2. QED
    BY <1>0, <1>9, <2>1, EmptyInjective DEF Write, LocalInv
<1>10. ASSUME NEW ok \in BOOLEAN, Flush(ok) PROVE LocalInv'
  <2>1. IsInjective(written') /\ flushed' = <<>>
    BY <1>0, <1>8, <1>10 DEF Flush, LocalInv
  <2>2. QED
    BY <1>0, <1>10, <2>1, EmptyInjective DEF Flush, LocalInv
<1>11. CASE Stop
  <2>1. flushed' = queue /\ queue' = <<>> /\ (stopper' # "flushing" => queue = <<>>)
    BY <1>11 DEF Stop
  <2>2. QED
    BY <1>0, <1>11, <2>1, EmptyInjective DEF Stop, LocalInv
<1>12. CASE Cancel
  <2>1. IsInjective(written') /\ batch' = <<>>
    BY <1>0, <1>7, <1>12 DEF Cancel, LocalInv
  <2>2. QED
    BY <1>0, <1>12, <2>1, EmptyInjective DEF Cancel, LocalInv
<1>13. CASE UNCHANGED evars
  BY <1>0, <1>13 DEF evars, LocalInv
<1>14. QED
  BY <1>1, <1>2, <1>3, <1>4, <1>5, <1>9, <1>10, <1>11, <1>12, <1>13 DEF ENext, Writer

-----------------------------------------------------------------------------
(* The refinement *)

LEMMA LinesAre == /\ <<"waiting", "queued">> \in Channel!Lines /\ <<"waiting", "timeout">> \in Channel!Lines
                  /\ <<"queued", "taken">> \in Channel!Lines
                  /\ <<"taken", "written">> \in Channel!Lines /\ <<"taken", "failed">> \in Channel!Lines
                  /\ <<"secured", "written">> \in Channel!Lines /\ <<"secured", "failed">> \in Channel!Lines
BY DEF Channel!Lines

LEMMA PlaceIs ==
  ASSUME ETypeOK, NEW x \in Places
  PROVE  Channel!AtPlace(x) = {e \in Event : Stands(e, x)} \X {x}
<1>1. Lives \subseteq Event \X Places /\ \A e \in Event : <<e, x>> \in Lives <=> Stands(e, x)
  BY LivesAre DEF AllStand
<1>2. \A l \in Lives : l[2] = x => l = <<l[1], x>> /\ l[1] \in Event
  BY <1>1
<1>3. Channel!AtPlace(x) \subseteq {e \in Event : Stands(e, x)} \X {x}
  <2> SUFFICES ASSUME NEW l \in Lives, l[2] = x PROVE l \in {e \in Event : Stands(e, x)} \X {x}
    BY DEF Channel!AtPlace
  <2>1. PICK e \in Event : l = <<e, x>>
    BY <1>2
  <2>2. Stands(e, x)
    BY <1>1, <2>1
  <2>3. QED
    BY <2>1, <2>2
<1>4. ASSUME NEW e \in Event, Stands(e, x) PROVE <<e, x>> \in Channel!AtPlace(x)
  <2>1. <<e, x>> \in Lives /\ <<e, x>>[2] = x
    BY <1>1, <1>4
  <2>2. QED
    BY <2>1 DEF Channel!AtPlace
<1>5. QED
  BY <1>3, <1>4

\* Places of which the events are those of one sequence.
LEMMA SequencePlaces ==
  ASSUME ETypeOK
  PROVE  /\ Channel!AtPlace("queued") = ToSet(queue) \X {"queued"}
         /\ Channel!AtPlace("taken") = ToSet(batch) \X {"taken"}
         /\ Channel!AtPlace("secured") = ToSet(flushed) \X {"secured"}
<1>1. {e \in Event : Stands(e, "queued")} = ToSet(queue)
  BY EventSets DEF Stands, Causes
<1>2. {e \in Event : Stands(e, "taken")} = ToSet(batch)
  BY EventSets DEF Stands, Causes
<1>3. {e \in Event : Stands(e, "secured")} = ToSet(flushed)
  BY EventSets DEF Stands, Causes
<1>4. "queued" \in Places /\ "taken" \in Places /\ "secured" \in Places
  BY DEF Places
<1>5. QED
  BY <1>1, <1>2, <1>3, <1>4, PlaceIs

\* An event that comes is sent, in the words of the channel.
LEMMA ComesIsSent ==
  ASSUME ETypeOK, ETypeOK', OnePlace, Numbered, emitted' = emitted + 1, NEW e, NEW x, Comes(e, x),
         x \in {"queued"} \cup (IF e \in [id : Nat, severity : {"warning"}] THEN {"waiting"} ELSE {"dropped"}),
         Phase # "closed", Phase' = Phase
  PROVE  Channel!Send
<1>1. Lives \subseteq Event \X Places /\ Lives' \subseteq Event \X Places
  BY LivesAre, LivesAreNext DEF AllStand
<1>2. e \in Event /\ x \in Places /\ e.id = emitted + 1 /\ emitted \in Nat
  BY DEF Comes, ETypeOK
<1>3. \A z \in Places : ~Stands(e, z)
  BY <1>2, StandsOnce
<1>4. \A l \in Lives : l[1] # e
  <2> SUFFICES ASSUME NEW l \in Lives, l[1] = e PROVE FALSE
    OBVIOUS
  <2>1. PICK z \in Places : l = <<e, z>>
    BY <1>1
  <2>2. QED
    BY <1>2, <1>3, <2>1, LivesAre DEF AllStand
<1>5. Lives' = Lives \cup {<<e, x>>}
  <2>1. ASSUME NEW d \in Event, NEW z \in Places
        PROVE  <<d, z>> \in Lives' <=> <<d, z>> \in Lives \cup {<<e, x>>}
    <3>1. <<d, z>> \in {<<e, x>>} <=> d = e /\ z = x
      OBVIOUS
    <3>2. (<<d, z>> \in Lives <=> Stands(d, z)) /\ (<<d, z>> \in Lives' <=> Stands(d, z)')
      BY LivesAre, LivesAreNext DEF AllStand
    <3>3. Stands(d, z)' <=> Stands(d, z) \/ (d = e /\ z = x)
      BY DEF Comes
    <3>4. QED
      BY <3>1, <3>2, <3>3
  <2>2. {<<e, x>>} \subseteq Event \X Places
    BY <1>2
  <2>3. QED
    BY <1>1, <2>1, <2>2
<1>6. <<e, x>> \in Lives' \ Lives /\ <<e, x>>[1] = e /\ <<e, x>>[2] = x
  BY <1>2, <1>3, <1>5, LivesAre DEF AllStand
<1>7. QED
  BY <1>4, <1>5, <1>6 DEF Channel!Send

\* Every step is one of the channel or none.
LEMMA NextRefines ==
  ASSUME BatchSize \in Nat, ETypeOK, ETypeOK', EmitterInv, [ENext]_evars
  PROVE  [Channel!Next]_<<Lives, Phase>>
<1>0. OnePlace /\ Numbered
  BY InvParts
<1>1. ASSUME NEW p \in Producers, NEW severity \in Severities, Emit(p, severity)
      PROVE  Channel!Next
  <2> DEFINE e == [id |-> emitted + 1, severity |-> severity]
  <2>1. \/ Comes(e, "queued")
        \/ severity = "info" /\ Comes(e, "dropped")
        \/ severity = "warning" /\ Comes(e, "waiting")
    BY <1>1, EmitComes
  <2>2. emitted' = emitted + 1 /\ Phase' = Phase /\ Phase # "closed"
    BY <1>1 DEF Emit, Phase
  <2>3. e \in [id : Nat, severity : {"warning"}] <=> severity = "warning"
    BY DEF ETypeOK
  <2> HIDE DEF e
  <2>4. Channel!Send
    BY <1>0, <2>1, <2>2, <2>3, ComesIsSent
  <2>5. QED
    BY <2>4 DEF Channel!Next
<1>2. ASSUME NEW p \in Producers, Enqueue(p) PROVE [Channel!Next]_<<Lives, Phase>>
  BY <1>2, EnqueueGoes, GoesIsMove, LinesAre DEF Enqueue, Phase
<1>3. ASSUME NEW p \in Producers, GiveUp(p) PROVE [Channel!Next]_<<Lives, Phase>>
  BY <1>3, GiveUpGoes, GoesIsMove, LinesAre DEF GiveUp, Phase
<1>4. CASE Take
  BY <1>4, TakeGoes, GoesIsMove, LinesAre DEF Take, Phase
<1>5. CASE Interval
  BY <1>5 DEF Interval, Lives, Phase
<1>6. ASSUME NEW ok \in BOOLEAN, Write(ok) PROVE [Channel!Next]_<<Lives, Phase>>
  <2>1. Goes(ToSet(batch), "taken", "written") \/ Goes(ToSet(batch), "taken", "failed")
    BY <1>6, BatchGoes DEF Write, Causes
  <2>2. Phase' = Phase
    BY <1>6 DEF Write, Phase
  <2>3. QED
    BY <2>1, <2>2, GoesIsMove, LinesAre
<1>7. ASSUME NEW ok \in BOOLEAN, Flush(ok) PROVE [Channel!Next]_<<Lives, Phase>>
  <2>1. Goes(ToSet(flushed), "secured", "written") \/ Goes(ToSet(flushed), "secured", "failed")
    BY <1>7, FlushedGoes DEF Flush
  <2>2. Phase' = Phase
    BY <1>7 DEF Flush, Phase
  <2>3. QED
    BY <2>1, <2>2, GoesIsMove, LinesAre
<1>8. CASE Stop
  <2>1. Lives' = Channel!Moved(Channel!AtPlace("queued"), "secured")
    BY <1>8, StopGoes, GoneAre, SequencePlaces
  <2>2. Phase = "open" /\ Phase' = "closing"
    BY <1>8 DEF Stop, Phase
  <2>3. QED
    BY <2>1, <2>2 DEF Channel!Close, Channel!Next
<1>9. CASE Cancel
  <2>1. Goes(ToSet(batch), "taken", "written") \/ Goes(ToSet(batch), "taken", "cancelled")
    BY <1>9, BatchGoes DEF Cancel, Causes
  <2>2. PICK x \in {"written", "cancelled"} : Lives' = Channel!Moved(Channel!AtPlace("taken"), x)
    BY <2>1, GoneAre, SequencePlaces
  <2>3. Channel!AtPlace("secured") = {}
    BY <1>9, SequencePlaces, SetOfEmpty DEF Cancel, EmitterInv
  <2>4. Phase = "closing" /\ Phase' = "closed"
    BY <1>9 DEF Cancel, Phase
  <2>5. QED
    BY <2>2, <2>3, <2>4 DEF Channel!Finish, Channel!Next
<1>10. CASE UNCHANGED evars
  BY <1>10 DEF evars, Lives, Phase
<1>11. QED
  BY <1>1, <1>2, <1>3, <1>4, <1>5, <1>6, <1>7, <1>8, <1>9, <1>10 DEF ENext, Writer

\* Every step keeps every event at one place, numbered by its emission.
LEMMA NextPlaces ==
  ASSUME BatchSize \in Nat, ETypeOK, ETypeOK', EmitterInv, [ENext]_evars
  PROVE  OnePlace' /\ Numbered'
<1>0. OnePlace /\ Numbered
  BY InvParts
<1>1. ASSUME NEW p \in Producers, NEW severity \in Severities, Emit(p, severity)
      PROVE  OnePlace' /\ Numbered'
  <2>1. emitted' = emitted + 1
    BY <1>1 DEF Emit
  <2>2. PICK e, x : Comes(e, x)
    BY <1>1, EmitComes
  <2>3. QED
    BY <1>0, <2>1, <2>2, ComesKeepsPlaces
<1>2. ASSUME emitted' = emitted, NEW E, NEW x, NEW y, Goes(E, x, y)
      PROVE  OnePlace' /\ Numbered'
  BY <1>0, <1>2, GoesKeepsPlaces
<1>3. ASSUME NEW p \in Producers, Enqueue(p) \/ GiveUp(p) PROVE OnePlace' /\ Numbered'
  BY <1>2, <1>3, EnqueueGoes, GiveUpGoes DEF Enqueue, GiveUp
<1>4. CASE Take
  BY <1>2, <1>4, TakeGoes DEF Take
<1>5. ASSUME NEW ok \in BOOLEAN, Write(ok) PROVE OnePlace' /\ Numbered'
  <2>1. Goes(ToSet(batch), "taken", "written") \/ Goes(ToSet(batch), "taken", "failed")
    BY <1>5, BatchGoes DEF Write, Causes
  <2>2. QED
    BY <1>2, <1>5, <2>1 DEF Write
<1>6. ASSUME NEW ok \in BOOLEAN, Flush(ok) PROVE OnePlace' /\ Numbered'
  <2>1. Goes(ToSet(flushed), "secured", "written") \/ Goes(ToSet(flushed), "secured", "failed")
    BY <1>6, FlushedGoes DEF Flush
  <2>2. QED
    BY <1>2, <1>6, <2>1 DEF Flush
<1>7. CASE Stop
  BY <1>2, <1>7, StopGoes DEF Stop
<1>8. CASE Cancel
  <2>1. Goes(ToSet(batch), "taken", "written") \/ Goes(ToSet(batch), "taken", "cancelled")
    BY <1>8, BatchGoes DEF Cancel, Causes
  <2>2. QED
    BY <1>2, <1>8, <2>1 DEF Cancel
<1>9. CASE Interval \/ UNCHANGED evars
  BY <1>0, <1>9 DEF Interval, evars, OnePlace, Numbered, Lives
<1>10. QED
  BY <1>1, <1>3, <1>4, <1>5, <1>6, <1>7, <1>8, <1>9 DEF ENext, Writer

LEMMA Initially == EInit => ETypeOK /\ EmitterInv /\ Channel!Init
<1> SUFFICES ASSUME EInit PROVE ETypeOK /\ EmitterInv /\ Channel!Init
  OBVIOUS
<1>1. Lives = {}
  <2>1. \A p \in Producers : ToSet(waiting[p]) = {}
    BY SetOfEmpty DEF EInit
  <2>2. QED
    BY <2>1, SetOfEmpty DEF EInit, Lives
<1>2. ETypeOK
  BY DEF EInit, ETypeOK
<1>3. LocalInv
  <2>1. Len(<<>>) <= 1
    OBVIOUS
  <2>2. QED
    BY <2>1, EmptyInjective DEF EInit, LocalInv
<1>4. OnePlace /\ Numbered
  BY <1>1 DEF OnePlace, Numbered
<1>5. Channel!Init
  BY <1>1 DEF EInit, Phase, Channel!Init
<1>6. QED
  BY <1>2, <1>3, <1>4, <1>5, InvParts

\* The sequences of events and the history of losses keep their types.
THEOREM EmitterTypeCorrect ==
  ASSUME BatchSize \in Nat
  PROVE  ESpec => []ETypeOK
BY Initially, EmitterNextType, PTL DEF ESpec

\* What makes the refinement inductive: an event is at one place, no sequence holds
\* it twice, idle tasks hold none.
THEOREM InvariantHolds ==
  ASSUME BatchSize \in Nat
  PROVE  ESpec => []EmitterInv
<1>1. ETypeOK /\ ETypeOK' /\ EmitterInv /\ [ENext]_evars => EmitterInv'
  BY NextPlaces, NextLocal DEF EmitterInv, LocalInv
<1>2. QED
  BY <1>1, Initially, EmitterTypeCorrect, PTL DEF ESpec

\* The emitter implements the channel: whatever producers, writer and stop do in
\* between, no event vanishes from it or is written twice, and a warning is not
\* lost at once to a full queue.
THEOREM ImplementsChannel ==
  ASSUME BatchSize \in Nat
  PROVE  ESpec => ChannelSpec
<1>1. ETypeOK /\ ETypeOK' /\ EmitterInv /\ [ENext]_evars => [Channel!Next]_<<Lives, Phase>>
  BY NextRefines
<1>2. QED
  BY <1>1, Initially, EmitterTypeCorrect, InvariantHolds, PTL DEF ESpec, ChannelSpec, Channel!Spec

\* No row of audit_events is there twice.
THEOREM WrittenOnce ==
  ASSUME BatchSize \in Nat
  PROVE  ESpec => []IsInjective(written)
<1>1. EmitterInv => IsInjective(written)
  BY DEF EmitterInv
<1>2. QED
  BY <1>1, InvariantHolds, PTL

-----------------------------------------------------------------------------
(* The runner *)

USE RunnerAssumption

\* Rows that are written keep their types.
LEMMA RowWritten ==
  ASSUME NEW r \in Row
  PROVE  /\ \A x \in Statuses : [r EXCEPT !.status = x] \in Row
         /\ \A n \in 0..(Threshold - 1) : [r EXCEPT !.errors = n] \in Row
         /\ \A v \in 1..MaxVersion : [r EXCEPT !.version = v] \in Row
BY DEF Row

\* What the request of an update writes is of the right type.
LEMMA VersionWritten ==
  ASSUME NEW versions \in SUBSET ConfigRow, NEW v \in 1..MaxVersion
  PROVE  NewVersion(versions, v) \in SUBSET ConfigRow
<1>1. [version |-> v, active |-> TRUE] \in ConfigRow
  BY DEF ConfigRow
<1>2. \A c \in ConfigRow : [c EXCEPT !.active = FALSE] \in ConfigRow
  BY DEF ConfigRow
<1>3. QED
  BY <1>1, <1>2 DEF NewVersion, Deactivated

\* Every step keeps the types of rows, tasks and histories.
LEMMA NextType == TypeOK /\ [Next]_vars => TypeOK'
<1> SUFFICES ASSUME TypeOK, [Next]_vars PROVE TypeOK'
  OBVIOUS
<1> USE DEF TypeOK
<1>1. ASSUME NEW s \in Strategies, NEW new \in Statuses, ChangeStatus(s, new)
      PROVE  TypeOK'
  <2>1. rows[s] \in Row /\ rows[s].errors \in 0..(Threshold - 1) /\ 0 \in 0..(Threshold - 1)
    BY DEF Row
  <2>2. rows' = [rows EXCEPT ![s] = [[@ EXCEPT !.status = new]
                    EXCEPT !.errors = IF new = "enabled" THEN 0 ELSE rows[s].errors]]
    BY <1>1 DEF ChangeStatus
  <2>3. rows' \in [Strategies -> Row]
    BY <2>1, <2>2, RowWritten
  <2>4. streak' \in [Strategies -> Nat]
    BY <1>1 DEF ChangeStatus
  <2>5. requests' \in 0..MaxRequests
    BY <1>1 DEF ChangeStatus
  <2>6. QED
    BY <1>1, <2>3, <2>4, <2>5 DEF ChangeStatus
<1>2. ASSUME NEW e \in Editors, NEW s \in Strategies, LoadForUpdate(e, s)
      PROVE  TypeOK'
  <2>1. [pc |-> "loaded", strategy |-> s, status |-> rows[s].status, version |-> rows[s].version] \in Update
    BY <1>2 DEF LoadForUpdate, Update, Row
  <2>2. QED
    BY <1>2, <2>1 DEF LoadForUpdate
<1>3. ASSUME NEW e \in Editors, WriteUpdate(e) PROVE TypeOK'
  <2>1. editor[e] \in Update
    BY <1>3 DEF WriteUpdate
  <2> DEFINE s == editor[e].strategy
             v == editor[e].version + 1
  <2>2. s \in Strategies /\ v \in 1..MaxVersion
    BY <2>1 DEF Update
  <2> HIDE DEF s, v
  <2>3. NewVersion(configs[s], v) \in SUBSET ConfigRow /\ [rows[s] EXCEPT !.version = v] \in Row
    BY <2>2, VersionWritten, RowWritten
  <2>4. \/ rows' = rows /\ configs' = configs
        \/ /\ rows' = [rows EXCEPT ![s] = [rows[s] EXCEPT !.version = v]]
           /\ configs' = [configs EXCEPT ![s] = NewVersion(configs[s], v)]
    BY <1>3 DEF WriteUpdate, s, v
  <2>5. rows' \in [Strategies -> Row] /\ configs' \in [Strategies -> SUBSET ConfigRow]
    BY <2>2, <2>3, <2>4
  <2>6. editor' \in [Editors -> Update \cup {Idle}]
    BY <1>3 DEF WriteUpdate
  <2>7. QED
    BY <1>3, <2>5, <2>6 DEF WriteUpdate
<1>4. CASE BeginCycle
  <2>1. PICK d \in SUBSET Enabled :
          /\ due' = d
          /\ task' = [s \in Strategies |-> IF s \in d THEN "symbols" ELSE "none"]
    BY <1>4 DEF BeginCycle
  <2>2. due' \subseteq Strategies
    BY <2>1 DEF Enabled
  <2>3. loaded' \in [Strategies -> 0..(Threshold - 1)]
    BY <1>4 DEF BeginCycle, Row
  <2>4. signals' \in [Strategies -> 0..MaxSignals]
    BY <1>4 DEF BeginCycle, Zeros
  <2>5. QED
    BY <1>4, <2>1, <2>2, <2>3, <2>4 DEF BeginCycle
<1>5. ASSUME NEW s \in Strategies, Task(s) PROVE TypeOK'
  BY <1>5 DEF Task, Raise, BeginEmit, EndEmit, SymbolsDone, BeginRecord, RecordCollides, EndRecord, Move, Ended
<1>6. ASSUME Results
      PROVE  /\ due' \subseteq Strategies /\ disturbed' \subseteq Strategies
             /\ task' \in [Strategies -> {"none", "symbols", "emitting", "record", "recording"} \cup Ended]
             /\ loaded' \in [Strategies -> 0..(Threshold - 1)]
             /\ signals' \in [Strategies -> 0..MaxSignals] /\ broken' \in BOOLEAN
  <2>1. due' = {} /\ disturbed' = {} /\ task' = [s \in Strategies |-> "none"] /\ broken' = FALSE
    BY <1>6 DEF Results
  <2>2. loaded' = [s \in Strategies |-> 0] /\ signals' = [s \in Strategies |-> 0]
    BY <1>6 DEF Results, Zeros
  <2>3. 0 \in 0..(Threshold - 1) /\ 0 \in 0..MaxSignals
    OBVIOUS
  <2>4. QED
    BY <2>1, <2>2, <2>3
<1>7. CASE Commit
  <2>1. ASSUME NEW s \in due PROVE Tallied(s) \in Row
    <3>1. rows[s] \in Row /\ loaded[s] \in 0..(Threshold - 1) /\ 0 \in 0..(Threshold - 1) /\ "paused" \in Statuses
      BY <2>1 DEF Statuses
    <3>2. CASE s \in AutoPaused
      <4> DEFINE r == [rows[s] EXCEPT !.status = "paused"]
      <4>1. Tallied(s) = [r EXCEPT !.errors = 0]
        BY <3>2 DEF Tallied
      <4>2. r \in Row
        BY <3>1, RowWritten
      <4> HIDE DEF r
      <4>3. \A n \in 0..(Threshold - 1) : [r EXCEPT !.errors = n] \in Row
        BY <4>2, RowWritten
      <4>4. [r EXCEPT !.errors = 0] \in Row
        BY <3>1, <4>3
      <4>5. QED
        BY <4>1, <4>4, Zenon
    <3>3. CASE s \notin AutoPaused /\ task[s] = "failed"
      <4>1. Failures(s) \in 0..(Threshold - 1)
        BY <2>1, <3>1, <3>3 DEF AutoPaused, Failures
      <4>2. QED
        BY <3>1, <3>3, <4>1, RowWritten DEF Tallied
    <3>4. CASE s \notin AutoPaused /\ task[s] # "failed"
      <4>1. rows[s].errors \in 0..(Threshold - 1)
        BY <3>1 DEF Row
      <4>2. Tallied(s) = [rows[s] EXCEPT !.errors = IF loaded[s] = 0 THEN @ ELSE 0]
        BY <3>4, Zenon DEF Tallied
      <4>3. CASE loaded[s] = 0
        <5>1. [rows[s] EXCEPT !.errors = rows[s].errors] \in Row
          BY <3>1, <4>1, RowWritten
        <5>2. QED
          BY <4>2, <4>3, <5>1
      <4>4. CASE loaded[s] # 0
        <5>1. [rows[s] EXCEPT !.errors = 0] \in Row
          BY <3>1, RowWritten
        <5>2. QED
          BY <4>2, <4>4, <5>1
      <4>5. QED
        BY <4>3, <4>4
    <3>5. QED
      BY <3>2, <3>3, <3>4
  <2>2. rows' \in [Strategies -> Row]
    BY <1>7, <2>1 DEF Commit
  <2>3. streak' \in [Strategies -> Nat]
    BY <1>7 DEF Commit
  <2>4. QED
    BY <1>6, <1>7, <2>2, <2>3 DEF Commit
<1>8. CASE Rollback
  BY <1>6, <1>8 DEF Rollback
<1>9. ASSUME NEW s \in Strategies, DatabaseError(s) PROVE TypeOK'
  BY <1>9 DEF DatabaseError, Ended
<1>10. CASE UNCHANGED vars
  BY <1>10 DEF vars
<1>11. QED
  BY <1>1, <1>2, <1>3, <1>4, <1>5, <1>7, <1>8, <1>9, <1>10 DEF Next, Cycle, Request

\* Rows, configurations, requests, tasks and histories keep their types, so that
\* a count of failures that is written stays below the threshold.
THEOREM TypeCorrect == Spec => []TypeOK
<1>1. Init => TypeOK
  <2> SUFFICES ASSUME Init PROVE TypeOK
    OBVIOUS
  <2>1. [status |-> "enabled", errors |-> 0, version |-> 1] \in Row
    BY DEF Row, Statuses
  <2>2. [version |-> 1, active |-> TRUE] \in ConfigRow
    BY DEF ConfigRow
  <2>3. rows \in [Strategies -> Row] /\ configs \in [Strategies -> SUBSET ConfigRow]
    BY <2>1, <2>2, Zenon DEF Init
  <2>4. editor \in [Editors -> Update \cup {Idle}] /\ due \subseteq Strategies /\ disturbed \subseteq Strategies
    BY DEF Init
  <2>5. /\ task \in [Strategies -> {"none", "symbols", "emitting", "record", "recording"} \cup Ended]
        /\ loaded \in [Strategies -> 0..(Threshold - 1)] /\ streak \in [Strategies -> Nat]
        /\ signals \in [Strategies -> 0..MaxSignals]
    BY DEF Init, Zeros
  <2>6. broken = FALSE /\ faults = 0 /\ requests = 0
    BY Zenon DEF Init
  <2>7. broken \in BOOLEAN
    BY <2>6
  <2>8. faults \in 0..MaxFaults /\ requests \in 0..MaxRequests
    BY <2>6
  <2>9. QED
    BY <2>3, <2>4, <2>5, <2>7, <2>8, Zenon DEF TypeOK
<1>2. QED
  BY <1>1, NextType, PTL DEF Spec

-----------------------------------------------------------------------------
(* Configurations *)

\* A record of strategy_configs is its version and whether it is active.
LEMMA ConfigRowIs ==
  ASSUME NEW c \in ConfigRow, NEW v, c.version = v, c.active
  PROVE  c = [version |-> v, active |-> TRUE]
BY DEF ConfigRow

\* A strategy whose versions are its history has one active configuration.
LEMMA HistoryHasOneActive ==
  ASSUME TypeOK, ConfigInv
  PROVE  OneActiveConfig
<1> SUFFICES ASSUME NEW s \in Strategies
             PROVE  ActiveConfigs(s) = {[version |-> rows[s].version, active |-> TRUE]}
  BY DEF OneActiveConfig
<1>1. configs[s] \subseteq ConfigRow /\ rows[s].version \in 1..MaxVersion
  BY DEF TypeOK, Row
<1>2. PICK c \in configs[s] : c.version = rows[s].version
  BY <1>1 DEF ConfigInv
<1>3. c.active
  BY <1>2 DEF ConfigInv
<1>4. [version |-> rows[s].version, active |-> TRUE] \in ActiveConfigs(s)
  BY <1>1, <1>2, <1>3, ConfigRowIs DEF ActiveConfigs
<1>5. \A d \in ActiveConfigs(s) : d = [version |-> rows[s].version, active |-> TRUE]
  <2> SUFFICES ASSUME NEW d \in ActiveConfigs(s)
               PROVE  d = [version |-> rows[s].version, active |-> TRUE]
    OBVIOUS
  <2>1. d \in configs[s] /\ d.active
    BY DEF ActiveConfigs
  <2>2. d.version = rows[s].version
    BY <2>1 DEF ConfigInv
  <2>3. QED
    BY <1>1, <2>1, <2>2, ConfigRowIs
<1>6. QED
  BY <1>4, <1>5

\* A step that leaves versions, configurations and requests alone keeps them so.
LEMMA ConfigsUntouched ==
  ASSUME ConfigInv, TypeOK, configs' = configs, editor' = editor,
         \A s \in Strategies : rows'[s].version = rows[s].version
  PROVE  ConfigInv'
<1>1. \A e \in Editors : editor[e] # Idle => editor[e].strategy \in Strategies
  BY DEF TypeOK, Update
<1>2. QED
  BY <1>1 DEF ConfigInv

\* The write of an update: the new version is the next one or is there already.
LEMMA WriteKeepsHistory ==
  ASSUME ConfigInv, TypeOK, NEW e \in Editors, WriteUpdate(e)
  PROVE  ConfigInv'
<1> DEFINE s == editor[e].strategy
           v == editor[e].version + 1
<1>1. s \in Strategies /\ v \in 1..MaxVersion
  BY DEF TypeOK, Update, WriteUpdate
<1>2. editor' = [editor EXCEPT ![e] = Idle]
  BY DEF WriteUpdate
<1>3. CASE UNCHANGED <<rows, configs>>
  BY <1>2, <1>3 DEF ConfigInv, TypeOK
<1>4. CASE /\ \A c \in configs[s] : c.version # v
           /\ configs' = [configs EXCEPT ![s] = NewVersion(configs[s], v)]
           /\ rows' = [rows EXCEPT ![s].version = v]
  <2> DEFINE n == rows[s].version
  <2>1. n \in 1..MaxVersion /\ configs[s] \subseteq ConfigRow /\ v - 1 <= n /\ v - 1 \in Nat
    BY <1>1 DEF TypeOK, Row, ConfigInv, WriteUpdate, Update
  <2>2. v = n + 1
    BY <1>4, <2>1, <1>1 DEF ConfigInv
  <2>3. /\ rows'[s].version = v
        /\ \A t \in Strategies \ {s} : rows'[t] = rows[t] /\ configs'[t] = configs[t]
        /\ configs'[s] = NewVersion(configs[s], v)
    BY <1>1, <1>4 DEF TypeOK, Row
  <2> HIDE DEF s, v, n
  <2>4. ASSUME NEW c \in configs'[s]
        PROVE  c.version \in 1..v /\ (c.active <=> c.version = v)
    <3>1. CASE c = [version |-> v, active |-> TRUE]
      BY <1>1, <3>1
    <3>2. ASSUME NEW d \in configs[s], c = [d EXCEPT !.active = FALSE]
          PROVE  c.version \in 1..v /\ (c.active <=> c.version = v)
      <4>1. d.version \in 1..n
        BY <1>1 DEF ConfigInv, n
      <4>2. c.version = d.version /\ c.active = FALSE
        BY <2>1, <3>2 DEF ConfigRow
      <4>3. c.version \in 1..v /\ c.version # v
        BY <2>1, <2>2, <4>1, <4>2
      <4>4. QED
        BY <4>2, <4>3
    <3>3. QED
      BY <2>3, <3>1, <3>2 DEF NewVersion, Deactivated
  <2>5. ASSUME NEW w \in 1..v PROVE \E c \in configs'[s] : c.version = w
    <3>1. CASE w = v
      <4>1. [version |-> v, active |-> TRUE] \in configs'[s]
        BY <2>3 DEF NewVersion
      <4>2. QED
        BY <3>1, <4>1
    <3>2. CASE w # v
      <4>1. w \in 1..n
        BY <1>1, <2>1, <2>2, <3>2
      <4>2. PICK d \in configs[s] : d.version = w
        BY <1>1, <4>1 DEF ConfigInv, n
      <4>3. [d EXCEPT !.active = FALSE] \in configs'[s] /\ [d EXCEPT !.active = FALSE].version = w
        BY <2>1, <2>3, <4>2 DEF NewVersion, Deactivated, ConfigRow
      <4>4. QED
        BY <4>3
    <3>3. QED
      BY <3>1, <3>2
  <2>6. ASSUME NEW f \in Editors, editor'[f] # Idle
        PROVE  editor'[f].version <= rows'[editor'[f].strategy].version
    <3>1. editor'[f] = editor[f] /\ editor[f] \in Update
      BY <1>2, <2>6 DEF TypeOK
    <3>2. editor[f].version <= rows[editor[f].strategy].version
      BY <2>6, <3>1 DEF ConfigInv
    <3>3. CASE editor[f].strategy = s
      BY <2>1, <2>2, <2>3, <3>1, <3>2, <3>3 DEF n, Update
    <3>4. CASE editor[f].strategy # s
      BY <2>3, <3>1, <3>2, <3>4 DEF Update
    <3>5. QED
      BY <3>3, <3>4
  <2>7. QED
    BY <2>3, <2>4, <2>5, <2>6 DEF ConfigInv
<1>5. QED
  BY <1>3, <1>4 DEF WriteUpdate

\* Every step keeps the versions of every strategy its history.
LEMMA NextConfigs == ConfigInv /\ TypeOK /\ [Next]_vars => ConfigInv'
<1> SUFFICES ASSUME ConfigInv, TypeOK, [Next]_vars PROVE ConfigInv'
  OBVIOUS
<1> USE ConfigsUntouched
<1>1. ASSUME NEW s \in Strategies, NEW new \in Statuses, ChangeStatus(s, new)
      PROVE  ConfigInv'
  BY <1>1 DEF ChangeStatus, TypeOK, Row
<1>2. ASSUME NEW e \in Editors, NEW s \in Strategies, LoadForUpdate(e, s)
      PROVE  ConfigInv'
  BY <1>2 DEF LoadForUpdate, ConfigInv, TypeOK, Row
<1>3. ASSUME NEW e \in Editors, WriteUpdate(e) PROVE ConfigInv'
  BY <1>3, WriteKeepsHistory
<1>4. CASE BeginCycle
  BY <1>4 DEF BeginCycle
<1>5. ASSUME NEW s \in Strategies, Task(s) PROVE ConfigInv'
  BY <1>5 DEF Task, Raise, BeginEmit, EndEmit, SymbolsDone, BeginRecord, RecordCollides, EndRecord, Move
<1>6. CASE Commit
  <2>1. \A s \in due : Tallied(s).version = rows[s].version
    BY <1>6 DEF Tallied, TypeOK, Row
  <2>2. QED
    BY <1>6, <2>1 DEF Commit
<1>7. CASE Rollback
  BY <1>7 DEF Rollback
<1>8. ASSUME NEW s \in Strategies, DatabaseError(s) PROVE ConfigInv'
  BY <1>8 DEF DatabaseError
<1>9. CASE UNCHANGED vars
  BY <1>9 DEF vars
<1>10. QED
  BY <1>1, <1>2, <1>3, <1>4, <1>5, <1>6, <1>7, <1>8, <1>9 DEF Next, Cycle, Request

\* Whatever update requests overlap, a strategy has one active configuration,
\* that of its current version.
THEOREM UpdatesKeepOneConfig == Spec => []OneActiveConfig
<1>1. Init => ConfigInv
  <2> SUFFICES ASSUME Init PROVE ConfigInv
    OBVIOUS
  <2>1. \A s \in Strategies : rows[s].version = 1 /\ configs[s] = {[version |-> 1, active |-> TRUE]}
    BY Zenon DEF Init
  <2>2. \A e \in Editors : editor[e] = Idle
    BY DEF Init
  <2>3. \A s \in Strategies : \A c \in configs[s] : c.version = 1 /\ c.active
    BY <2>1
  <2>4. \A s \in Strategies : \E c \in configs[s] : c.version = 1
    <3>1. \A s \in Strategies : [version |-> 1, active |-> TRUE] \in configs[s]
      BY <2>1
    <3>2. QED
      BY <3>1, <2>3
  <2>5. QED
    BY <2>1, <2>2, <2>3, <2>4 DEF ConfigInv
<1>2. TypeOK /\ ConfigInv => OneActiveConfig
  BY HistoryHasOneActive
<1>3. QED
  BY <1>1, <1>2, NextConfigs, TypeCorrect, PTL DEF Spec

-----------------------------------------------------------------------------
(* The counts of a cycle *)

\* Every step keeps the counts of undisturbed strategies as they were loaded.
LEMMA NextCycle == CycleInv /\ TypeOK /\ [Next]_vars => CycleInv'
<1> SUFFICES ASSUME CycleInv, TypeOK, [Next]_vars PROVE CycleInv'
  OBVIOUS
<1> USE DEF CycleInv
<1>1. ASSUME NEW s \in Strategies, NEW new \in Statuses, ChangeStatus(s, new)
      PROVE  CycleInv'
  <2>1. \A t \in due' \ disturbed' : t \in due \ disturbed /\ t # s
    BY <1>1 DEF ChangeStatus
  <2>2. QED
    BY <1>1, <2>1 DEF ChangeStatus, TypeOK
<1>2. ASSUME NEW e \in Editors, NEW s \in Strategies, LoadForUpdate(e, s)
      PROVE  CycleInv'
  BY <1>2 DEF LoadForUpdate
<1>3. ASSUME NEW e \in Editors, WriteUpdate(e) PROVE CycleInv'
  <2>1. \A s \in Strategies : rows'[s].errors = rows[s].errors /\ rows'[s].status = rows[s].status
    BY <1>3 DEF WriteUpdate, TypeOK, Row
  <2>2. QED
    BY <1>3, <2>1 DEF WriteUpdate, TypeOK
<1>4. CASE BeginCycle
  BY <1>4 DEF BeginCycle, Enabled, TypeOK
<1>5. ASSUME NEW s \in Strategies, Task(s) PROVE CycleInv'
  BY <1>5 DEF Task, Raise, BeginEmit, EndEmit, SymbolsDone, BeginRecord, RecordCollides, EndRecord, Move
<1>6. CASE Commit \/ Rollback
  BY <1>6 DEF Commit, Rollback, Results
<1>7. ASSUME NEW s \in Strategies, DatabaseError(s) PROVE CycleInv'
  BY <1>7 DEF DatabaseError
<1>8. CASE UNCHANGED vars
  BY <1>8 DEF vars
<1>9. QED
  BY <1>1, <1>2, <1>3, <1>4, <1>5, <1>6, <1>7, <1>8 DEF Next, Cycle, Request

\* A cycle's transaction counts on from what it loaded, the current count.
LEMMA CommitCounts ==
  ASSUME CycleInv, TypeOK, Commit, NEW s \in Strategies \ disturbed, rows[s].errors = streak[s]
  PROVE  rows'[s].errors = streak'[s]
<1>1. CASE s \notin due
  BY <1>1 DEF Commit
<1>2. CASE s \in due
  <2>1. /\ loaded[s] = rows[s].errors /\ rows[s] \in Row
        /\ rows'[s] = Tallied(s)
        /\ streak'[s] = IF task[s] = "failed" /\ s \notin AutoPaused THEN streak[s] + 1 ELSE 0
    BY <1>2 DEF Commit, CycleInv, TypeOK
  <2>2. CASE s \in AutoPaused
    BY <2>1, <2>2 DEF Tallied, Row
  <2>3. CASE s \notin AutoPaused /\ task[s] = "failed"
    BY <2>1, <2>3 DEF Tallied, Row, Failures
  <2>4. CASE s \notin AutoPaused /\ task[s] # "failed"
    <3>1. Tallied(s) = [rows[s] EXCEPT !.errors = IF loaded[s] = 0 THEN @ ELSE 0]
      BY <2>4, Zenon DEF Tallied
    <3>2. QED
      BY <2>1, <2>4, <3>1 DEF Row
  <2>5. QED
    BY <2>2, <2>3, <2>4
<1>3. QED
  BY <1>1, <1>2

\* A count of failures that is honest stays so where the status is not changed
\* during the evaluation, whatever other evaluations and the database do.
THEOREM CountsStayHonest == Spec => CountsAreHonest
<1>1. CycleInv /\ TypeOK /\ [Next]_vars =>
        [\A s \in Strategies \ disturbed :
           rows[s].errors = streak[s] => rows'[s].errors = streak'[s]]_vars
  <2> SUFFICES ASSUME CycleInv, TypeOK, Next, NEW s \in Strategies \ disturbed, rows[s].errors = streak[s]
               PROVE  rows'[s].errors = streak'[s]
    OBVIOUS
  <2>1. ASSUME NEW t \in Strategies, NEW new \in Statuses, ChangeStatus(t, new)
        PROVE  rows'[s].errors = streak'[s]
    BY <2>1 DEF ChangeStatus, TypeOK, Row
  <2>2. ASSUME NEW e \in Editors, WriteUpdate(e)
        PROVE  rows'[s].errors = streak'[s]
    BY <2>2 DEF WriteUpdate, TypeOK, Row
  <2>3. CASE Commit
    BY <2>3, CommitCounts
  <2>4. CASE UNCHANGED <<rows, streak>>
    BY <2>4
  <2>5. QED
    BY <2>1, <2>2, <2>3, <2>4
       DEF Next, Cycle, Request, LoadForUpdate, BeginCycle, Rollback, DatabaseError,
           Task, Raise, BeginEmit, EndEmit, SymbolsDone, BeginRecord, RecordCollides, EndRecord, Move
<1>2. Init => CycleInv
  BY DEF Init, CycleInv
<1>3. QED
  BY <1>1, <1>2, NextCycle, TypeCorrect, PTL DEF Spec, CountsAreHonest

\* The runner pauses a strategy only at its Threshold-th failure in a row, or where
\* the count is stale or the status was changed during the evaluation.
THEOREM PausesHaveCauses == Spec => PausesAreCaused
<1>1. CycleInv /\ TypeOK /\ [Next]_vars =>
        [\A s \in Strategies :
           rows'[s].status # rows[s].status /\ requests' = requests =>
             /\ rows'[s].status = "paused" /\ streak'[s] = 0
             /\ \/ s \in disturbed
                \/ /\ rows[s].status = "enabled"
                   /\ rows[s].errors = streak[s] => streak[s] = Threshold - 1]_vars
  <2> DEFINE Caused(s) == /\ rows'[s].status = "paused" /\ streak'[s] = 0
                          /\ \/ s \in disturbed
                             \/ /\ rows[s].status = "enabled"
                                /\ rows[s].errors = streak[s] => streak[s] = Threshold - 1
  <2> SUFFICES ASSUME CycleInv, TypeOK, Next, NEW s \in Strategies,
                      rows'[s].status # rows[s].status, requests' = requests
               PROVE  Caused(s)
    OBVIOUS
  <2>1. ASSUME NEW t \in Strategies, NEW new \in Statuses, ChangeStatus(t, new)
        PROVE  Caused(s)
    BY <2>1 DEF ChangeStatus, TypeOK
  <2>2. ASSUME NEW e \in Editors, WriteUpdate(e)
        PROVE  Caused(s)
    BY <2>2 DEF WriteUpdate, TypeOK, Row
  <2>3. CASE Commit
    <3>1. s \in due /\ rows'[s] = Tallied(s) /\ rows[s] \in Row
      BY <2>3 DEF Commit, TypeOK
    <3>2. s \in AutoPaused
      <4>1. CASE s \notin AutoPaused /\ task[s] = "failed"
        BY <3>1, <4>1 DEF Tallied, Row
      <4>2. CASE s \notin AutoPaused /\ task[s] # "failed"
        <5>1. Tallied(s) = [rows[s] EXCEPT !.errors = IF loaded[s] = 0 THEN @ ELSE 0]
          BY <4>2, Zenon DEF Tallied
        <5>2. QED
          BY <3>1, <5>1 DEF Row
      <4>3. QED
        BY <4>1, <4>2
    <3>3. rows'[s].status = "paused" /\ streak'[s] = 0
      BY <2>3, <3>1, <3>2 DEF Tallied, Commit, Row
    <3>4. CASE s \notin disturbed
      BY <3>1, <3>2, <3>3, <3>4 DEF CycleInv, AutoPaused, Failures, Row
    <3>5. QED
      BY <3>3, <3>4
  <2>4. CASE rows' = rows
    BY <2>4
  <2>5. QED
    BY <2>1, <2>2, <2>3, <2>4
       DEF Next, Cycle, Request, LoadForUpdate, BeginCycle, Rollback, DatabaseError,
           Task, Raise, BeginEmit, EndEmit, SymbolsDone, BeginRecord, RecordCollides, EndRecord, Move
<1>2. Init => CycleInv
  BY DEF Init, CycleInv
<1>3. QED
  BY <1>1, <1>2, NextCycle, TypeCorrect, PTL DEF Spec, PausesAreCaused

-----------------------------------------------------------------------------
(* The exits of runner and monitor *)

\* First is the chain of its conditions.
LEMMA FirstOfThree ==
  ASSUME NEW a \in BOOLEAN, NEW b \in BOOLEAN, NEW c \in BOOLEAN,
         NEW x, NEW y, NEW z
  PROVE  First(<< <<x, a>>, <<y, b>>, <<z, c>> >>)
           = IF a THEN x ELSE IF b THEN y ELSE IF c THEN z ELSE "none"
<1> DEFINE r == << <<x, a>>, <<y, b>>, <<z, c>> >>
<1>1. DOMAIN r = 1..3
  OBVIOUS
<1>2. r[1][1] = x /\ r[2][1] = y /\ r[3][1] = z
  OBVIOUS
<1>3. r[1][2] = a /\ r[2][2] = b /\ r[3][2] = c
  OBVIOUS
<1>4. QED
  BY DEF First

LEMMA FirstOfFive ==
  ASSUME NEW a \in BOOLEAN, NEW b \in BOOLEAN, NEW c \in BOOLEAN, NEW d \in BOOLEAN, NEW e \in BOOLEAN,
         NEW u, NEW v, NEW x, NEW y, NEW z
  PROVE  First(<< <<u, a>>, <<v, b>>, <<x, c>>, <<y, d>>, <<z, e>> >>)
           = IF a THEN u ELSE IF b THEN v ELSE IF c THEN x ELSE IF d THEN y ELSE IF e THEN z ELSE "none"
BY DEF First

\* Where rules stand at the top and nothing overrides them, both read the same ones.
LEMMA MonitorReads ==
  ASSUME NEW applied \in Applied, overrides = {}, NEW k \in Kinds
  PROVE  applied[k] = None /\ Or(applied[k], config[k]) = config[k]
BY DEF Applied, Or

LEMMA RunnerReads ==
  ASSUME NEW k \in Kinds, config.nested[k] = None
  PROVE  RuleOf(k) = config[k]
BY DEF RuleOf, Or

\* In any state the monitor's exit is the runner's, up to the longest hold.
LEMMA SameExit == MonitorAgrees
<1> SUFFICES ASSUME position # None, overrides = {},
                    \A k \in Kinds : config.nested[k] = None /\ (config[k] = None \/ config[k][1].type \in Known),
                    NEW applied \in Applied, NEW atr \in Atrs, NEW conditions \in BOOLEAN, conditions = FALSE
             PROVE  MonitorExit(applied)
                      = IF RunnerExit(conditions, atr) = "max_hold" THEN "none" ELSE RunnerExit(conditions, atr)
  BY Zenon DEF MonitorAgrees
<1> DEFINE p == position[1]
           stop == config["stop"]
           target == config["target"]
           trailing == config["trailing"]
           stops == stop # None /\ Behind(p.side, Away(p.side, AvgEntry(p), Distance(stop[1], AvgEntry(p))))
           gains == target # None /\ Beyond(p.side, Away(p.side, AvgEntry(p), -Distance(target[1], AvgEntry(p))))
           trails == trailing # None /\ Behind(p.side, TrailLevel(trailing[1], p.side))
           held == config.maxHold # None /\ p.held >= config.maxHold[1]
<1>0. /\ \A k \in Kinds : Or(applied[k], config[k]) = config[k] /\ RuleOf(k) = config[k]
      /\ "stop" \in Kinds /\ "target" \in Kinds /\ "trailing" \in Kinds
  BY MonitorReads, RunnerReads DEF Kinds
<1>1. MonitorExit(applied) = First(<< <<"stop_loss", stops>>, <<"take_profit", gains>>, <<"trailing_stop", trails>> >>)
  <2>1. MonitorExit(applied)
          = First(<< <<"stop_loss", stop # None /\ MonitorStop(stop[1], p)>>,
                     <<"take_profit", target # None /\ MonitorTarget(target[1], p)>>,
                     <<"trailing_stop", trails>> >>)
    BY <1>0, Zenon DEF MonitorExit
  <2>2. (stop # None /\ MonitorStop(stop[1], p)) = stops
    BY <1>0 DEF MonitorStop
  <2>3. (target # None /\ MonitorTarget(target[1], p)) = gains
    BY <1>0 DEF MonitorTarget
  <2> HIDE DEF stops, gains, trails, p, stop, target
  <2>4. QED
    BY <2>1, <2>2, <2>3, Zenon
<1>2. RunnerExit(conditions, atr) = First(<< <<"exit_conditions_met", conditions>>, <<"stop_loss", stops>>, <<"take_profit", gains>>,
                                         <<"trailing_stop", trails>>, <<"max_hold", held>> >>)
  <2> DEFINE risk == IF stop = None THEN None ELSE StopDistance(stop[1], p, atr)
             gain == IF target = None THEN None ELSE TargetDistance(target[1], stop, p, atr)
  <2>1. RunnerExit(conditions, atr)
          = First(<< <<"exit_conditions_met", conditions>>,
                     <<"stop_loss", risk # None /\ Behind(p.side, Away(p.side, AvgEntry(p), risk[1]))>>,
                     <<"take_profit", gain # None /\ Beyond(p.side, Away(p.side, AvgEntry(p), -gain[1]))>>,
                     <<"trailing_stop", trails>>, <<"max_hold", held>> >>)
    BY <1>0, Zenon DEF RunnerExit
  <2>2. stop # None => risk = <<Distance(stop[1], AvgEntry(p))>>
    BY <1>0 DEF StopDistance, Some
  <2>3. target # None => gain = <<Distance(target[1], AvgEntry(p))>>
    BY <1>0 DEF StopDistance, TargetDistance, Some, Known
  <2>4. (stop = None => risk = None) /\ (target = None => gain = None)
    OBVIOUS
  <2> HIDE DEF risk, gain
  <2>5. stop # None => risk # None /\ risk[1] = Distance(stop[1], AvgEntry(p))
    BY <2>2 DEF None
  <2>6. target # None => gain # None /\ gain[1] = Distance(target[1], AvgEntry(p))
    BY <2>3 DEF None
  <2>7. (risk # None /\ Behind(p.side, Away(p.side, AvgEntry(p), risk[1]))) = stops
    BY <2>4, <2>5, Zenon
  <2>8. (gain # None /\ Beyond(p.side, Away(p.side, AvgEntry(p), -gain[1]))) = gains
    BY <2>4, <2>6, Zenon
  <2> HIDE DEF stops, gains, trails, held, p
  <2>9. QED
    BY <2>1, <2>7, <2>8, Zenon
<1>3. stops \in BOOLEAN /\ gains \in BOOLEAN /\ trails \in BOOLEAN /\ held \in BOOLEAN
  OBVIOUS
<1> HIDE DEF stops, gains, trails, held
<1>4. MonitorExit(applied) = IF stops THEN "stop_loss" ELSE IF gains THEN "take_profit" ELSE IF trails THEN "trailing_stop" ELSE "none"
  BY <1>1, <1>3, FirstOfThree
<1>5. RunnerExit(conditions, atr) = IF stops THEN "stop_loss" ELSE IF gains THEN "take_profit" ELSE IF trails THEN "trailing_stop"
                               ELSE IF held THEN "max_hold" ELSE "none"
  BY <1>2, <1>3, FirstOfFive
<1>6. QED
  BY <1>4, <1>5

\* A position is not worse off for losing its runner: for every configuration with
\* rules at the top in percents or fixed distances, every price and trailing
\* level, the monitor's check and the runner's evaluation see the same exit.
THEOREM MonitorKeepsWatch == XSpec => []MonitorAgrees
BY SameExit, PTL
-----------------------------------------------------------------------------
(* Alerts: the turn of a rule and the newest of its instances *)

LEMMA LowestIn ==
  ASSUME NEW s \in SUBSET Nat, s # {}
  PROVE  (CHOOSE i \in s : \A j \in s : i <= j) \in s
<1>1. PICK n \in s : \A m \in s : ~(<<m, n>> \in OpToRel(<, Nat))
  BY NatLessThanWellFounded, WFMin, Zenon
<1>2. ASSUME NEW m \in s PROVE n <= m
  <2>1. m \in Nat /\ n \in Nat
    OBVIOUS
  <2>2. ~(m < n)
    BY <1>1, <2>1 DEF OpToRel
  <2>3. QED
    BY <2>1, <2>2
<1>3. QED
  BY <1>2

LEMMA TurnIsInRest ==
  ASSUME ATypeOK, rest # {}
  PROVE  Turn \in rest /\ Turn \in DOMAIN Order /\ Current \in Rules
<1>1. DOMAIN Order = 1..Len(Order)
  BY AlertsAssumption
<1>2. rest \in SUBSET Nat
  BY <1>1 DEF ATypeOK
<1>3. Turn \in rest
  BY <1>2, LowestIn DEF Turn
<1>4. Turn \in DOMAIN Order
  BY <1>3 DEF ATypeOK
<1>5. QED
  BY <1>3, <1>4, AlertsAssumption DEF Current

LEMMA RowFields ==
  ASSUME NEW row \in AlertRow
  PROVE  row.rule \in Rules /\ row.at \in Nat /\ row.status \in AlertStatuses /\ row.cooldown \in Nat
BY DEF AlertRow

\* Rows of an engine whose types are right.
LEMMA RowTypes ==
  ASSUME ATypeOK
  PROVE  /\ Len(instances) \in Nat /\ DOMAIN instances = 1..Len(instances)
         /\ Len(created) \in Nat /\ DOMAIN created = 1..Len(created)
         /\ \A i \in DOMAIN instances : instances[i] \in AlertRow
         /\ \A k \in DOMAIN created : created[k] \in AlertRow
BY DEF ATypeOK

LEMMA NewestIsNewest ==
  ASSUME ATypeOK, NEW r
  PROVE  /\ NewestOf(ActiveRows(r)) # 0 => NewestOf(ActiveRows(r)) \in DOMAIN instances
         /\ \A i \in ActiveRows(r) : NewestOf(ActiveRows(r)) # 0 /\ i <= NewestOf(ActiveRows(r))
<1> DEFINE found == ActiveRows(r)
<1>1. found \in SUBSET (1..Len(instances)) /\ Len(instances) \in Nat
  BY RowTypes DEF ActiveRows
<1>2. CASE found = {}
  BY <1>2 DEF NewestOf
<1>3. CASE found # {}
  <2>1. NewestOf(found) = Highest(found)
    BY <1>3 DEF NewestOf, Highest
  <2>2. Highest(found) \in found
    BY <1>1, <1>3, HighestIn
  <2>3. \A i \in found : Highest(found) >= i
    <3>1. \E x \in found : \A y \in found : x >= y
      BY <1>1, <1>3, HasHighest
    <3> HIDE DEF found
    <3>2. QED
      BY <3>1 DEF Highest
  <2>4. \A i \in found : i \in 1..Len(instances)
    BY <1>1
  <2>5. QED
    BY <1>1, <2>1, <2>2, <2>3, <2>4, RowTypes
<1>4. QED
  BY <1>2, <1>3

-----------------------------------------------------------------------------
(* Alerts: the rows stay as they are *)

\* The instances and what is about to be committed are untouched, and no rule has
\* its turn again.
LEMMA RowsStay ==
  ASSUME AlertsInv, instances' = instances, created' = created, rest' \subseteq rest, now' \in Nat, now <= now'
  PROVE  InOrder(instances, now)' /\ InOrder(created, now)' /\ CreatedAreApart' /\ ActiveOnesApart'
<1>1. \A r : ActiveRows(r)' = ActiveRows(r)
  BY DEF ActiveRows
<1>2. CreatedAreApart'
  BY <1>1 DEF AlertsInv, CreatedAreApart
<1>3. ActiveOnesApart'
  BY DEF AlertsInv, ActiveOnesApart
<1>4. now \in Nat /\ \A i \in DOMAIN instances : instances[i].at \in Nat
  BY RowTypes, RowFields DEF AlertsInv, ATypeOK
<1>5. \A k \in DOMAIN created : created[k].at \in Nat
  BY RowTypes, RowFields DEF AlertsInv, ATypeOK
<1>6. InOrder(instances, now)'
  BY <1>4 DEF AlertsInv, InOrder
<1>7. InOrder(created, now)'
  BY <1>4, <1>5 DEF AlertsInv, InOrder
<1>8. QED
  BY <1>2, <1>3, <1>6, <1>7
-----------------------------------------------------------------------------
(* Alerts: one lemma per kind of step *)

LEMMA InitAlerts == AInit => AlertsInv
<1> SUFFICES ASSUME AInit PROVE AlertsInv
  OBVIOUS
<1>1. enabled \subseteq Rules /\ cooldown \in [Rules -> Nat] /\ cached \in [Rules -> Nat]
  BY AlertsAssumption DEF AInit
<1>2. instances = <<>> /\ created = <<>> /\ rest = {} /\ resolved = {} /\ view = <<>> /\ now = 0
  BY DEF AInit
<1>3. ATypeOK
  BY <1>1, <1>2 DEF ATypeOK
<1>4. QED
  BY <1>2, <1>3 DEF AlertsInv, InOrder, ViewIsNewest, CreatedAreApart, ActiveOnesApart

\* Time passes, records arrive, the market opens, a rule is updated.
LEMMA AroundInv ==
  ASSUME AlertsInv, instances' = instances, UNCHANGED cycle, now' \in Nat, now <= now',
         enabled' \subseteq Rules, cooldown' \in [Rules -> Nat]
  PROVE  AlertsInv'
<1>1. ATypeOK'
  BY DEF AlertsInv, ATypeOK, cycle
<1>2. ViewIsNewest'
  BY DEF AlertsInv, ViewIsNewest, ActiveRows, Current, Turn, cycle
<1>3. InOrder(instances, now)' /\ InOrder(created, now)' /\ CreatedAreApart' /\ ActiveOnesApart'
  BY RowsStay DEF cycle
<1>4. QED
  BY <1>1, <1>2, <1>3 DEF AlertsInv

LEMMA BeginAlertsInv ==
  ASSUME AlertsInv, BeginAlerts
  PROVE  AlertsInv'
<1>1. /\ now' = now /\ enabled' = enabled /\ cooldown' = cooldown /\ cached' = cooldown
      /\ instances' = instances /\ created = <<>> /\ created' = <<>> /\ resolved' = resolved
      /\ view' = <<>> /\ rest' \subseteq DOMAIN Order
  BY DEF BeginAlerts, world
<1>2. ATypeOK'
  BY <1>1 DEF AlertsInv, ATypeOK
<1>3. ViewIsNewest'
  BY <1>1 DEF ViewIsNewest
<1>4. CreatedAreApart'
  BY <1>1 DEF CreatedAreApart
<1>5. InOrder(instances, now)' /\ InOrder(created, now)' /\ ActiveOnesApart'
  BY <1>1 DEF AlertsInv, InOrder, ActiveOnesApart
<1>6. QED
  BY <1>2, <1>3, <1>4, <1>5 DEF AlertsInv

LEMMA LookInv ==
  ASSUME AlertsInv, Look
  PROVE  AlertsInv'
<1>1. /\ now' = now /\ enabled' = enabled /\ cooldown' = cooldown /\ cached' = cached
      /\ instances' = instances /\ created' = created /\ resolved' = resolved
      /\ rest' = rest /\ rest # {}
  BY DEF Look, world
<1>2. view' = <<Condition(Current, now), NewestOf(ActiveRows(Current))>>
  BY DEF Look
<1>3. ATypeOK /\ now \in Nat
  BY DEF AlertsInv, ATypeOK
<1>4. ATypeOK'
  BY <1>1, <1>3 DEF ATypeOK
<1>5. view'[2] = NewestOf(ActiveRows(Current))
  BY <1>2
<1>6. ActiveRows(Current)' = ActiveRows(Current)
  BY <1>1 DEF ActiveRows, Current, Turn
<1>7. ViewIsNewest'
  BY <1>1, <1>3, <1>5, <1>6, NewestIsNewest DEF ViewIsNewest
<1>8. InOrder(instances, now)' /\ InOrder(created, now)' /\ CreatedAreApart' /\ ActiveOnesApart'
  BY <1>1, <1>3, RowsStay
<1>9. QED
  BY <1>4, <1>7, <1>8 DEF AlertsInv

\* A rule has had its turn, and no row comes of it.
LEMMA TurnOver ==
  ASSUME AlertsInv, view # <<>>, rest' = rest \ {Turn}, view' = <<>>, instances' = instances, created' = created,
         resolved' \in {resolved, resolved \cup {view[2]}}, view[2] = 0 => resolved' = resolved,
         UNCHANGED world, cached' = cached
  PROVE  AlertsInv'
<1>1. view[2] # 0 => view[2] \in DOMAIN instances
  BY DEF AlertsInv, ViewIsNewest
<1>2. resolved' \subseteq DOMAIN instances
  BY <1>1 DEF AlertsInv, ATypeOK
<1>3. ATypeOK' /\ now' = now /\ now \in Nat
  BY <1>2 DEF AlertsInv, ATypeOK, world
<1>4. ViewIsNewest'
  BY DEF ViewIsNewest
<1>5. InOrder(instances, now)' /\ InOrder(created, now)' /\ CreatedAreApart' /\ ActiveOnesApart'
  BY <1>3, RowsStay
<1>6. QED
  BY <1>3, <1>4, <1>5 DEF AlertsInv

LEMMA ResolveInv ==
  ASSUME AlertsInv, Resolve
  PROVE  AlertsInv'
BY TurnOver DEF Resolve

LEMMA PassInv ==
  ASSUME AlertsInv, Pass
  PROVE  AlertsInv'
BY TurnOver DEF Pass

LEMMA TriggerInv ==
  ASSUME AlertsInv, Trigger
  PROVE  AlertsInv'
<1> DEFINE row == [rule |-> Current, at |-> now, status |-> "active", cooldown |-> cached[Current]]
<1> DEFINE n == Len(created)
<1>1. /\ now' = now /\ enabled' = enabled /\ cooldown' = cooldown /\ cached' = cached
      /\ instances' = instances /\ created' = Append(created, row) /\ resolved' = resolved
      /\ rest' = rest \ {Turn} /\ view' = <<>> /\ view # <<>> /\ CooledDown(Current, view[2])
  BY DEF Trigger, world
<1>2. ATypeOK /\ now \in Nat
  BY DEF AlertsInv, ATypeOK
<1>3. Turn \in rest /\ Turn \in DOMAIN Order /\ Current \in Rules
  BY <1>1, <1>2, TurnIsInRest DEF AlertsInv, ViewIsNewest
<1>4. cached[Current] \in Nat
  BY <1>2, <1>3 DEF ATypeOK
<1>5. row \in AlertRow /\ row.rule = Current /\ row.at = now /\ row.cooldown = cached[Current]
  BY <1>2, <1>3, <1>4 DEF AlertRow, AlertStatuses
<1> HIDE DEF row
<1>6. created \in Seq(AlertRow) /\ n \in Nat /\ DOMAIN created = 1..n
  BY <1>2 DEF ATypeOK
<1>7. /\ created' \in Seq(AlertRow) /\ DOMAIN created' = 1..(n + 1)
      /\ \A k \in 1..n : created'[k] = created[k]
      /\ created'[n + 1] = row
  BY <1>1, <1>5, <1>6
<1> HIDE DEF n
<1>8. ATypeOK'
  BY <1>1, <1>2, <1>7 DEF ATypeOK
<1>9. ViewIsNewest'
  BY <1>1 DEF ViewIsNewest
<1>10. \A r : ActiveRows(r)' = ActiveRows(r)
  BY <1>1 DEF ActiveRows
<1>11. InOrder(created, now)'
  <2>1. \A k \in 1..n : created[k].at <= now /\ created[k].at \in Nat
    BY <1>2, <1>6, RowTypes, RowFields DEF AlertsInv, InOrder
  <2>2. \A k \in 1..(n + 1) : created'[k].at <= now
    <3>1. \A k \in 1..(n + 1) : k \in 1..n \/ k = n + 1
      BY <1>6
    <3>2. QED
      BY <1>2, <1>5, <1>7, <2>1, <3>1
  <2>3. ASSUME NEW j \in 1..(n + 1), NEW k \in 1..(n + 1), j <= k PROVE created'[j].at <= created'[k].at
    <3>1. CASE k = n + 1
      BY <1>5, <1>7, <2>2, <3>1
    <3>2. CASE k # n + 1
      <4>1. j \in 1..n /\ k \in 1..n
        BY <1>6, <2>3, <3>2
      <4>2. created[j].at <= created[k].at
        BY <1>6, <2>3, <4>1 DEF AlertsInv, InOrder
      <4>3. QED
        BY <1>7, <4>1, <4>2
    <3>3. QED
      BY <3>1, <3>2
  <2>4. QED
    BY <1>1, <1>7, <2>2, <2>3 DEF InOrder
<1>12. \A k \in 1..n : created[k].rule # Current
  BY <1>3, <1>6 DEF AlertsInv, CreatedAreApart, Current
<1>13. \A p \in rest' : Order[p] # Current
  <2>1. ASSUME NEW p \in rest' PROVE Order[p] # Current
    <3>1. p \in DOMAIN Order /\ p # Turn
      BY <1>1, <1>2 DEF ATypeOK
    <3>2. QED
      BY <1>3, <3>1, AlertsAssumption DEF IsInjective, Current
  <2>2. QED
    BY <2>1
<1>14. \A i \in DOMAIN instances : instances[i].at <= now /\ instances[i].at \in Nat
  BY <1>2, RowTypes, RowFields DEF AlertsInv, InOrder
<1>15. ASSUME NEW i \in ActiveRows(Current) PROVE now - instances[i].at >= cached[Current]
  <2>1. view[2] # 0 /\ i <= view[2] /\ view[2] \in DOMAIN instances /\ i \in DOMAIN instances
    BY <1>1, <1>15 DEF AlertsInv, ViewIsNewest, ActiveRows
  <2>2. instances[i].at <= instances[view[2]].at
    BY <2>1 DEF AlertsInv, InOrder
  <2>3. now - instances[view[2]].at >= cached[Current]
    BY <1>1, <2>1 DEF CooledDown
  <2>4. QED
    BY <1>2, <1>4, <1>14, <2>1, <2>2, <2>3
<1>16. CreatedAreApart'
  <2> SUFFICES ASSUME NEW k \in 1..(n + 1)
               PROVE  /\ \A i \in DOMAIN instances : instances[i].at <= created'[k].at
                      /\ \A p \in rest' : Order[p] # created'[k].rule
                      /\ \A l \in 1..(n + 1) : created'[l].rule = created'[k].rule => l = k
                      /\ \A i \in ActiveRows(created'[k].rule) : created'[k].at - instances[i].at >= created'[k].cooldown
    BY <1>1, <1>7, <1>10 DEF CreatedAreApart
  <2>0. \A l \in 1..(n + 1) : l \in 1..n \/ l = n + 1
    BY <1>6
  <2>1. CASE k = n + 1
    <3>1. created'[k].rule = Current /\ created'[k].at = now /\ created'[k].cooldown = cached[Current]
      BY <1>5, <1>7, <2>1
    <3>2. \A l \in 1..(n + 1) : created'[l].rule = Current => l = k
      BY <1>7, <1>12, <2>0, <2>1
    <3>3. QED
      BY <1>13, <1>14, <1>15, <3>1, <3>2
  <2>2. CASE k # n + 1
    <3>1. k \in 1..n /\ created'[k] = created[k] /\ k \in DOMAIN created
      BY <1>6, <1>7, <2>0, <2>2
    <3>2. /\ \A i \in DOMAIN instances : instances[i].at <= created[k].at
          /\ \A p \in rest : Order[p] # created[k].rule
          /\ \A l \in DOMAIN created : created[l].rule = created[k].rule => l = k
          /\ \A i \in ActiveRows(created[k].rule) : created[k].at - instances[i].at >= created[k].cooldown
      BY <3>1 DEF AlertsInv, CreatedAreApart
    <3>3. \A l \in 1..(n + 1) : created'[l].rule = created[k].rule => l = k
      BY <1>5, <1>6, <1>7, <1>12, <2>0, <3>1, <3>2
    <3>4. \A p \in rest' : Order[p] # created[k].rule
      BY <1>1, <3>2
    <3>5. QED
      BY <3>1, <3>2, <3>3, <3>4
  <2>3. QED
    BY <2>1, <2>2
<1>17. InOrder(instances, now)' /\ ActiveOnesApart'
  BY <1>1 DEF AlertsInv, InOrder, ActiveOnesApart
<1>18. QED
  BY <1>8, <1>9, <1>11, <1>16, <1>17 DEF AlertsInv
LEMMA AcknowledgeInv ==
  ASSUME AlertsInv, NEW i \in DOMAIN instances, Acknowledge(i)
  PROVE  AlertsInv'
<1>1. /\ now' = now /\ enabled' = enabled /\ cooldown' = cooldown /\ UNCHANGED cycle
      /\ instances' = [instances EXCEPT ![i].status = "acknowledged"]
  BY DEF Acknowledge
<1>2. ATypeOK /\ now \in Nat /\ instances[i] \in AlertRow
  BY RowTypes DEF AlertsInv, ATypeOK
<1>3. [instances[i] EXCEPT !.status = "acknowledged"] \in AlertRow
  BY <1>2 DEF AlertRow, AlertStatuses
<1>4. instances' = [instances EXCEPT ![i] = [instances[i] EXCEPT !.status = "acknowledged"]]
  BY <1>1
<1>5. instances' \in Seq(AlertRow) /\ DOMAIN instances' = DOMAIN instances
  BY <1>2, <1>3, <1>4 DEF ATypeOK
<1>6. \A j \in DOMAIN instances :
        /\ instances'[j].rule = instances[j].rule /\ instances'[j].at = instances[j].at
        /\ instances'[j].cooldown = instances[j].cooldown
        /\ instances'[j].status = "active" => instances[j].status = "active"
  <2>1. ASSUME NEW j \in DOMAIN instances, j # i PROVE instances'[j] = instances[j]
    BY <1>2, <1>4, <2>1 DEF ATypeOK
  <2>2. instances'[i] = [instances[i] EXCEPT !.status = "acknowledged"]
    BY <1>2, <1>4 DEF ATypeOK
  <2>3. /\ instances'[i].rule = instances[i].rule /\ instances'[i].at = instances[i].at
        /\ instances'[i].cooldown = instances[i].cooldown /\ instances'[i].status # "active"
    BY <1>2, <2>2 DEF AlertRow
  <2>4. QED
    BY <2>1, <2>3
<1> HIDE DEF Acknowledge
<1>7. \A r : ActiveRows(r)' \subseteq ActiveRows(r)
  BY <1>5, <1>6 DEF ActiveRows
<1>8. ATypeOK'
  BY <1>1, <1>5 DEF AlertsInv, ATypeOK, cycle
<1>9. Current' = Current
  BY <1>1 DEF Current, Turn, cycle
<1>10. ViewIsNewest'
  <2> SUFFICES ASSUME view' # <<>>
               PROVE  /\ rest' # {}
                      /\ view'[2] # 0 => view'[2] \in DOMAIN instances'
                      /\ \A j \in ActiveRows(Current)' : view'[2] # 0 /\ j <= view'[2]
    BY DEF ViewIsNewest
  <2>1. view' = view /\ rest' = rest
    BY <1>1 DEF cycle
  <2>2. /\ rest # {} /\ (view[2] # 0 => view[2] \in DOMAIN instances)
        /\ \A j \in ActiveRows(Current) : view[2] # 0 /\ j <= view[2]
    BY <2>1 DEF AlertsInv, ViewIsNewest
  <2>3. ActiveRows(Current)' \subseteq ActiveRows(Current)
    BY <1>5, <1>6, <1>9 DEF ActiveRows
  <2>4. QED
    BY <1>5, <2>1, <2>2, <2>3
<1>11. InOrder(instances, now)'
  BY <1>1, <1>5, <1>6 DEF AlertsInv, InOrder
<1>12. InOrder(created, now)'
  BY <1>1 DEF AlertsInv, InOrder, cycle
<1>13. created' = created /\ rest' = rest
  BY <1>1 DEF cycle
<1>14. CreatedAreApart'
  <2> SUFFICES ASSUME NEW k \in DOMAIN created
               PROVE  /\ \A j \in DOMAIN instances : instances'[j].at <= created[k].at
                      /\ \A p \in rest : Order[p] # created[k].rule
                      /\ \A l \in DOMAIN created : created[l].rule = created[k].rule => l = k
                      /\ \A j \in DOMAIN instances :
                           instances'[j].rule = created[k].rule /\ instances'[j].status = "active" =>
                             created[k].at - instances'[j].at >= created[k].cooldown
    BY <1>5, <1>13 DEF CreatedAreApart, ActiveRows
  <2>1. /\ \A j \in DOMAIN instances : instances[j].at <= created[k].at
        /\ \A p \in rest : Order[p] # created[k].rule
        /\ \A l \in DOMAIN created : created[l].rule = created[k].rule => l = k
        /\ \A j \in DOMAIN instances :
             instances[j].rule = created[k].rule /\ instances[j].status = "active" =>
               created[k].at - instances[j].at >= created[k].cooldown
    BY DEF AlertsInv, CreatedAreApart, ActiveRows
  <2>2. QED
    BY <1>6, <2>1
<1>15. ActiveOnesApart'
  BY <1>5, <1>6 DEF AlertsInv, ActiveOnesApart
<1>16. QED
  BY <1>8, <1>10, <1>11, <1>12, <1>14, <1>15 DEF AlertsInv

\* The rows of the cycle are the youngest of the table.
LEMMA CommitAlertsInv ==
  ASSUME AlertsInv, CommitAlerts
  PROVE  AlertsInv'
<1> DEFINE old == Settled(resolved)
           m   == Len(instances)
           n   == Len(created)
<1>1. /\ now' = now /\ enabled' = enabled /\ cooldown' = cooldown /\ cached' = cached /\ view' = view
      /\ rest' = rest /\ rest = {} /\ created' = <<>> /\ resolved' = {}
      /\ instances' = old \o created
  BY DEF CommitAlerts, world
<1>2. /\ now \in Nat /\ instances \in Seq(AlertRow) /\ created \in Seq(AlertRow)
      /\ m \in Nat /\ DOMAIN instances = 1..m /\ n \in Nat /\ n = Len(created) /\ DOMAIN created = 1..n
      /\ \A i \in 1..m : instances[i] \in AlertRow
      /\ \A k \in 1..n : created[k] \in AlertRow
  BY DEF AlertsInv, ATypeOK
<1>3. ASSUME NEW i \in 1..m
      PROVE  /\ old[i] \in AlertRow
             /\ old[i].rule = instances[i].rule /\ old[i].at = instances[i].at
             /\ old[i].cooldown = instances[i].cooldown
             /\ old[i].status = "active" => instances[i].status = "active"
  <2>1. old[i] = IF i \in resolved THEN [instances[i] EXCEPT !.status = "resolved"] ELSE instances[i]
    BY <1>2 DEF Settled
  <2>2. instances[i] \in AlertRow
    BY <1>2
  <2> HIDE DEF old
  <2>3. QED
    BY <2>1, <2>2 DEF AlertRow, AlertStatuses
<1>4. old \in Seq(AlertRow) /\ Len(old) = m /\ DOMAIN old = 1..m
  <2>1. old = [i \in 1..m |-> old[i]]
    BY <1>2 DEF Settled
  <2> HIDE DEF old
  <2>2. QED
    BY <1>2, <1>3, <2>1
<1> HIDE DEF old, m, n
<1>5. /\ instances' \in Seq(AlertRow) /\ DOMAIN instances' = 1..(m + n)
      /\ \A i \in 1..m : instances'[i] = old[i]
      /\ \A i \in 1..n : instances'[m + i] = created[i]
  <2>1. /\ old \o created \in Seq(AlertRow) /\ Len(old \o created) = m + n
        /\ \A i \in 1..m : (old \o created)[i] = old[i]
        /\ \A i \in 1..n : (old \o created)[m + i] = created[i]
    BY <1>2, <1>4
  <2>2. DOMAIN (old \o created) = 1..(m + n)
    BY <2>1
  <2>3. QED
    BY <1>1, <2>1, <2>2
<1>6. \A i \in 1..(m + n) : i \in 1..m \/ (i - m \in 1..n /\ instances'[i] = created[i - m])
  <2>1. ASSUME NEW i \in 1..(m + n), i \notin 1..m PROVE i - m \in 1..n /\ instances'[i] = created[i - m]
    <3>1. i - m \in 1..n /\ m + (i - m) = i
      BY <1>2, <2>1
    <3>2. QED
      BY <1>5, <3>1
  <2>2. QED
    BY <2>1
<1>7. ATypeOK'
  BY <1>1, <1>5 DEF AlertsInv, ATypeOK
<1>8. view = <<>>
  BY <1>1 DEF AlertsInv, ViewIsNewest
<1>9. ViewIsNewest' /\ CreatedAreApart' /\ InOrder(created, now)'
  BY <1>1, <1>8 DEF ViewIsNewest, CreatedAreApart, InOrder
<1>10. \A i \in 1..m : instances'[i].at = instances[i].at /\ instances[i].at <= now /\ instances[i].at \in Nat
  BY <1>2, <1>3, <1>5, RowFields DEF AlertsInv, InOrder
<1>11. \A k \in 1..n : created[k].at <= now /\ created[k].at \in Nat /\ created[k].cooldown \in Nat
  BY <1>2, RowFields DEF AlertsInv, InOrder
<1>12. InOrder(instances, now)'
  <2>1. \A i \in 1..(m + n) : instances'[i].at <= now
    BY <1>6, <1>10, <1>11
  <2>2. ASSUME NEW i \in 1..(m + n), NEW j \in 1..(m + n), i <= j
        PROVE  instances'[i].at <= instances'[j].at
    <3>1. CASE j \in 1..m
      <4>1. i \in 1..m
        BY <1>2, <2>2, <3>1
      <4>2. instances[i].at <= instances[j].at
        BY <1>2, <2>2, <3>1, <4>1 DEF AlertsInv, InOrder
      <4>3. QED
        BY <1>10, <3>1, <4>1, <4>2
    <3>2. CASE j \notin 1..m
      <4>1. j - m \in 1..n /\ instances'[j] = created[j - m]
        BY <1>6, <3>2
      <4>2. CASE i \in 1..m
        <5>1. instances[i].at <= created[j - m].at
          BY <1>2, <4>1, <4>2 DEF AlertsInv, CreatedAreApart
        <5>2. QED
          BY <1>10, <4>1, <4>2, <5>1
      <4>3. CASE i \notin 1..m
        <5>1. i - m \in 1..n /\ instances'[i] = created[i - m] /\ i - m <= j - m
          BY <1>2, <1>6, <2>2, <4>3
        <5>2. created[i - m].at <= created[j - m].at
          BY <1>2, <4>1, <5>1 DEF AlertsInv, InOrder
        <5>3. QED
          BY <4>1, <5>1, <5>2
      <4>4. QED
        BY <4>2, <4>3
    <3>3. QED
      BY <3>1, <3>2
  <2>3. QED
    BY <1>1, <1>5, <2>1, <2>2 DEF InOrder
<1>13. ActiveOnesApart'
  <2> SUFFICES ASSUME NEW i \in 1..(m + n), NEW j \in 1..(m + n), i < j,
                      instances'[i].rule = instances'[j].rule,
                      instances'[i].status = "active", instances'[j].status = "active"
               PROVE  instances'[j].at - instances'[i].at >= instances'[j].cooldown
    BY <1>5 DEF ActiveOnesApart
  <2>1. CASE j \in 1..m
    <3>1. i \in 1..m
      BY <1>2, <2>1
    <3>2. /\ instances[i].rule = instances[j].rule
          /\ instances[i].status = "active" /\ instances[j].status = "active"
      BY <1>3, <1>5, <2>1, <3>1
    <3>3. instances[j].at - instances[i].at >= instances[j].cooldown
      BY <1>2, <2>1, <3>1, <3>2 DEF AlertsInv, ActiveOnesApart
    <3>4. QED
      BY <1>3, <1>5, <2>1, <3>1, <3>3
  <2>2. CASE j \notin 1..m
    <3>1. j - m \in 1..n /\ instances'[j] = created[j - m]
      BY <1>6, <2>2
    <3>2. CASE i \in 1..m
      <4>1. i \in DOMAIN instances /\ instances[i].rule = created[j - m].rule /\ instances[i].status = "active"
        BY <1>2, <1>3, <1>5, <3>1, <3>2
      <4>2. i \in ActiveRows(created[j - m].rule)
        BY <4>1 DEF ActiveRows
      <4>3. created[j - m].at - instances[i].at >= created[j - m].cooldown
        BY <1>2, <3>1, <4>2 DEF AlertsInv, CreatedAreApart
      <4>4. QED
        BY <1>10, <3>1, <3>2, <4>3
    <3>3. CASE i \notin 1..m
      <4>1. i - m \in 1..n /\ instances'[i] = created[i - m]
        BY <1>6, <3>3
      <4>2. i - m = j - m
        BY <1>2, <3>1, <4>1 DEF AlertsInv, CreatedAreApart
      <4>3. QED
        BY <1>2, <4>2
    <3>4. QED
      BY <3>2, <3>3
  <2>3. QED
    BY <2>1, <2>2
<1>14. QED
  BY <1>7, <1>9, <1>12, <1>13 DEF AlertsInv

LEMMA FailInv ==
  ASSUME AlertsInv, Fail
  PROVE  AlertsInv'
<1>1. /\ now' = now /\ enabled' = enabled /\ cooldown' = cooldown /\ cached' = cached /\ view' = view
      /\ rest' = rest /\ rest = {} /\ created' = <<>> /\ resolved' = {} /\ instances' = instances
  BY DEF Fail, world
<1>2. ATypeOK'
  BY <1>1 DEF AlertsInv, ATypeOK
<1>3. view = <<>>
  BY <1>1 DEF AlertsInv, ViewIsNewest
<1>4. ViewIsNewest' /\ CreatedAreApart' /\ InOrder(created, now)'
  BY <1>1, <1>3 DEF ViewIsNewest, CreatedAreApart, InOrder
<1>5. InOrder(instances, now)' /\ ActiveOnesApart'
  BY <1>1 DEF AlertsInv, InOrder, ActiveOnesApart
<1>6. QED
  BY <1>2, <1>4, <1>5 DEF AlertsInv

LEMMA NextAlerts == AlertsInv /\ [ANext]_avars => AlertsInv'
<1> SUFFICES ASSUME AlertsInv, [ANext]_avars PROVE AlertsInv'
  OBVIOUS
<1>1. now \in Nat /\ enabled \subseteq Rules /\ cooldown \in [Rules -> Nat]
  BY DEF AlertsInv, ATypeOK
<1>2. CASE Tick
  <2>1. now' = now + 1 /\ instances' = instances /\ UNCHANGED <<cycle, enabled, cooldown>>
    BY <1>2 DEF Tick
  <2>2. now' \in Nat /\ now <= now'
    BY <1>1, <2>1
  <2>3. QED
    BY <1>1, <2>1, <2>2, AroundInv
<1>3. CASE MarketOpens
  BY <1>1, <1>3, AroundInv DEF MarketOpens
<1>4. ASSUME NEW r \in Rules, UpdateRule(r) PROVE AlertsInv'
  <2>1. enabled' \subseteq Rules
    BY <1>1, <1>4 DEF UpdateRule
  <2>2. cooldown' \in [Rules -> Nat]
    <3>1. \A c \in Cooldowns : c \in Nat
      BY AlertsAssumption
    <3>2. QED
      BY <1>1, <1>4, <3>1 DEF UpdateRule
  <2>3. now' = now /\ instances' = instances /\ UNCHANGED cycle
    BY <1>4 DEF UpdateRule
  <2>4. QED
    BY <1>1, <2>1, <2>2, <2>3, AroundInv
<1>5. ASSUME NEW r \in Rules, NEW v \in 0..1, Record(r, v) PROVE AlertsInv'
  BY <1>1, <1>5, AroundInv DEF Record
<1>6. CASE AlertCycle
  BY <1>6, BeginAlertsInv, LookInv, TriggerInv, ResolveInv, PassInv, CommitAlertsInv DEF AlertCycle
<1>7. CASE Fail
  BY <1>7, FailInv
<1>8. ASSUME NEW i \in DOMAIN instances, Acknowledge(i) PROVE AlertsInv'
  BY <1>8, AcknowledgeInv
<1>9. CASE UNCHANGED avars
  BY <1>1, <1>9, AroundInv DEF avars, world
<1>10. QED
  BY <1>2, <1>3, <1>4, <1>5, <1>6, <1>7, <1>8, <1>9 DEF ANext

\* Rows and cycle of the alert engine keep their types (observability/models.py).
THEOREM AlertsTypeCorrect == ASpec => []ATypeOK
<1>1. AlertsInv => ATypeOK
  BY DEF AlertsInv
<1>2. QED
  BY <1>1, InitAlerts, NextAlerts, PTL DEF ASpec

\* However acknowledgements, failed cycles, updates of a rule and returning conditions
\* follow on each other, two active instances of a rule are a cooldown apart
\* (observability/alerts/engine.py).
THEOREM AlertsStayApart == ASpec => []ActiveOnesApart
<1>1. AlertsInv => ActiveOnesApart
  BY DEF AlertsInv
<1>2. QED
  BY <1>1, InitAlerts, NextAlerts, PTL DEF ASpec

=============================================================================
