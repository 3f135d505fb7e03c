---------------------------- MODULE LossyChannel ----------------------------
(***************************************************************************)
(* What the event emitter promises, without a queue, tasks or batches: an  *)
(* event is at one place at any time and moves along the lines below.      *)
(* Only what is not urgent is refused at once; what is urgent and finds no *)
(* room waits for it.  Closing secures all that is queued: from then on    *)
(* only a database that refuses it can lose it, and the channel is not     *)
(* closed before that is settled.                                          *)
(***************************************************************************)
CONSTANT Urgent   \* the urgent events

VARIABLES at,      \* pairs <<event, place>>
          phase    \* open, closing, closed

Lines == {<<"waiting", "queued">>,  <<"waiting", "timeout">>, <<"queued", "taken">>,
          <<"taken", "written">>,   <<"taken", "failed">>,
          <<"secured", "written">>, <<"secured", "failed">>}

AtPlace(p) == {l \in at : l[2] = p}

\* The pairs after those of S have gone to the place p.
Moved(S, p) == (at \ S) \cup {<<l[1], p>> : l \in S}

Init == at = {} /\ phase = "open"

Send ==
  /\ phase # "closed" /\ UNCHANGED phase
  /\ \E new \in at' \ at :
       /\ \A l \in at : l[1] # new[1]
       /\ new[2] \in {"queued"} \cup (IF new[1] \in Urgent THEN {"waiting"} ELSE {"dropped"})
       /\ at' = at \cup {new}

\* Some of the events at one place move on together.
Move ==
  LET gone == at \ at' IN
  /\ gone # {}
  /\ \E m \in Lines : (\A l \in gone : l[2] = m[1]) /\ at' = Moved(gone, m[2])
  /\ UNCHANGED phase

Close ==
  /\ phase = "open" /\ phase' = "closing"
  /\ at' = Moved(AtPlace("queued"), "secured")

Finish ==
  /\ phase = "closing" /\ phase' = "closed"
  /\ AtPlace("secured") = {}
  /\ \E p \in {"written", "cancelled"} : at' = Moved(AtPlace("taken"), p)

Next == Send \/ Move \/ Close \/ Finish

Spec == Init /\ [][Next]_<<at, phase>>

=============================================================================
