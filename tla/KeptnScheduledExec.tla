------------------------- MODULE KeptnScheduledExec -------------------------
(***************************************************************************)
(* The KeptnScheduledExec controller of keptn-operator: when the start     *)
(* time of an object has passed it creates a KeptnSequenceExecution and    *)
(* notes in the status that it did; when the start time is moved ahead it  *)
(* takes that note back.  The status does not say which start time was     *)
(* served.  One worker.                                                    *)
(*                                                                         *)
(* Between two ticks of the clock the controller gets to look at the       *)
(* object, which it does every 30 s and whenever it changes, unless the    *)
(* operator is late.                                                       *)
(***************************************************************************)
EXTENDS ClusterObjects

CONSTANTS
  MaxTime,   \* bound on the clock
  MaxEdits   \* bound on the changes of the start time

Times == 0..MaxTime
Kinds == {"crash", "network", "answer", "stale", "touch", "late"}

ASSUME ScheduleAssumption ==
  /\ MaxTime \in Nat
  /\ MaxEdits \in Nat
  /\ \A d \in Disturbances : d[1] \in Kinds

VARIABLES
  clock,     \* the time
  schedule,  \* versions of the KeptnScheduledExec object
  job,       \* the reconciliation in flight
  created,   \* created[t]: executions created for start time t
  withdrawn, \* start times given up before they had passed
  edits      \* changes of the start time so far

vars == <<clock, schedule, job, created, withdrawn, edits, disturbed>>

Objects == [start : Times, started : BOOLEAN]
Idle    == [pc |-> "idle"]
Jobs    == [pc : {"create", "status"}, copy : Objects, fresh : BOOLEAN]

Init ==
  /\ clock = 0
  /\ schedule \in {<<[start |-> t, started |-> FALSE]>> : t \in Times}
  /\ job = Idle
  /\ created = [t \in Times |-> 0]
  /\ withdrawn = {}
  /\ edits = 0
  /\ disturbed = {}

-----------------------------------------------------------------------------
Ahead(object)  == object.start > clock
Passed(object) == object.start < clock

\* Mutant: the note is taken back in the copy only.
Reset_Unwritten ==
  /\ job = Idle
  /\ Ahead(Cached(schedule))
  /\ Cached(schedule).started
  /\ UNCHANGED vars

\* Refused if the copy is outdated, which changes nothing.
Reset ==
  /\ job = Idle
  /\ Ahead(Cached(schedule))
  /\ Cached(schedule).started
  /\ InSync(schedule)
  /\ schedule' = Push(schedule, [Cached(schedule) EXCEPT !.started = FALSE])
  /\ UNCHANGED <<clock, job, created, withdrawn, edits, disturbed>>

\* Mutant: only the status is looked at.
Decision_Untimed ==
  /\ job = Idle
  /\ ~Cached(schedule).started
  /\ Decide(schedule)
  /\ job' = [pc |-> "create", copy |-> Cached(schedule), fresh |-> InSync(schedule)]
  /\ UNCHANGED <<clock, schedule, created, withdrawn, edits>>

Decision ==
  /\ job = Idle
  /\ Passed(Cached(schedule))
  /\ ~Cached(schedule).started
  /\ Decide(schedule)
  /\ job' = [pc |-> "create", copy |-> Cached(schedule), fresh |-> InSync(schedule)]
  /\ UNCHANGED <<clock, schedule, created, withdrawn, edits>>

\* The name is generated: no execution that exists stands in the way.
CreateExecution ==
  /\ job.pc = "create"
  /\ created' = [created EXCEPT ![job.copy.start] = @ + 1]
  /\ \/ job' = [job EXCEPT !.pc = "status"] /\ UNCHANGED disturbed
     \/ job' = Idle /\ Disturb("answer")
  /\ UNCHANGED <<clock, schedule, withdrawn, edits>>

\* Mutant: what is written has a status and nothing else.
WriteStarted_StatusOnly ==
  /\ job.pc = "status"
  /\ job' = Idle
  /\ schedule' = IF job.fresh THEN Push(schedule, [started |-> TRUE]) ELSE schedule
  /\ UNCHANGED <<clock, created, withdrawn, edits, disturbed>>

\* Mutant: the status is changed in the copy only.
WriteStarted_Unwritten ==
  /\ job.pc = "status"
  /\ job' = Idle
  /\ UNCHANGED <<clock, schedule, created, withdrawn, edits, disturbed>>

WriteStarted ==
  /\ job.pc = "status"
  /\ job' = Idle
  /\ schedule' = IF job.fresh
                   THEN Push(schedule, [job.copy EXCEPT !.started = TRUE])
                   ELSE schedule
  /\ UNCHANGED <<clock, created, withdrawn, edits, disturbed>>

-----------------------------------------------------------------------------
(* The environment. *)

Outdated == IF job = Idle THEN Idle ELSE [job EXCEPT !.fresh = FALSE]

\* Starts are scheduled ahead.
Reschedule(t) ==
  /\ edits < MaxEdits
  /\ t > clock
  /\ t # Stored(schedule).start
  /\ edits' = edits + 1
  /\ withdrawn' = IF Passed(Stored(schedule)) THEN withdrawn \ {t}
                  ELSE (withdrawn \cup {Stored(schedule).start}) \ {t}
  /\ schedule' = Push(schedule, [Stored(schedule) EXCEPT !.start = t])
  /\ job' = Outdated
  /\ UNCHANGED <<clock, created, disturbed>>

\* Something else about the object is changed.
Touch ==
  /\ job # Idle
  /\ Disturb("touch")
  /\ job' = Outdated
  /\ UNCHANGED <<clock, schedule, created, withdrawn, edits>>

Settled ==
  /\ job = Idle
  /\ InSync(schedule)
  /\ ~(Ahead(Stored(schedule)) /\ Stored(schedule).started)
  /\ ~(Passed(Stored(schedule)) /\ ~Stored(schedule).started)

Tick ==
  /\ clock < MaxTime + 1
  /\ clock' = clock + 1
  /\ \/ Settled /\ UNCHANGED disturbed
     \/ ~Settled /\ Disturb("late")
  /\ UNCHANGED <<schedule, job, created, withdrawn, edits>>

CallFails ==
  /\ job # Idle
  /\ Disturb("network")
  /\ job' = Idle
  /\ UNCHANGED <<clock, schedule, created, withdrawn, edits>>

Crash ==
  /\ Disturb("crash")
  /\ job' = Idle
  /\ schedule' = <<Stored(schedule)>>
  /\ UNCHANGED <<clock, created, withdrawn, edits>>

Sync ==
  /\ ~InSync(schedule)
  /\ schedule' = Tail(schedule)
  /\ UNCHANGED <<clock, job, created, withdrawn, edits, disturbed>>

-----------------------------------------------------------------------------
Reconcile == Reset \/ Decision \/ CreateExecution \/ WriteStarted

Next ==
  \/ Reconcile \/ Sync \/ Tick
  \/ \E t \in Times : Reschedule(t)
  \/ Touch \/ CallFails \/ Crash

Spec == Init /\ [][Next]_vars

\* The object is looked at every 30 s, informers deliver, time goes on.
Fairness == WF_vars(Reconcile) /\ WF_vars(Sync) /\ WF_vars(Tick)

FairSpec == Spec /\ Fairness

-----------------------------------------------------------------------------
(* Properties. *)

\* Type invariant.
TypeOK ==
  /\ clock \in 0..MaxTime + 1
  /\ schedule \in Seq(Objects) \ {<<>>}
  /\ job \in Jobs \cup {Idle}
  /\ created \in [Times -> Nat]
  /\ withdrawn \subseteq Times
  /\ edits \in 0..MaxEdits
  /\ disturbed \subseteq Disturbances

\* However often the start time is moved, no execution is created for a time
\* that has not passed, nor, as long as the operator is not late, for one that
\* the object had given up before it came.
NeverEarly ==
  \A t \in Times : created[t] > 0 =>
    t < clock /\ ("late" \notin Happened => t \notin withdrawn)

\* A start time that is moved, also while it is being served, has one execution,
\* and each lost write, lost answer, restart or stale cache adds one at most.
StartedOnce ==
  \A t \in Times : created[t] <= 1 + Cardinality({d \in disturbed : d[1] # "late"})

\* The last start time is served once it has passed, although the status does
\* not say for which time it was written, if the operator is never late.
EveryTimeIsServed ==
  <>[]("late" \notin Happened => created[Stored(schedule).start] > 0)
=============================================================================
