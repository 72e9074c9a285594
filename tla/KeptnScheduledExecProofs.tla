---------------------- MODULE KeptnScheduledExecProofs ----------------------
(***************************************************************************)
(* Theorems about KeptnScheduledExec, for every clock bound, cache lag and *)
(* number of changes and of disturbances: the types, that no execution is  *)
(* created early or for a time given up, and that the executions of a      *)
(* start time are accounted for by the disturbances.                       *)
(***************************************************************************)
EXTENDS KeptnScheduledExec, ClusterObjectsProofs

-----------------------------------------------------------------------------
(* Types. *)

\* What the type invariant says of each variable that has structure.
LEMMA TypeFacts ==
  ASSUME TypeOK
  PROVE  /\ schedule \in Seq(Objects) /\ schedule # <<>>
         /\ Stored(schedule) \in Objects /\ Cached(schedule) \in Objects
         /\ Len(schedule) \in Nat \ {0}
         /\ job # Idle => job \in Jobs
         /\ job = Idle => job.pc = "idle"
         /\ Outdated \in Jobs \cup {Idle}
<1>1. schedule \in Seq(Objects) /\ schedule # <<>>
  BY DEF TypeOK
<1>2. /\ Stored(schedule) \in Objects /\ Cached(schedule) \in Objects
      /\ Len(schedule) \in Nat \ {0}
  BY <1>1, EndFacts
<1>3. /\ job # Idle => job \in Jobs
      /\ job = Idle => job.pc = "idle"
  BY DEF TypeOK, Idle
<1>4. Outdated \in Jobs \cup {Idle}
  <2>1. CASE job = Idle
    BY <2>1 DEF Outdated
  <2>2. CASE job # Idle
    <3>1. job \in Jobs
      BY <1>3, <2>2
    <3>2. [job EXCEPT !.fresh = FALSE] \in Jobs
      BY <3>1 DEF Jobs
    <3> QED
      BY <2>2, <3>2 DEF Outdated
  <2> QED
    BY <2>1, <2>2
<1> QED
  BY <1>1, <1>2, <1>3, <1>4

LEMMA TypeInit == Init => TypeOK
<1> SUFFICES ASSUME Init PROVE TypeOK
  OBVIOUS
<1>1. PICK t \in Times : schedule = <<[start |-> t, started |-> FALSE]>>
  BY DEF Init
<1>2. schedule \in Seq(Objects) \ {<<>>}
  BY <1>1 DEF Objects
<1> QED
  BY <1>2, ScheduleAssumption DEF Init, TypeOK, Times

\* A disturbance adds one of the kinds there are.
LEMMA DisturbTyped ==
  ASSUME disturbed \subseteq Disturbances, NEW kind, Disturb(kind)
  PROVE  disturbed' \subseteq Disturbances
BY DEF Disturb

LEMMA TypeNext == TypeOK /\ [Next]_vars => TypeOK'
<1> SUFFICES ASSUME TypeOK, [Next]_vars PROVE TypeOK'
  OBVIOUS
<1> USE TypeFacts
<1>0. disturbed \subseteq Disturbances
  BY DEF TypeOK
<1>1. CASE Reset
  <2>1. [Cached(schedule) EXCEPT !.started = FALSE] \in Objects
    BY DEF Objects
  <2>2. schedule' \in Seq(Objects) \ {<<>>}
    BY <1>1, <2>1, PushFacts DEF Reset
  <2> QED
    BY <1>1, <2>2 DEF Reset, TypeOK
<1>2. CASE Decision
  <2>1. disturbed' \subseteq Disturbances
    BY <1>0, <1>2, DisturbTyped DEF Decision, Decide
  <2>2. job' \in Jobs
    BY <1>2 DEF Decision, Jobs, InSync
  <2> QED
    BY <1>2, <2>1, <2>2 DEF Decision, TypeOK
<1>3. CASE CreateExecution
  <2>1. job \in Jobs /\ job.copy \in Objects /\ job.copy.start \in Times
    BY <1>3 DEF CreateExecution, Jobs, Objects
  <2>2. created' \in [Times -> Nat]
    BY <1>3, <2>1 DEF CreateExecution, TypeOK
  <2>3. job' \in Jobs \cup {Idle}
    BY <1>3, <2>1 DEF CreateExecution, Jobs
  <2>4. disturbed' \subseteq Disturbances
    BY <1>0, <1>3, DisturbTyped DEF CreateExecution
  <2> QED
    BY <1>3, <2>2, <2>3, <2>4 DEF CreateExecution, TypeOK
<1>4. CASE WriteStarted
  <2>1. job \in Jobs /\ [job.copy EXCEPT !.started = TRUE] \in Objects
    BY <1>4 DEF WriteStarted, Jobs, Objects
  <2>2. schedule' \in Seq(Objects) \ {<<>>}
    BY <1>4, <2>1, PushFacts DEF WriteStarted
  <2> QED
    BY <1>4, <2>2 DEF WriteStarted, TypeOK
<1>5. CASE Sync
  <2>1. schedule' \in Seq(Objects) \ {<<>>}
    BY <1>5, TailFacts DEF Sync, InSync
  <2> QED
    BY <1>5, <2>1 DEF Sync, TypeOK
<1>6. CASE Tick
  <2>1. disturbed' \subseteq Disturbances
    BY <1>0, <1>6, DisturbTyped DEF Tick
  <2>2. clock' \in 0..MaxTime + 1
    BY <1>6, ScheduleAssumption DEF Tick, TypeOK
  <2> QED
    BY <1>6, <2>1, <2>2 DEF Tick, TypeOK
<1>7. ASSUME NEW t \in Times, Reschedule(t) PROVE TypeOK'
  <2>1. [Stored(schedule) EXCEPT !.start = t] \in Objects
    BY DEF Objects
  <2>2. schedule' \in Seq(Objects) \ {<<>>}
    BY <1>7, <2>1, PushFacts DEF Reschedule
  <2>3. Stored(schedule).start \in Times
    BY DEF Objects
  <2>4. withdrawn' \subseteq Times
    BY <1>7, <2>3 DEF Reschedule, TypeOK
  <2>5. edits' \in 0..MaxEdits
    BY <1>7, ScheduleAssumption DEF Reschedule, TypeOK
  <2> QED
    BY <1>7, <2>2, <2>4, <2>5 DEF Reschedule, TypeOK
<1>8. CASE Touch
  BY <1>0, <1>8, DisturbTyped DEF Touch, TypeOK
<1>9. CASE CallFails
  BY <1>0, <1>9, DisturbTyped DEF CallFails, TypeOK
<1>10. CASE Crash
  <2>1. schedule' \in Seq(Objects) \ {<<>>}
    BY <1>10, RelistFacts DEF Crash
  <2> QED
    BY <1>0, <1>10, <2>1, DisturbTyped DEF Crash, TypeOK
<1>11. CASE UNCHANGED vars
  BY <1>11 DEF vars, TypeOK
<1> QED
  BY <1>1, <1>2, <1>3, <1>4, <1>5, <1>6, <1>7, <1>8, <1>9, <1>10, <1>11
     DEF Next, Reconcile

-----------------------------------------------------------------------------
(* The inductive invariant. *)

Budget   == Cardinality({d \in disturbed : d[1] # "late"})
Waits(t) == Stored(schedule).start = t /\ ~Stored(schedule).started

\* Only passed start times are served or being served.
OnlyPassed ==
  /\ \A t \in Times : created[t] > 0 => t < clock
  /\ job # Idle => job.copy.start < clock

\* A copy that has not been outdated is the stored version.
FreshCopy == job # Idle /\ job.fresh => job.copy = Stored(schedule)

\* The executions of start time t: one, and one for every disturbance; before
\* the one that the stored object waits for, or that is about to be created,
\* one less, and another one less before one that will be created in vain.
Accounted(t) ==
  /\ created[t] <= 1 + Budget
  /\ Waits(t) /\ ~(job.pc = "status" /\ job.fresh) => created[t] <= Budget
  /\ job.pc = "create" /\ job.copy.start = t =>
       /\ created[t] <= Budget
       /\ ~job.fresh /\ Waits(t) => created[t] + 1 <= Budget

\* Unless the operator was late no time that was given up is served, and no
\* version the cache may show has such a time once it has passed.
NotWithdrawn ==
  "late" \notin Happened =>
    /\ \A t \in Times : created[t] > 0 => t \notin withdrawn
    /\ job # Idle => job.copy.start \notin withdrawn
    /\ Stored(schedule).start \notin withdrawn
    /\ \A i \in 1..Len(schedule) :
         schedule[i].start < clock => schedule[i].start \notin withdrawn

IInv == /\ TypeOK
        /\ OnlyPassed
        /\ FreshCopy
        /\ \A t \in Times : Accounted(t)
        /\ NotWithdrawn

-----------------------------------------------------------------------------
(* What the steps do to the stored version and to the budget. *)

LEMMA StoredAfter ==
  ASSUME TypeOK
  PROVE  /\ Reset \/ Sync \/ Crash => Stored(schedule)'.start = Stored(schedule).start
         /\ Sync \/ Crash => Stored(schedule)' = Stored(schedule)
         /\ \A t \in Times : Reschedule(t) => Stored(schedule)'.start = t
         /\ WriteStarted /\ job.fresh =>
              Stored(schedule)' = [job.copy EXCEPT !.started = TRUE]
         /\ WriteStarted /\ ~job.fresh => Stored(schedule)' = Stored(schedule)
<1> USE TypeFacts
<1>1. ASSUME Reset PROVE Stored(schedule)'.start = Stored(schedule).start
  <2>1. [Cached(schedule) EXCEPT !.started = FALSE] \in Objects
    BY DEF Objects
  <2>2. Stored(schedule)' = [Cached(schedule) EXCEPT !.started = FALSE]
    BY <1>1, <2>1, PushFacts DEF Reset
  <2>3. Cached(schedule) = Stored(schedule)
    BY <1>1, EndFacts DEF Reset
  <2> QED
    BY <2>2, <2>3 DEF Objects
<1>2. ASSUME Sync PROVE Stored(schedule)' = Stored(schedule)
  BY <1>2, TailFacts DEF Sync, InSync
<1>3. ASSUME Crash PROVE Stored(schedule)' = Stored(schedule)
  BY <1>3, RelistFacts DEF Crash
<1>4. ASSUME NEW t \in Times, Reschedule(t) PROVE Stored(schedule)'.start = t
  <2>1. [Stored(schedule) EXCEPT !.start = t] \in Objects
    BY DEF Objects
  <2>2. Stored(schedule)' = [Stored(schedule) EXCEPT !.start = t]
    BY <1>4, <2>1, PushFacts DEF Reschedule
  <2> QED
    BY <2>2 DEF Objects
<1>5. ASSUME WriteStarted, job.fresh
      PROVE  Stored(schedule)' = [job.copy EXCEPT !.started = TRUE]
  <2>1. [job.copy EXCEPT !.started = TRUE] \in Objects
    BY <1>5 DEF WriteStarted, Jobs, Objects
  <2> QED
    BY <1>5, <2>1, PushFacts DEF WriteStarted
<1>6. ASSUME WriteStarted, ~job.fresh PROVE Stored(schedule)' = Stored(schedule)
  BY <1>6 DEF WriteStarted
<1> QED
  BY <1>1, <1>2, <1>3, <1>4, <1>5, <1>6

LEMMA BudgetFacts ==
  ASSUME TypeOK
  PROVE  /\ Budget \in Nat
         /\ UNCHANGED disturbed => Budget' = Budget
         /\ \A kind : Disturb(kind) =>
              Budget' = IF kind = "late" THEN Budget ELSE Budget + 1
<1>0. disturbed \subseteq Disturbances
  BY DEF TypeOK
<1>1. Budget \in Nat
  <2>1. IsFiniteSet({d \in disturbed : d[1] # "late"})
    BY <1>0, ClusterAssumption, FS_Subset
  <2> QED
    BY <2>1, FS_CardinalityType DEF Budget
<1>2. UNCHANGED disturbed => Budget' = Budget
  BY DEF Budget
<1>3. ASSUME NEW kind, Disturb(kind)
      PROVE  Budget' = IF kind = "late" THEN Budget ELSE Budget + 1
  <2> DEFINE Old == {d \in disturbed : d[1] # "late"}
             New == {d \in disturbed' : d[1] # "late"}
  <2>1. PICK e \in Disturbances \ disturbed :
          e[1] = kind /\ disturbed' = disturbed \cup {e}
    BY <1>3, DisturbAdds
  <2>2. IsFiniteSet(Old)
    BY <1>0, ClusterAssumption, FS_Subset
  <2>3. CASE kind = "late"
    <3>1. New = Old
      BY <2>1, <2>3
    <3> QED
      BY <2>3, <3>1 DEF Budget
  <2>4. CASE kind # "late"
    <3>1. New = Old \cup {e} /\ e \notin Old
      BY <2>1, <2>4
    <3>2. Cardinality(Old \cup {e}) = Cardinality(Old) + 1
      BY <2>2, <3>1, FS_AddElement
    <3> QED
      BY <2>4, <3>1, <3>2 DEF Budget
  <2> QED
    BY <2>3, <2>4
<1> QED
  BY <1>1, <1>2, <1>3

-----------------------------------------------------------------------------
(* Start times that have passed, and copies. *)

LEMMA PassedNext ==
  ASSUME TypeOK, TypeOK', OnlyPassed, [Next]_vars
  PROVE  OnlyPassed'
<1> USE TypeFacts DEF OnlyPassed
<1>0. clock \in Int /\ Times \subseteq Int
  BY ScheduleAssumption DEF TypeOK, Times
<1>1. CASE Decision
  <2>1. job'.copy.start < clock
    BY <1>1 DEF Decision, Passed
  <2> QED
    BY <1>1, <2>1 DEF Decision
<1>2. CASE CreateExecution
  <2>1. job # Idle /\ job \in Jobs
    BY <1>2 DEF CreateExecution
  <2>2. job' # Idle => job'.copy = job.copy
    BY <1>2, <2>1 DEF CreateExecution, Jobs
  <2>3. ASSUME NEW t \in Times, created'[t] > 0 PROVE t < clock
    <3>1. CASE t = job.copy.start
      BY <2>1, <3>1
    <3>2. CASE t # job.copy.start
      BY <1>2, <2>3, <3>2 DEF CreateExecution, TypeOK
    <3> QED
      BY <3>1, <3>2
  <2> QED
    BY <1>2, <2>1, <2>2, <2>3 DEF CreateExecution
<1>3. CASE Tick
  <2>1. clock' = clock + 1 /\ job' = job /\ created' = created
    BY <1>3 DEF Tick
  <2>2. job # Idle => job.copy.start \in Int
    BY <1>0 DEF Jobs, Objects
  <2> QED
    BY <1>0, <2>1, <2>2
<1>4. ASSUME NEW t \in Times, Reschedule(t) PROVE OnlyPassed'
  <2>1. job' # Idle => job # Idle /\ job'.copy = job.copy
    BY <1>4 DEF Reschedule, Outdated, Jobs
  <2> QED
    BY <1>4, <2>1 DEF Reschedule
<1>5. CASE Touch
  <2>1. job' # Idle => job # Idle /\ job'.copy = job.copy
    BY <1>5 DEF Touch, Outdated, Jobs
  <2> QED
    BY <1>5, <2>1 DEF Touch
<1>6. CASE Reset \/ WriteStarted \/ Sync \/ CallFails \/ Crash \/ UNCHANGED vars
  BY <1>6 DEF Reset, WriteStarted, Sync, CallFails, Crash, vars
<1> QED
  BY <1>1, <1>2, <1>3, <1>4, <1>5, <1>6 DEF Next, Reconcile

LEMMA FreshNext ==
  ASSUME TypeOK, FreshCopy, [Next]_vars
  PROVE  FreshCopy'
<1> USE TypeFacts DEF FreshCopy
<1>1. CASE Decision
  <2>1. /\ job' = [pc |-> "create", copy |-> Cached(schedule), fresh |-> InSync(schedule)]
        /\ Stored(schedule)' = Stored(schedule)
    BY <1>1 DEF Decision
  <2> QED
    BY <2>1, EndFacts
<1>2. CASE CreateExecution
  <2>1. job \in Jobs /\ job # Idle
    BY <1>2 DEF CreateExecution
  <2>2. job' # Idle => job'.copy = job.copy /\ job'.fresh = job.fresh
    BY <1>2, <2>1 DEF CreateExecution, Jobs
  <2>3. Stored(schedule)' = Stored(schedule)
    BY <1>2 DEF CreateExecution
  <2> QED
    BY <2>1, <2>2, <2>3
<1>3. CASE Tick \/ UNCHANGED vars
  BY <1>3 DEF Tick, vars
<1>4. CASE Sync
  <2>1. Stored(schedule)' = Stored(schedule)
    BY <1>4, StoredAfter
  <2> QED
    BY <1>4, <2>1 DEF Sync
<1>5. CASE (\E t \in Times : Reschedule(t)) \/ Touch
  <2>1. job' # Idle => ~job'.fresh
    BY <1>5 DEF Reschedule, Touch, Outdated, Jobs
  <2> QED
    BY <2>1
<1>6. CASE Reset \/ WriteStarted \/ CallFails \/ Crash
  BY <1>6 DEF Reset, WriteStarted, CallFails, Crash
<1> QED
  BY <1>1, <1>2, <1>3, <1>4, <1>5, <1>6 DEF Next, Reconcile

-----------------------------------------------------------------------------
(* The account of executions. *)

LEMMA AccountedNext ==
  ASSUME TypeOK, TypeOK', OnlyPassed, FreshCopy, [Next]_vars,
         NEW t \in Times, Accounted(t)
  PROVE  Accounted(t)'
<1>0. /\ clock \in Int /\ t \in Int /\ created[t] \in Nat
      /\ job = Idle => job.pc # "create" /\ job.pc # "status"
      /\ Idle.pc # "create" /\ Idle.pc # "status"
  <2>1. clock \in Int /\ t \in Int /\ created[t] \in Nat
    BY ScheduleAssumption DEF TypeOK, Times
  <2> QED
    BY <2>1 DEF Idle
<1> USE TypeFacts, BudgetFacts
\* A start time that is still to come has no execution.
<1>a. t > clock => created[t] = 0
  BY <1>0 DEF OnlyPassed
<1>1. CASE Reset
  <2>1. /\ job' = Idle /\ created' = created /\ Budget' = Budget
        /\ Cached(schedule) = Stored(schedule) /\ Stored(schedule).start > clock
    BY <1>1, EndFacts DEF Reset, Ahead
  <2>2. Waits(t)' => t > clock
    BY <1>1, <2>1, StoredAfter DEF Waits
  <2> QED
    BY <1>0, <1>a, <2>1, <2>2 DEF Accounted
<1>2. CASE Decision
  <2>1. /\ job = Idle /\ created' = created
        /\ job' = [pc |-> "create", copy |-> Cached(schedule), fresh |-> InSync(schedule)]
        /\ Waits(t)' = Waits(t) /\ ~Cached(schedule).started
    BY <1>2 DEF Decision, Waits
  <2>2. CASE InSync(schedule)
    <3>1. Budget' = Budget
      BY <1>2, <2>2 DEF Decision, Decide
    <3>2. Cached(schedule).start = t => Waits(t)
      BY <2>1, <2>2, EndFacts DEF Waits
    <3> QED
      BY <1>0, <2>1, <2>2, <3>1, <3>2 DEF Accounted
  <2>3. CASE ~InSync(schedule)
    <3>1. Budget' = Budget + 1
      BY <1>2, <2>3 DEF Decision, Decide
    <3> QED
      BY <1>0, <2>1, <2>3, <3>1 DEF Accounted
  <2> QED
    BY <2>2, <2>3
<1>3. CASE CreateExecution
  <2>1. /\ job \in Jobs /\ job.pc = "create" /\ job.copy.start \in Times
        /\ Waits(t)' = Waits(t)
    BY <1>3 DEF CreateExecution, Waits, Jobs, Objects
  <2>2. created'[t] = IF t = job.copy.start THEN created[t] + 1 ELSE created[t]
    BY <1>3 DEF CreateExecution, TypeOK
  \* The object waits for the time of a copy that is still good.
  <2>3. job.fresh /\ Waits(t) => job.copy.start = t
    BY <1>0, <2>1 DEF FreshCopy, Waits
  <2>4. CASE job' = [job EXCEPT !.pc = "status"] /\ UNCHANGED disturbed
    <3>1. job'.pc = "status" /\ job'.fresh = job.fresh /\ Budget' = Budget
      BY <2>1, <2>4 DEF Jobs
    <3> QED
      BY <1>0, <2>1, <2>2, <2>3, <3>1 DEF Accounted
  <2>5. CASE job' = Idle /\ Disturb("answer")
    <3>1. Budget' = Budget + 1
      BY <2>5
    <3> QED
      BY <1>0, <2>1, <2>2, <2>5, <3>1 DEF Accounted
  <2> QED
    BY <1>3, <2>4, <2>5 DEF CreateExecution
<1>4. CASE WriteStarted
  <2>1. /\ job \in Jobs /\ job.pc = "status" /\ job' = Idle
        /\ created' = created /\ Budget' = Budget
    BY <1>4 DEF WriteStarted
  <2>2. CASE job.fresh
    <3>1. ~Waits(t)'
      BY <1>4, <2>1, <2>2, StoredAfter DEF Waits, Jobs, Objects
    <3> QED
      BY <1>0, <2>1, <3>1 DEF Accounted
  <2>3. CASE ~job.fresh
    <3>1. Waits(t)' = Waits(t)
      BY <1>4, <2>3, StoredAfter DEF Waits
    <3> QED
      BY <1>0, <2>1, <2>3, <3>1 DEF Accounted
  <2> QED
    BY <2>2, <2>3
<1>5. CASE Sync
  <2>1. Waits(t)' = Waits(t)
    BY <1>5, StoredAfter DEF Waits
  <2> QED
    BY <1>5, <2>1 DEF Sync, Accounted
<1>6. CASE Tick
  <2>1. /\ job' = job /\ created' = created /\ Waits(t)' = Waits(t)
    BY <1>6 DEF Tick, Waits
  <2>2. Budget' = Budget
    BY <1>6 DEF Tick
  <2> QED
    BY <2>1, <2>2 DEF Accounted
<1>7. ASSUME NEW n \in Times, Reschedule(n) PROVE Accounted(t)'
  <2>1. created' = created /\ Budget' = Budget /\ n > clock
    BY <1>7 DEF Reschedule
  <2>2. job' # Idle => job # Idle /\ job'.pc = job.pc /\ job'.copy = job.copy
    BY <1>7 DEF Reschedule, Outdated, Jobs
  <2>3. Waits(t)' => t = n
    BY <1>7, StoredAfter DEF Waits
  <2>4. job' # Idle => job'.copy.start < clock
    BY <2>2 DEF OnlyPassed
  <2> QED
    BY <1>0, <1>a, <2>1, <2>2, <2>3, <2>4 DEF Accounted
<1>8. CASE Touch
  <2>1. created' = created /\ Budget' = Budget + 1 /\ Waits(t)' = Waits(t)
    BY <1>8 DEF Touch, Waits
  <2>2. job \in Jobs /\ job'.pc = job.pc /\ job'.copy = job.copy
    BY <1>8 DEF Touch, Outdated, Jobs
  <2> QED
    BY <1>0, <2>1, <2>2 DEF Accounted
<1>9. CASE CallFails \/ Crash
  <2>1. created' = created /\ job' = Idle /\ Budget' = Budget + 1
    BY <1>9 DEF CallFails, Crash
  <2> QED
    BY <1>0, <2>1 DEF Accounted
<1>10. CASE UNCHANGED vars
  <2>1. /\ job' = job /\ created' = created /\ Waits(t)' = Waits(t)
        /\ Budget' = Budget
    BY <1>10 DEF vars, Waits
  <2> QED
    BY <2>1 DEF Accounted
<1> QED
  BY <1>1, <1>2, <1>3, <1>4, <1>5, <1>6, <1>7, <1>8, <1>9, <1>10
     DEF Next, Reconcile

-----------------------------------------------------------------------------
(* Start times that were given up. *)

\* A write brings in one version.
LEMMA VersionsPushed ==
  ASSUME TypeOK, NEW x \in Objects, schedule' = Push(schedule, x),
         NEW i \in 1..Len(schedule')
  PROVE  schedule'[i] = x \/ \E j \in 1..Len(schedule) : schedule'[i] = schedule[j]
<1>1. schedule \in Seq(Objects) /\ schedule # <<>>
  BY TypeFacts
<1> QED
  BY <1>1, PushElements

\* Where the versions of the object come from.
LEMMA VersionsAfter ==
  ASSUME TypeOK, NEW i \in 1..Len(schedule)', [Next]_vars
  PROVE  \/ \E j \in 1..Len(schedule) : schedule'[i] = schedule[j]
         \/ Reset /\ schedule'[i].start > clock
         \/ WriteStarted /\ schedule'[i].start = job.copy.start
         \/ \E t \in Times : Reschedule(t) /\ schedule'[i].start = t
<1> USE TypeFacts
<1>1. CASE Reset
  <2> DEFINE object == [Cached(schedule) EXCEPT !.started = FALSE]
  <2>1. object \in Objects /\ object.start > clock
    BY <1>1 DEF Objects, Reset, Ahead
  <2> HIDE DEF object
  <2>2. schedule' = Push(schedule, object)
    BY <1>1 DEF Reset, object
  <2> QED
    BY <1>1, <2>1, <2>2, VersionsPushed
<1>2. CASE WriteStarted
  <2> DEFINE object == [job.copy EXCEPT !.started = TRUE]
  <2>1. object \in Objects /\ object.start = job.copy.start
    BY <1>2 DEF WriteStarted, Jobs, Objects
  <2> HIDE DEF object
  <2>2. schedule' = schedule \/ schedule' = Push(schedule, object)
    BY <1>2 DEF WriteStarted, object
  <2> QED
    BY <1>2, <2>1, <2>2, VersionsPushed
<1>3. ASSUME NEW t \in Times, Reschedule(t)
      PROVE  \/ \E j \in 1..Len(schedule) : schedule'[i] = schedule[j]
             \/ schedule'[i].start = t
  <2> DEFINE object == [Stored(schedule) EXCEPT !.start = t]
  <2>1. object \in Objects /\ object.start = t
    BY DEF Objects
  <2> HIDE DEF object
  <2>2. schedule' = Push(schedule, object)
    BY <1>3 DEF Reschedule, object
  <2> QED
    BY <2>1, <2>2, VersionsPushed
<1>4. CASE Sync
  BY <1>4, TailFacts DEF Sync, InSync
<1>5. CASE Crash
  <2>1. schedule' = <<Stored(schedule)>>
    BY <1>5 DEF Crash
  <2>2. i = 1 /\ schedule'[i] = schedule[Len(schedule)]
    BY <2>1, RelistFacts
  <2> QED
    BY <2>2, RelistFacts
<1>6. CASE Decision \/ CreateExecution \/ Tick \/ Touch \/ CallFails
           \/ UNCHANGED vars
  <2>1. schedule' = schedule
    BY <1>6 DEF Decision, CreateExecution, Tick, Touch, CallFails, vars
  <2> QED
    BY <2>1
<1> QED
  BY <1>1, <1>2, <1>3, <1>4, <1>5, <1>6 DEF Next, Reconcile

\* The three parts of NotWithdrawn that are not about the versions.
LEMMA WithdrawnNext ==
  ASSUME TypeOK, TypeOK', OnlyPassed, FreshCopy, NotWithdrawn, [Next]_vars
  PROVE  NotWithdrawn'
<1> SUFFICES ASSUME "late" \notin Happened'
             PROVE  /\ \A t \in Times : created'[t] > 0 => t \notin withdrawn'
                    /\ job' # Idle => job'.copy.start \notin withdrawn'
                    /\ Stored(schedule)'.start \notin withdrawn'
                    /\ \A i \in 1..Len(schedule)' : schedule'[i].start < clock' =>
                         schedule'[i].start \notin withdrawn'
  BY DEF NotWithdrawn
<1> USE TypeFacts
<1>0. "late" \notin Happened
  <2>1. disturbed \subseteq disturbed'
    BY DEF Next, Reconcile, Reset, Decision, Decide, CreateExecution,
           WriteStarted, Sync, Tick, Reschedule, Touch, CallFails, Crash,
           Disturb, vars
  <2> QED
    BY <2>1, HappenedGrows
<1>a. /\ \A t \in Times : created[t] > 0 => t \notin withdrawn
      /\ job # Idle => job.copy.start \notin withdrawn
      /\ Stored(schedule).start \notin withdrawn
      /\ \A i \in 1..Len(schedule) : schedule[i].start < clock =>
           schedule[i].start \notin withdrawn
  BY <1>0 DEF NotWithdrawn
<1>b. clock \in Int /\ Times \subseteq Int
  BY ScheduleAssumption DEF TypeOK, Times
\* A change of the start time gives up one that is still to come.
<1>1. ASSUME NEW n \in Times, Reschedule(n)
      PROVE  /\ n \notin withdrawn'
             /\ \A t \in Times : t < clock /\ t \in withdrawn' => t \in withdrawn
  <2>1. Stored(schedule).start \in Int
    BY <1>b DEF Objects
  <2> QED
    BY <1>1, <1>b, <2>1 DEF Reschedule, Passed
<1>2. CASE \E n \in Times : Reschedule(n)
  <2>1. PICK n \in Times : Reschedule(n)
    BY <1>2
  <2>2. clock' = clock /\ created' = created
    BY <2>1 DEF Reschedule
  <2>3. \A t \in Times : created'[t] > 0 => t \notin withdrawn'
    BY <1>1, <1>a, <2>1, <2>2 DEF OnlyPassed
  <2>4. job' # Idle => job'.copy.start \notin withdrawn'
    <3>1. job' # Idle => job # Idle /\ job'.copy = job.copy /\ job.copy.start \in Times
      BY <2>1 DEF Reschedule, Outdated, Jobs, Objects
    <3> QED
      BY <1>1, <1>a, <2>1, <3>1 DEF OnlyPassed
  <2>5. Stored(schedule)'.start \notin withdrawn'
    BY <1>1, <2>1, StoredAfter
  <2>6. ASSUME NEW i \in 1..Len(schedule)', schedule'[i].start < clock'
        PROVE  schedule'[i].start \notin withdrawn'
    <3>1. schedule'[i] \in Objects
      BY DEF TypeOK
    <3>2. CASE \E j \in 1..Len(schedule) : schedule'[i] = schedule[j]
      <4>1. schedule'[i].start \in Times
        BY <3>1 DEF Objects
      <4> QED
        BY <1>1, <1>a, <2>1, <2>2, <2>6, <3>2, <4>1
    <3>3. CASE \E t \in Times : Reschedule(t) /\ schedule'[i].start = t
      BY <1>1, <3>3
    <3>4. ~Reset /\ ~WriteStarted
      <4>1. edits' # edits
        BY <2>1, ScheduleAssumption DEF Reschedule, TypeOK
      <4> QED
        BY <4>1 DEF Reset, WriteStarted
    <3> QED
      BY <3>2, <3>3, <3>4, VersionsAfter
  <2> QED
    BY <2>3, <2>4, <2>5, <2>6
<1>3. CASE Tick
  <2>1. ~Disturb("late")
    BY DEF Disturb, Happened
  <2>2. /\ clock' = clock + 1 /\ InSync(schedule)
        /\ UNCHANGED <<schedule, job, created, withdrawn>>
    BY <1>3, <2>1 DEF Tick, Settled
  <2>3. \A i \in 1..Len(schedule) : schedule[i] = Stored(schedule)
    BY <2>2 DEF InSync, Stored
  <2> QED
    BY <1>a, <2>2, <2>3
<1>4. CASE Reset \/ Decision \/ CreateExecution \/ WriteStarted \/ Sync
           \/ Touch \/ CallFails \/ Crash \/ UNCHANGED vars
  <2>1. clock' = clock /\ withdrawn' = withdrawn
    BY <1>4 DEF Reset, Decision, CreateExecution, WriteStarted, Sync, Touch,
                CallFails, Crash, vars
  <2>2. \A t \in Times : created'[t] > 0 => t \notin withdrawn
    <3>1. CASE CreateExecution
      BY <1>a, <3>1 DEF CreateExecution, TypeOK, Idle
    <3> QED
      BY <1>4, <1>a, <3>1 DEF Reset, Decision, WriteStarted, Sync, Touch,
                              CallFails, Crash, vars
  <2>3. job' # Idle => job'.copy.start \notin withdrawn
    <3>1. CASE Decision
      <4>1. job'.copy.start < clock /\ job'.copy = schedule[1] /\ 1 \in 1..Len(schedule)
        BY <3>1, EndFacts DEF Decision, Passed
      <4> QED
        BY <1>a, <4>1
    <3>2. CASE CreateExecution \/ Touch
      <4>1. job' # Idle => job # Idle /\ job'.copy = job.copy
        BY <3>2 DEF CreateExecution, Touch, Outdated, Jobs, Idle
      <4> QED
        BY <1>a, <4>1
    <3> QED
      BY <1>4, <1>a, <3>1, <3>2 DEF Reset, WriteStarted, Sync, CallFails, Crash, vars
  <2>4. Stored(schedule)'.start \notin withdrawn
    <3>1. CASE WriteStarted /\ job.fresh
      <4>1. Stored(schedule)'.start = job.copy.start /\ job # Idle
        BY <3>1, StoredAfter DEF WriteStarted, Jobs, Objects, Idle
      <4> QED
        BY <1>a, <4>1
    <3>2. CASE WriteStarted /\ ~job.fresh
      BY <1>a, <3>2, StoredAfter
    <3>3. CASE Reset \/ Sync \/ Crash
      BY <1>a, <3>3, StoredAfter
    <3>4. CASE Decision \/ CreateExecution \/ Touch \/ CallFails \/ UNCHANGED vars
      BY <1>a, <3>4 DEF Decision, CreateExecution, Touch, CallFails, vars
    <3> QED
      BY <1>4, <3>1, <3>2, <3>3, <3>4
  <2>5. ASSUME NEW i \in 1..Len(schedule)', schedule'[i].start < clock
        PROVE  schedule'[i].start \notin withdrawn
    <3>1. ~(schedule'[i].start > clock)
      <4>1. schedule'[i] \in Objects
        BY DEF TypeOK
      <4>2. schedule'[i].start \in Int
        BY <1>b, <4>1 DEF Objects
      <4> QED
        BY <1>b, <2>5, <4>2
    <3>2. CASE \E t \in Times : Reschedule(t) /\ schedule'[i].start = t
      BY <1>2, <2>1, <2>5, <3>1, <3>2 DEF Reschedule
    <3>3. CASE WriteStarted /\ schedule'[i].start = job.copy.start
      BY <1>a, <3>3 DEF WriteStarted, Idle
    <3> QED
      BY <1>a, <2>5, <3>1, <3>2, <3>3, VersionsAfter
  <2> QED
    BY <2>1, <2>2, <2>3, <2>4, <2>5
<1> QED
  BY <1>2, <1>3, <1>4 DEF Next, Reconcile

-----------------------------------------------------------------------------
(* The theorems. *)

LEMMA IInvInit == Init => IInv
<1> SUFFICES ASSUME Init PROVE IInv
  OBVIOUS
<1>1. TypeOK
  BY TypeInit
<1>2. Budget \in Nat
  BY <1>1, BudgetFacts
<1>3. job = Idle /\ job.pc = "idle"
  BY DEF Init, Idle
<1>4. OnlyPassed /\ FreshCopy /\ NotWithdrawn
  BY <1>3 DEF Init, OnlyPassed, FreshCopy, NotWithdrawn
<1>5. ASSUME NEW t \in Times PROVE Accounted(t)
  <2>1. created[t] = 0
    BY DEF Init
  <2> QED
    BY <1>2, <1>3, <2>1 DEF Accounted
<1> QED
  BY <1>1, <1>4, <1>5 DEF IInv

LEMMA IInvNext == IInv /\ [Next]_vars => IInv'
<1> SUFFICES ASSUME IInv, [Next]_vars PROVE IInv'
  OBVIOUS
<1>1. TypeOK'
  BY TypeNext DEF IInv
<1>2. OnlyPassed' /\ FreshCopy'
  BY <1>1, PassedNext, FreshNext DEF IInv
<1>3. (\A t \in Times : Accounted(t))'
  BY <1>1, AccountedNext DEF IInv
<1>4. NotWithdrawn'
  BY <1>1, WithdrawnNext DEF IInv
<1> QED
  BY <1>1, <1>2, <1>3, <1>4 DEF IInv

LEMMA Invariance == Spec => []IInv
BY IInvInit, IInvNext, PTL DEF Spec

\* The variables keep their types.
THEOREM TypeCorrect == Spec => []TypeOK
<1>1. IInv => TypeOK
  BY DEF IInv
<1> QED
  BY <1>1, Invariance, PTL

\* No execution is created for a time that has not passed, nor, as long as the
\* operator is not late, for one the object had given up: Decision looks at a
\* version whose time has passed, and that was then the object's own.
THEOREM StartsAreDue == Spec => []NeverEarly
<1>1. IInv => NeverEarly
  BY DEF IInv, OnlyPassed, NotWithdrawn, NeverEarly
<1> QED
  BY <1>1, Invariance, PTL

\* A start time has one execution, and another one for each disturbance at most,
\* however often the object is changed: WriteStarted notes what CreateExecution
\* did, and only a disturbance separates the two.
THEOREM ExecutionsAreAccounted == Spec => []StartedOnce
<1>1. IInv => StartedOnce
  BY DEF IInv, Accounted, Budget, StartedOnce
<1> QED
  BY <1>1, Invariance, PTL
=============================================================================
