---------------------- MODULE GitRepositorySyncProofs ----------------------
(***************************************************************************)
(* Theorems about GitRepositorySync, for every list of commits, objects    *)
(* and services, every lag of the caches and every number of disturbances: *)
(* the types, what the upstream tags point to and when they move, and that *)
(* a recorded commit is an applied one.                                    *)
(***************************************************************************)
EXTENDS GitRepositorySync, TLAPS

-----------------------------------------------------------------------------
(* Version sequences.                                                      *)

\* An object has a cached and a stored version, the same if it is in sync.
LEMMA EndFacts ==
  ASSUME NEW S, NEW s \in Seq(S), s # <<>>
  PROVE  /\ Len(s) \in Nat \ {0}
         /\ Cached(s) = s[1] /\ Cached(s) \in S
         /\ Stored(s) = s[Len(s)] /\ Stored(s) \in S
         /\ InSync(s) => Stored(s) = Cached(s)
BY DEF Cached, Stored, InSync

\* A write makes the new version the stored one; those that were there stay in
\* place or move down by one.
LEMMA PushFacts ==
  ASSUME NEW S, NEW s \in Seq(S), s # <<>>, NEW x \in S, NEW lag \in Nat,
         NEW t, t = Push(s, x, lag)
  PROVE  /\ t \in Seq(S) \ {<<>>}
         /\ Len(t) \in Nat \ {0} /\ t[Len(t)] = x /\ Stored(t) = x
         /\ \E k \in {0, 1} : \A i \in 1..Len(t) :
              i < Len(t) => i + k \in 1..Len(s) /\ t[i] = s[i + k]
         /\ lag = 0 => Len(t) = Len(s)
<1>1. CASE Len(s) <= lag
  <2>1. t = Append(s, x)
    BY <1>1 DEF Push
  <2>2. \A i \in 1..Len(t) : i < Len(t) => i + 0 \in 1..Len(s) /\ t[i] = s[i + 0]
    BY <2>1
  <2>3. t \in Seq(S) \ {<<>>} /\ Len(t) \in Nat \ {0} /\ t[Len(t)] = x
    BY <2>1
  <2>4. lag # 0
    BY <1>1, EndFacts
  <2> QED
    BY <2>2, <2>3, <2>4 DEF Stored
<1>2. CASE ~(Len(s) <= lag)
  <2> DEFINE u == Tail(s)
  <2>1. t = Append(u, x)
    BY <1>2 DEF Push
  <2>2. u \in Seq(S) /\ \A k \in 1..Len(u) : k + 1 \in 1..Len(s) /\ u[k] = s[k + 1]
    OBVIOUS
  <2>6. Len(u) + 1 = Len(s)
    OBVIOUS
  <2> HIDE DEF u
  <2>3. /\ t \in Seq(S) \ {<<>>} /\ Len(t) \in Nat \ {0} /\ t[Len(t)] = x
        /\ Len(t) = Len(u) + 1
    BY <2>1, <2>2
  <2>4. \A i \in 1..Len(u) : t[i] = u[i]
    BY <2>1, <2>2
  <2>5. \A i \in 1..Len(t) : i < Len(t) => i + 1 \in 1..Len(s) /\ t[i] = s[i + 1]
    BY <2>2, <2>3, <2>4
  <2> QED
    BY <2>3, <2>5, <2>6 DEF Stored
<1> QED
  BY <1>1, <1>2

\* The cache takes in a version: the stored one stays, the others move down.
LEMMA TailFacts ==
  ASSUME NEW S, NEW s \in Seq(S), Len(s) > 1
  PROVE  /\ Tail(s) \in Seq(S) \ {<<>>}
         /\ Len(Tail(s)) = Len(s) - 1
         /\ \A i \in 1..Len(Tail(s)) : i + 1 \in 1..Len(s) /\ Tail(s)[i] = s[i + 1]
         /\ Stored(Tail(s)) = Stored(s)
<1>1. Tail(s) \in Seq(S) /\ Len(Tail(s)) = Len(s) - 1 /\ Len(s) \in Nat
  OBVIOUS
<1>2. \A i \in 1..Len(Tail(s)) : i + 1 \in 1..Len(s) /\ Tail(s)[i] = s[i + 1]
  BY <1>1
<1>3. Tail(s) # <<>>
  <2>1. Len(Tail(s)) # 0 /\ Len(<<>>) = 0
    BY <1>1
  <2> QED
    BY <2>1
<1>4. Stored(Tail(s)) = Stored(s)
  <2>1. Len(Tail(s)) \in 1..Len(Tail(s)) /\ Len(Tail(s)) + 1 = Len(s)
    BY <1>1
  <2> QED
    BY <1>2, <2>1 DEF Stored
<1> QED
  BY <1>1, <1>2, <1>3, <1>4

\* After a restart the cache holds the stored version and nothing else.
LEMMA RelistFacts ==
  ASSUME NEW S, NEW s \in Seq(S), s # <<>>
  PROVE  /\ <<Stored(s)>> \in Seq(S) \ {<<>>}
         /\ Stored(<<Stored(s)>>) = Stored(s)
         /\ Len(<<Stored(s)>>) = 1 /\ <<Stored(s)>>[1] = s[Len(s)]
         /\ Len(s) \in 1..Len(s)
BY EndFacts DEF Stored

-----------------------------------------------------------------------------
(* Types.                                                                  *)

Values == Specs \cup {Absent, Bare}

\* Commits say of each object a spec or nothing, of each service a tag or nothing.
LEMMA CommitFacts ==
  /\ Len(Commits) \in Nat /\ 1 \in Numbers
  /\ \A c \in Numbers, o \in Objects : Commits[c].spec[o] \in Specs \cup {NoSpec}
  /\ \A c \in Numbers : \A s \in Artifacts(c) :
       /\ s \in Services /\ TagOf(c, s) \in Tags
       /\ Commits[c].artifact[s].overwrite \in BOOLEAN
<1> DEFINE Content == [spec : [Objects -> Specs \cup {NoSpec}],
                       artifact : [Services -> [tag : Tags, overwrite : BOOLEAN]
                                                 \cup {NoArtifact}]]
<1>1. Commits \in Seq(Content) /\ Commits # <<>>
  BY SyncAssumption
<1> HIDE DEF Content
<1>2. Len(Commits) \in Nat \ {0} /\ \A c \in Numbers : Commits[c] \in Content
  BY <1>1 DEF Numbers
<1>3. 1 \in Numbers
  BY <1>2 DEF Numbers
<1>4. \A c \in Numbers, o \in Objects : Commits[c].spec[o] \in Specs \cup {NoSpec}
  BY <1>2 DEF Content
<1>5. ASSUME NEW c \in Numbers, NEW s \in Artifacts(c)
      PROVE  /\ s \in Services /\ TagOf(c, s) \in Tags
             /\ Commits[c].artifact[s].overwrite \in BOOLEAN
  <2>1. s \in Services /\ Commits[c].artifact[s] # NoArtifact
    BY <1>5 DEF Artifacts
  <2>2. Commits[c].artifact[s] \in [tag : Tags, overwrite : BOOLEAN]
    BY <1>2, <2>1 DEF Content
  <2> QED
    BY <2>1, <2>2 DEF TagOf
<1> QED
  BY <1>2, <1>3, <1>4, <1>5

\* What every reconciliation and every object has.
LEMMA StateFacts ==
  ASSUME TypeOK
  PROVE  /\ \A o \in Objects : /\ objects[o] \in Seq(Values) /\ objects[o] # <<>>
                               /\ Cached(objects[o]) \in Values
                               /\ Stored(objects[o]) \in Values
         /\ recorded \in Seq({0} \cup Numbers) /\ recorded # <<>>
         /\ Busy => job \in Jobs
         /\ ~Busy => job.pc = "idle"
         /\ Len(main) \in Nat \ {0}
<1>1. \A o \in Objects : objects[o] \in Seq(Values) /\ objects[o] # <<>>
  BY DEF TypeOK, Values
<1>2. \A o \in Objects : Cached(objects[o]) \in Values /\ Stored(objects[o]) \in Values
  BY <1>1, EndFacts
<1>3. (Busy => job \in Jobs) /\ (~Busy => job.pc = "idle")
  BY DEF TypeOK, Busy, Idle
<1>4. Len(main) \in Nat \ {0}
  BY DEF TypeOK
<1> QED
  BY <1>1, <1>2, <1>3, <1>4 DEF TypeOK

\* A delivery has a place in the order that it returns from.
Delivering == job.pc \in Phases \ {"apply"}
HasPlace   == Delivering => job.step \in 1..Len(Order) /\ Order[job.step] = Delivery

\* A reconciliation that goes on keeps the type of the job.
LEMMA AdvanceFacts ==
  ASSUME TypeOK, job \in Jobs, job.step \in 1..Len(Order), Advance
  PROVE  /\ job' \in Jobs
         /\ job'.pc = "apply" /\ job'.commit = job.commit /\ job'.step = job.step + 1
         /\ job'.branch = job.branch /\ job'.base = job.base /\ job'.refs = job.refs
<1>1. Len(Order) \in Nat
  BY SyncAssumption
<1>2. job' = [job EXCEPT !.pc = "apply", !.step = @ + 1]
  BY DEF Advance
<1>3. job.step + 1 \in 1..Len(Order) + 1
  BY <1>1
<1>4. job' \in Jobs
  BY <1>2, <1>3 DEF Jobs, Phases
<1> QED
  BY <1>2, <1>4 DEF Jobs

LEMMA BusyFacts ==
  ASSUME TypeOK, job.pc \in Phases
  PROVE  job \in Jobs /\ Busy
BY DEF TypeOK, Phases, Idle, Busy

\* A commit of the operator says for each service where its files are from.
LEMMA ComposedFacts ==
  ASSUME TypeOK, job \in Jobs, job.branch # <<>>, NEW s \in Services
  PROVE  /\ [ours |-> TRUE, content |-> Composed(s)] \in UpstreamCommits
         /\ Composed(s)[s] = job.commit /\ job.commit \in Numbers
<1>1. /\ job.branch \in Seq(UpstreamCommits) /\ job.commit \in Numbers
  BY DEF Jobs
<1>2. Ours \in UpstreamCommits
  BY <1>1 DEF Ours
<1> QED
  BY <1>1, <1>2 DEF Composed, UpstreamCommits

\* Where the clone ends that is pushed: it continues the branch as it was, and
\* while tags are pushed it is part of the branch.
CloneIsPrefix ==
  Busy => /\ job.base \in 1..Len(main) /\ job.base <= Len(job.branch)
          /\ \A i \in 1..job.base : main[i] = job.branch[i]
          /\ job.pc = "tags" => job.base = Len(job.branch)

Placed == TypeOK /\ HasPlace /\ CloneIsPrefix

\* The actions of a step, by name.
JobEnds == \/ \E o \in Objects : Create(o) \/ UpdateRefused(o) \/ PanicOnBare(o)
           \/ Record \/ CallFails \/ Crash
JobGoesOn == \/ \E o \in Objects : Unchanged(o) \/ Update(o)
             \/ PushRefused \/ FinishDelivery \/ DeliveryFails
JobDelivers == \/ \E s \in Services : SkipService(s) \/ ComposeService(s)
               \/ StartDelivery \/ DeleteTag \/ PushBranch \/ PushTags
JobRests == \/ Commit \/ ForeignPush \/ SyncRecorded
            \/ \E o \in Objects : SyncObject(o)

LEMMA StepSplit ==
  ASSUME [Next]_vars
  PROVE  \/ Begin \/ JobEnds \/ JobGoesOn \/ JobDelivers \/ JobRests \/ UNCHANGED vars
BY DEF Next, Reconcile, JobEnds, JobGoesOn, JobDelivers, JobRests

\* What may happen to the versions of objects in a step.
ObjectsStay == objects' = objects
Relisted    == job' = Idle /\ objects' = [o \in Objects |-> <<Stored(objects[o])>>]
TakenIn(o)  == /\ Len(objects[o]) > 1
               /\ objects' = [objects EXCEPT ![o] = Tail(@)]
               /\ UNCHANGED <<head, job>>
Written(o)  == /\ At(o)
               /\ Wanted(o) # NoSpec
               /\ objects' = [objects EXCEPT ![o] = Push(@, Wanted(o), ObjectLag)]
               /\ job' = Idle \/ Advance
               /\ head' = head

LEMMA ObjectSteps ==
  ASSUME [Next]_vars
  PROVE  \/ ObjectsStay \/ Relisted
         \/ \E o \in Objects : TakenIn(o) \/ Written(o)
<1>1. CASE Begin \/ JobDelivers \/ UNCHANGED vars
  BY <1>1 DEF Begin, JobDelivers, SkipService, ComposeService, StartDelivery, DeleteTag,
       PushBranch, PushTags, cluster, vars, ObjectsStay
<1>2. CASE JobEnds
  <2>1. CASE \E o \in Objects : Create(o)
    BY <2>1 DEF Create, Requeue, ObjectsStay, Written
  <2>2. CASE Crash \/ \E o \in Objects : PanicOnBare(o)
    BY <2>2 DEF Crash, PanicOnBare, Restart, Relisted
  <2>3. CASE Record \/ CallFails \/ \E o \in Objects : UpdateRefused(o)
    BY <2>3 DEF Record, CallFails, UpdateRefused, cluster, ObjectsStay
  <2> QED
    BY <1>2, <2>1, <2>2, <2>3 DEF JobEnds
<1>3. CASE JobGoesOn
  <2>1. CASE \E o \in Objects : Update(o)
    BY <2>1 DEF Update, Outdated, Written
  <2>2. CASE PushRefused \/ FinishDelivery \/ DeliveryFails \/ \E o \in Objects : Unchanged(o)
    BY <2>2 DEF PushRefused, FinishDelivery, DeliveryFails, Unchanged, cluster, ObjectsStay
  <2> QED
    BY <1>3, <2>1, <2>2 DEF JobGoesOn
<1>4. CASE JobRests
  BY <1>4 DEF JobRests, Commit, ForeignPush, SyncRecorded, SyncObject, cluster,
       ObjectsStay, TakenIn
<1> QED
  BY <1>1, <1>2, <1>3, <1>4, StepSplit

LEMMA ObjectsTyped ==
  ASSUME TypeOK, [Next]_vars
  PROVE  objects' \in [Objects -> Seq(Values) \ {<<>>}]
<1> USE StateFacts
<1>0. objects \in [Objects -> Seq(Values) \ {<<>>}]
  BY DEF TypeOK, Values
<1>1. CASE ObjectsStay
  BY <1>0, <1>1 DEF ObjectsStay
<1>2. CASE Relisted
  BY <1>2, RelistFacts DEF Relisted
<1>3. ASSUME NEW o \in Objects, TakenIn(o)
      PROVE  objects' \in [Objects -> Seq(Values) \ {<<>>}]
  <2>1. Tail(objects[o]) \in Seq(Values) \ {<<>>}
    BY <1>3, TailFacts DEF TakenIn
  <2> QED
    BY <1>0, <1>3, <2>1 DEF TakenIn
<1>4. ASSUME NEW o \in Objects, Written(o)
      PROVE  objects' \in [Objects -> Seq(Values) \ {<<>>}]
  <2>1. Wanted(o) \in Values
    <3>1. job \in Jobs
      BY <1>4, BusyFacts DEF Written, At, Applying, Phases
    <3> QED
      BY <1>4, <3>1, CommitFacts DEF Written, Wanted, Jobs, Values
  <2>2. Push(objects[o], Wanted(o), ObjectLag) \in Seq(Values) \ {<<>>}
    BY <2>1, PushFacts, SyncAssumption
  <2> QED
    BY <1>0, <1>4, <2>2 DEF Written
<1> QED
  BY <1>1, <1>2, <1>3, <1>4, ObjectSteps

\* What may happen to the versions of the status in a step.
LEMMA RecordedSteps ==
  ASSUME [Next]_vars
  PROVE  Record \/ SyncRecorded \/ Restart \/ recorded' = recorded
BY StepSplit
   DEF Begin, JobEnds, JobGoesOn, JobDelivers, JobRests, Create, UpdateRefused,
       PanicOnBare, CallFails, Crash, Unchanged, Update, PushRefused, FinishDelivery,
       DeliveryFails, SkipService, ComposeService, StartDelivery, DeleteTag, PushBranch,
       PushTags, Commit, ForeignPush, SyncObject, cluster, vars

LEMMA RecordedTyped ==
  ASSUME TypeOK, [Next]_vars
  PROVE  recorded' \in Seq({0} \cup Numbers) \ {<<>>}
<1> USE StateFacts
<1>1. CASE Record
  <2>1. job.commit \in Numbers
    BY <1>1, BusyFacts DEF Record, Phases, Jobs
  <2>2. Push(recorded, job.commit, StatusLag) \in Seq({0} \cup Numbers) \ {<<>>}
    <3> DEFINE S == {0} \cup Numbers
    <3>1. /\ job.commit \in S /\ StatusLag \in Nat
          /\ recorded \in Seq(S) /\ recorded # <<>>
      BY <2>1, SyncAssumption
    <3> HIDE DEF S
    <3>2. Push(recorded, job.commit, StatusLag) \in Seq(S) \ {<<>>}
      BY <3>1, PushFacts
    <3> QED
      BY <3>2 DEF S
  <2> QED
    BY <1>1, <2>2 DEF Record
<1>2. CASE SyncRecorded
  BY <1>2, TailFacts DEF SyncRecorded
<1>3. CASE Restart
  BY <1>3, RelistFacts DEF Restart
<1> QED
  BY <1>1, <1>2, <1>3, RecordedSteps

\* What may happen to the upstream repository in a step.
UpstreamSteps ==
  \/ UNCHANGED upstream
  \/ DeleteTag \/ PushTags \/ PushBranch
  \/ ForeignPush

LEMMA UpstreamSplit ==
  ASSUME [Next]_vars
  PROVE  UpstreamSteps
BY StepSplit
   DEF UpstreamSteps, Begin, JobEnds, JobGoesOn, JobDelivers, JobRests, Create,
       UpdateRefused, PanicOnBare, Record, CallFails, Crash, Unchanged, Update,
       PushRefused, FinishDelivery, DeliveryFails, SkipService, ComposeService,
       StartDelivery, Commit, SyncRecorded, SyncObject, cluster, upstream, vars

\* The service that a delivery is about, and the commit it makes for it.
LEMMA ServiceFacts ==
  ASSUME Placed, Busy
  PROVE  /\ job \in Jobs /\ job.commit \in Numbers
         /\ job.branch \in Seq(UpstreamCommits) /\ job.branch # <<>>
         /\ \A s \in Services :
              /\ [ours |-> TRUE, content |-> Composed(s)] \in UpstreamCommits
              /\ Composed(s)[s] = job.commit
<1>1. job \in Jobs
  BY StateFacts DEF Placed
<1>2. job.commit \in Numbers /\ job.branch \in Seq(UpstreamCommits)
  BY <1>1 DEF Jobs
<1>3. job.branch # <<>>
  <2>1. job.base \in Nat \ {0} /\ job.base <= Len(job.branch) /\ Len(job.branch) \in Nat
    BY <1>2 DEF Placed, CloneIsPrefix
  <2>2. Len(job.branch) # 0 /\ Len(<<>>) = 0
    BY <2>1
  <2> QED
    BY <2>2
<1> QED
  BY <1>1, <1>2, <1>3, ComposedFacts DEF Placed

LEMMA UpstreamTyped ==
  ASSUME Placed, [Next]_vars
  PROVE  /\ main' \in Seq(UpstreamCommits) \ {<<>>}
         /\ tags' \in [Tags -> UpstreamCommits \cup {NoTag}]
<1> USE DEF Placed
<1>0. /\ main \in Seq(UpstreamCommits) \ {<<>>}
      /\ tags \in [Tags -> UpstreamCommits \cup {NoTag}]
  BY DEF TypeOK
<1>1. CASE UNCHANGED upstream
  BY <1>0, <1>1 DEF upstream
<1>2. CASE DeleteTag
  BY <1>0, <1>2 DEF DeleteTag
<1>3. CASE PushTags
  <2>1. job.refs \in [Tags -> UpstreamCommits \cup {NoTag}]
    BY <1>3, BusyFacts DEF PushTags, Phases, Jobs
  <2> QED
    BY <1>0, <1>3, <2>1 DEF PushTags
<1>4. CASE PushBranch
  <2>1. job.branch \in Seq(UpstreamCommits) \ {<<>>}
    BY <1>4, BusyFacts, ServiceFacts DEF PushBranch, Phases
  <2> QED
    BY <1>0, <1>4, <2>1 DEF PushBranch
<1>5. CASE ForeignPush
  <2> DEFINE commit == [ours |-> FALSE, content |-> main[Len(main)].content]
  <2>1. main[Len(main)] \in UpstreamCommits
    BY <1>0
  <2>2. commit \in UpstreamCommits
    BY <2>1 DEF UpstreamCommits
  <2>3. main' = Append(main, commit) /\ tags' = tags
    BY <1>5 DEF ForeignPush
  <2> HIDE DEF commit
  <2> QED
    BY <1>0, <2>2, <2>3
<1> QED
  BY <1>1, <1>2, <1>3, <1>4, <1>5, UpstreamSplit DEF UpstreamSteps

\* A reconciliation starts from the newest commit, with a clone of the branch.
LEMMA BeginFacts ==
  ASSUME TypeOK, Begin
  PROVE  /\ job' \in Jobs /\ Busy'
         /\ job'.pc = "apply" /\ job'.commit = head /\ job'.step = 1
         /\ job'.branch = main /\ job'.base = Len(main) /\ job'.refs = tags
         /\ UNCHANGED <<head, objects, main, tags>> /\ ~Busy
<1>1. (CHOOSE s \in Services : TRUE) \in Services
  BY SyncAssumption
<1>2. 1 \in 1..Len(Order) + 1
  BY SyncAssumption
<1>3. InSync(recorded) \in BOOLEAN
  BY DEF InSync
<1>4. /\ head \in Numbers /\ main \in Seq(UpstreamCommits) /\ Len(main) \in Nat
      /\ tags \in [Tags -> UpstreamCommits \cup {NoTag}]
  BY DEF TypeOK
<1>5. job' = [pc |-> "apply", commit |-> head, step |-> 1, todo |-> {},
              service |-> CHOOSE s \in Services : TRUE, sticky |-> FALSE,
              branch |-> main, base |-> Len(main), refs |-> tags,
              fresh |-> InSync(recorded)]
  BY DEF Begin
<1> DEFINE one == CHOOSE s \in Services : TRUE
<1> HIDE DEF one
<1>6. one \in Services /\ job'.service = one
  BY <1>1, <1>5 DEF one
<1>7. job' \in Jobs
  BY <1>1, <1>2, <1>3, <1>4, <1>5 DEF Jobs, Phases
<1>8. Busy'
  BY <1>7 DEF Jobs, Phases, Busy, Idle
<1> QED
  BY <1>5, <1>7, <1>8 DEF Begin, cluster, upstream

\* The clone of a delivery is that of the moment it starts.
LEMMA StartFacts ==
  ASSUME Placed, StartDelivery
  PROVE  /\ job \in Jobs /\ job' \in Jobs /\ job'.pc = "compose"
         /\ Order[job.step] = Delivery
         /\ job'.commit = job.commit /\ job'.step = job.step
         /\ job.step \in 1..Len(Order)
         /\ job'.branch = main /\ job'.base = Len(main) /\ job'.refs = tags
         /\ job'.todo = Artifacts(job.commit)
         /\ UNCHANGED <<head, objects, main, tags>>
<1>1. job \in Jobs /\ job.step \in 1..Len(Order)
  <2>1. job \in Jobs /\ job.step <= Len(Order)
    BY BusyFacts DEF Placed, StartDelivery, At, Applying, Phases
  <2> QED
    BY <2>1, SyncAssumption DEF Jobs
<1>2. job.commit \in Numbers
  BY <1>1 DEF Jobs
<1>3. Artifacts(job.commit) \subseteq Services
  BY DEF Artifacts
<1>4. /\ main \in Seq(UpstreamCommits) /\ Len(main) \in Nat
      /\ tags \in [Tags -> UpstreamCommits \cup {NoTag}]
  BY DEF Placed, TypeOK
<1>5. job' = [job EXCEPT !.branch = main, !.base = Len(main), !.refs = tags,
                         !.pc = "compose", !.sticky = FALSE,
                         !.todo = Artifacts(job.commit)]
  BY <1>1 DEF StartDelivery, Checkout, Jobs
<1>6. job' \in Jobs
  BY <1>1, <1>3, <1>4, <1>5 DEF Jobs, Phases
<1> QED
  BY <1>1, <1>5, <1>6 DEF StartDelivery, At, Jobs, cluster, upstream

\* A reconciliation that goes on leaves the delivery, if it was in one.
LEMMA GoesOnFacts ==
  ASSUME Placed, JobGoesOn
  PROVE  /\ job \in Jobs /\ job.step \in 1..Len(Order) /\ Advance
         /\ UNCHANGED <<head, main, tags>>
<1>1. CASE \E o \in Objects : Unchanged(o) \/ Update(o)
  <2>1. job \in Jobs /\ job.step <= Len(Order)
    BY <1>1, BusyFacts
       DEF Placed, Unchanged, Update, Outdated, At, Applying, Phases
  <2>2. job.step \in 1..Len(Order)
    BY <2>1, SyncAssumption DEF Jobs
  <2> QED
    BY <1>1, <2>1, <2>2 DEF Unchanged, Update, upstream
<1>2. CASE PushRefused \/ FinishDelivery
  BY <1>2, BusyFacts
     DEF Placed, HasPlace, Delivering, PushRefused, FinishDelivery, Phases, upstream
<1>3. CASE DeliveryFails
  <2>1. CASE job.pc \in Phases \ {"apply"}
    BY <1>3, <2>1, BusyFacts DEF Placed, HasPlace, Delivering, DeliveryFails, upstream
  <2>2. CASE At(Delivery)
    <3>1. job \in Jobs /\ job.step <= Len(Order)
      BY <2>2, BusyFacts DEF Placed, At, Applying, Phases
    <3>2. job.step \in 1..Len(Order)
      BY <3>1, SyncAssumption DEF Jobs
    <3> QED
      BY <1>3, <3>1, <3>2 DEF DeliveryFails, upstream
  <2> QED
    BY <1>3, <2>1, <2>2 DEF DeliveryFails
<1> QED
  BY <1>1, <1>2, <1>3 DEF JobGoesOn

\* Delivering a service adds one commit to the clone, with its tag.
LEMMA ComposeFacts ==
  ASSUME Placed, NEW s \in Services, ComposeService(s)
  PROVE  /\ job \in Jobs /\ job.step \in 1..Len(Order)
         /\ job.pc = "compose" /\ s \in job.todo /\ ~Spared(s)
         /\ UNCHANGED <<head, objects, main, tags>>
         /\ \/ Advance
            \/ \E commit \in UpstreamCommits :
                 /\ commit.content[s] = job.commit
                 /\ job' = [job EXCEPT
                      !.pc = IF job.refs[TagOf(job.commit, s)] # NoTag
                               THEN "delete" ELSE "branch",
                      !.todo = @ \ {s}, !.service = s, !.sticky = job'.sticky,
                      !.branch = Append(job.branch, commit),
                      !.refs = [job.refs EXCEPT ![TagOf(job.commit, s)] = commit]]
                 /\ job'.sticky \in BOOLEAN
<1> DEFINE exists == job.refs[TagOf(job.commit, s)] # NoTag
           sticky == exists \/ job.sticky
           commit == [ours |-> TRUE, content |-> Composed(s)]
<1>1. job.pc = "compose" /\ s \in job.todo /\ ~Spared(s)
  BY DEF ComposeService
<1>2. job \in Jobs /\ job.step \in 1..Len(Order) /\ Busy
  BY <1>1, BusyFacts DEF Placed, HasPlace, Delivering, Phases
<1>3. UNCHANGED <<head, objects, main, tags>>
  BY DEF ComposeService, cluster, upstream
<1>4. CASE sticky /\ ~exists
  BY <1>1, <1>2, <1>3, <1>4 DEF ComposeService
<1>5. CASE ~(sticky /\ ~exists)
  <2>1. job' = [job EXCEPT !.pc = IF exists THEN "delete" ELSE "branch",
                           !.todo = @ \ {s}, !.service = s, !.sticky = sticky,
                           !.branch = Append(@, commit),
                           !.refs[TagOf(job.commit, s)] = commit]
    BY <1>5 DEF ComposeService
  <2>2. commit \in UpstreamCommits /\ commit.content[s] = job.commit
    BY <1>2, ServiceFacts
  <2>3. sticky \in BOOLEAN
    BY <1>2 DEF Jobs
  <2> HIDE DEF commit, sticky
  <2>4. job'.sticky = sticky
    BY <1>2, <2>1 DEF Jobs
  <2> QED
    BY <1>1, <1>2, <1>3, <2>1, <2>2, <2>3, <2>4
<1> QED
  BY <1>4, <1>5

\* The steps of a delivery stay in it, at its place.
LEMMA DeliveryFacts ==
  ASSUME Placed, JobDelivers
  PROVE  /\ job \in Jobs /\ job' \in Jobs /\ head' = head
         /\ job'.commit = job.commit
         /\ job.step \in 1..Len(Order) /\ Order[job.step] = Delivery
         /\ job'.step = job.step \/ Advance
<1>0. Order[job.step] = Delivery
  BY DEF JobDelivers, SkipService, ComposeService, StartDelivery, DeleteTag, PushBranch,
       PushTags, Placed, HasPlace, Delivering, Phases, At
<1>1. CASE StartDelivery
  BY <1>1, StartFacts
<1>2. ASSUME NEW s \in Services, SkipService(s)
      PROVE  /\ job \in Jobs /\ job' \in Jobs /\ head' = head
             /\ job'.commit = job.commit /\ job.step \in 1..Len(Order)
             /\ job'.step = job.step
  <2>1. job \in Jobs /\ job.step \in 1..Len(Order)
    BY <1>2, BusyFacts DEF Placed, HasPlace, Delivering, SkipService, Phases
  <2> QED
    BY <1>2, <2>1 DEF SkipService, Jobs
<1>3. ASSUME NEW s \in Services, ComposeService(s)
      PROVE  /\ job \in Jobs /\ job' \in Jobs /\ head' = head
             /\ job'.commit = job.commit /\ job.step \in 1..Len(Order)
             /\ job'.step = job.step \/ Advance
  <2>1. CASE Advance
    BY <1>3, <2>1, ComposeFacts, AdvanceFacts DEF Placed
  <2>2. ASSUME NEW commit \in UpstreamCommits, job'.sticky \in BOOLEAN,
               job' = [job EXCEPT
                         !.pc = IF job.refs[TagOf(job.commit, s)] # NoTag
                                  THEN "delete" ELSE "branch",
                         !.todo = @ \ {s}, !.service = s, !.sticky = job'.sticky,
                         !.branch = Append(job.branch, commit),
                         !.refs = [job.refs EXCEPT ![TagOf(job.commit, s)] = commit]]
        PROVE  job' \in Jobs /\ job'.commit = job.commit /\ job'.step = job.step
    <3> DEFINE refs == [job.refs EXCEPT ![TagOf(job.commit, s)] = commit]
               branch == Append(job.branch, commit)
               pc == IF job.refs[TagOf(job.commit, s)] # NoTag THEN "delete" ELSE "branch"
               sticky == job'.sticky
    <3>1. job \in Jobs
      BY <1>3, ComposeFacts
    <3>2. refs \in [Tags -> UpstreamCommits \cup {NoTag}]
      BY <3>1 DEF Jobs
    <3>3. branch \in Seq(UpstreamCommits)
      BY <3>1 DEF Jobs
    <3>4. pc \in Phases /\ sticky \in BOOLEAN
      BY <2>2 DEF Phases
    <3>5. job' = [job EXCEPT !.pc = pc, !.todo = @ \ {s}, !.service = s, !.sticky = sticky,
                             !.branch = branch, !.refs = refs]
      BY <2>2
    <3> HIDE DEF refs, branch, pc, sticky
    <3> QED
      BY <3>1, <3>2, <3>3, <3>4, <3>5 DEF Jobs
  <2> QED
    BY <1>3, <2>1, <2>2, ComposeFacts
<1>4. CASE DeleteTag \/ PushBranch \/ PushTags
  <2>1. job \in Jobs /\ job.step \in 1..Len(Order) /\ Busy
    BY <1>4, BusyFacts
       DEF Placed, HasPlace, Delivering, DeleteTag, PushBranch, PushTags, Phases
  <2>2. Len(job.branch) \in Nat
    BY <2>1 DEF Jobs
  <2> QED
    BY <1>0, <1>4, <2>1, <2>2 DEF DeleteTag, PushBranch, PushTags, Jobs, Phases
<1> QED
  BY <1>0, <1>1, <1>2, <1>3, <1>4 DEF JobDelivers

LEMMA JobTyped ==
  ASSUME Placed, [Next]_vars
  PROVE  job' \in Jobs \cup {Idle} /\ HasPlace'
<1>1. CASE Begin
  BY <1>1, BeginFacts DEF Placed, HasPlace, Delivering
<1>2. CASE JobEnds
  <2>1. job' = Idle
    BY <1>2 DEF JobEnds, Create, UpdateRefused, PanicOnBare, Record, CallFails, Crash,
         Restart, Requeue
  <2> QED
    BY <2>1 DEF HasPlace, Delivering, Idle, Phases
<1>3. CASE JobGoesOn
  BY <1>3, GoesOnFacts, AdvanceFacts DEF Placed, HasPlace, Delivering
<1>4. CASE JobDelivers
  <2>1. /\ job \in Jobs /\ job' \in Jobs
        /\ job.step \in 1..Len(Order) /\ Order[job.step] = Delivery
        /\ job'.step = job.step \/ Advance
    BY <1>4, DeliveryFacts
  <2>2. CASE Advance
    BY <2>1, <2>2, AdvanceFacts DEF Placed, HasPlace, Delivering
  <2> QED
    BY <2>1, <2>2 DEF HasPlace
<1>5. CASE JobRests \/ UNCHANGED vars
  <2>1. job' = job
    BY <1>5 DEF JobRests, Commit, ForeignPush, SyncRecorded, SyncObject, vars
  <2> QED
    BY <2>1 DEF Placed, TypeOK, HasPlace, Delivering
<1> QED
  BY <1>1, <1>2, <1>3, <1>4, <1>5, StepSplit

LEMMA HeadSteps ==
  ASSUME [Next]_vars
  PROVE  head' = head \/ (head < Len(Commits) /\ head' = head + 1)
<1>1. CASE Begin \/ JobEnds \/ UNCHANGED vars
  BY <1>1 DEF Begin, JobEnds, Create, UpdateRefused, PanicOnBare, Record, CallFails,
       Crash, vars
<1>2. CASE JobGoesOn \/ JobDelivers
  BY <1>2 DEF JobGoesOn, Unchanged, Update, PushRefused, FinishDelivery, DeliveryFails,
       JobDelivers, SkipService, ComposeService, StartDelivery, DeleteTag, PushBranch,
       PushTags
<1>3. CASE JobRests
  BY <1>3 DEF JobRests, Commit, ForeignPush, SyncRecorded, SyncObject
<1> QED
  BY <1>1, <1>2, <1>3, StepSplit

LEMMA CountersTyped ==
  ASSUME TypeOK, [Next]_vars
  PROVE  head' \in Numbers /\ disturbances' \in 0..MaxDisturbances
<1>1. head' = head \/ (head < Len(Commits) /\ head' = head + 1)
  BY HeadSteps
<1>2. \/ disturbances' = disturbances
      \/ disturbances < MaxDisturbances /\ disturbances' = disturbances + 1
  <2>1. CASE Begin \/ JobEnds \/ UNCHANGED vars
    BY <2>1 DEF Begin, JobEnds, Create, UpdateRefused, PanicOnBare, Record, CallFails,
         Crash, Disturb, vars
  <2>2. CASE JobGoesOn \/ JobDelivers
    BY <2>2 DEF JobGoesOn, Unchanged, Update, PushRefused, FinishDelivery, DeliveryFails,
         JobDelivers, SkipService, ComposeService, StartDelivery, DeleteTag, PushBranch,
         PushTags, Disturb
  <2>3. CASE JobRests
    BY <2>3 DEF JobRests, Commit, ForeignPush, SyncRecorded, SyncObject, Disturb
  <2> QED
    BY <2>1, <2>2, <2>3, StepSplit
<1>3. Len(Commits) \in Nat /\ MaxDisturbances \in Nat
  BY CommitFacts, SyncAssumption
<1> QED
  BY <1>1, <1>2, <1>3 DEF TypeOK, Numbers

\* A push replaces the branch by one that continues it.
LEMMA PushContinues ==
  ASSUME Placed, PushBranch
  PROVE  /\ job \in Jobs /\ Len(main') \in Nat /\ Len(main) <= Len(main')
         /\ \A i \in 1..Len(main) : main'[i] = main[i]
         /\ main' = job.branch
<1>1. job \in Jobs /\ Busy
  BY BusyFacts DEF Placed, PushBranch, Phases
<1>2. job.base = Len(main) /\ main' = job.branch
  BY DEF PushBranch, UpToDate
<1>3. Len(job.branch) \in Nat
  BY <1>1 DEF Jobs
<1> QED
  BY <1>1, <1>2, <1>3 DEF Placed, CloneIsPrefix

LEMMA MainContinues ==
  ASSUME Placed, [Next]_vars
  PROVE  /\ Len(main) \in Nat /\ Len(main') \in Nat /\ Len(main) <= Len(main')
         /\ \A i \in 1..Len(main) : main'[i] = main[i]
<1>0. main \in Seq(UpstreamCommits) /\ main' \in Seq(UpstreamCommits)
  BY UpstreamTyped DEF Placed, TypeOK
<1>1. CASE PushBranch
  BY <1>0, <1>1, PushContinues
<1>2. CASE ForeignPush
  <2> DEFINE commit == [ours |-> FALSE, content |-> main[Len(main)].content]
  <2>1. main' = Append(main, commit)
    BY <1>2 DEF ForeignPush
  <2> HIDE DEF commit
  <2> QED
    BY <1>0, <2>1
<1>3. CASE main' = main
  BY <1>0, <1>3
<1> QED
  BY <1>1, <1>2, <1>3, UpstreamSplit DEF UpstreamSteps, upstream, DeleteTag, PushTags

LEMMA CloneNext ==
  ASSUME Placed, [Next]_vars
  PROVE  CloneIsPrefix'
<1> USE MainContinues
<1>1. CASE Begin
  <2>1. Len(main) \in Nat \ {0}
    BY StateFacts DEF Placed
  <2> QED
    BY <1>1, <2>1, BeginFacts DEF Placed, CloneIsPrefix
<1>2. CASE JobEnds
  BY <1>2 DEF JobEnds, Create, UpdateRefused, PanicOnBare, Record, CallFails, Crash,
       Restart, Requeue, CloneIsPrefix, Busy
<1>3. CASE Advance /\ job \in Jobs /\ job.step \in 1..Len(Order)
  <2>1. Busy
    BY <1>3 DEF Jobs, Phases, Idle, Busy
  <2>2. job'.pc = "apply" /\ job'.branch = job.branch /\ job'.base = job.base
    BY <1>3, AdvanceFacts DEF Placed
  <2> QED
    BY <2>1, <2>2 DEF Placed, CloneIsPrefix
<1>4. CASE StartDelivery
  <2>1. Len(main) \in Nat \ {0}
    BY StateFacts DEF Placed
  <2> QED
    BY <1>4, <2>1, StartFacts DEF CloneIsPrefix
<1>5. CASE JobDelivers /\ ~StartDelivery /\ ~Advance
  <2>1. job \in Jobs /\ job' \in Jobs /\ Busy
    BY <1>5, DeliveryFacts DEF Jobs, Phases, Idle, Busy
  <2>2. job.branch \in Seq(UpstreamCommits) /\ Len(job.branch) \in Nat /\ job.base \in Nat
    BY <2>1 DEF Jobs
  <2>3. ASSUME NEW s \in Services, ComposeService(s)
        PROVE  CloneIsPrefix'
    <3>1. PICK commit \in UpstreamCommits :
            /\ job' = [job EXCEPT
                 !.pc = IF job.refs[TagOf(job.commit, s)] # NoTag THEN "delete" ELSE "branch",
                 !.todo = @ \ {s}, !.service = s, !.sticky = job'.sticky,
                 !.branch = Append(job.branch, commit),
                 !.refs = [job.refs EXCEPT ![TagOf(job.commit, s)] = commit]]
      BY <1>5, <2>3, ComposeFacts
    <3>2. /\ job'.pc \in {"delete", "branch"} /\ job'.branch = Append(job.branch, commit)
          /\ job'.base = job.base
      BY <2>1, <3>1 DEF Jobs
    <3>3. /\ Len(job'.branch) = Len(job.branch) + 1
          /\ \A i \in 1..Len(job.branch) : job'.branch[i] = job.branch[i]
      BY <2>2, <3>2
    <3> QED
      BY <2>1, <2>2, <3>2, <3>3 DEF Placed, CloneIsPrefix
  <2>4. CASE PushBranch
    <3>1. /\ job'.branch = job.branch /\ job'.base = Len(job.branch) /\ main' = job.branch
      BY <2>1, <2>4 DEF PushBranch, Jobs
    <3>2. Len(job.branch) \in 1..Len(main')
      BY <2>1, <2>2, <3>1 DEF Placed, CloneIsPrefix
    <3> QED
      BY <2>2, <3>1, <3>2 DEF CloneIsPrefix
  <2>5. CASE DeleteTag \/ PushTags \/ \E s \in Services : SkipService(s)
    <3>1. /\ job'.branch = job.branch /\ job'.base = job.base /\ job'.pc # "tags"
      BY <2>1, <2>5 DEF DeleteTag, PushTags, SkipService, Jobs
    <3> QED
      BY <2>1, <3>1 DEF Placed, CloneIsPrefix
  <2> QED
    BY <1>5, <2>3, <2>4, <2>5 DEF JobDelivers
<1>6. CASE JobRests \/ UNCHANGED vars
  <2>1. job' = job
    BY <1>6 DEF JobRests, Commit, ForeignPush, SyncRecorded, SyncObject, vars
  <2> QED
    BY <2>1 DEF Placed, CloneIsPrefix, Busy
<1> QED
  BY <1>1, <1>2, <1>3, <1>4, <1>5, <1>6, StepSplit, GoesOnFacts, DeliveryFacts

LEMMA PlacedInit == Init => Placed
<1> SUFFICES ASSUME Init PROVE Placed
  OBVIOUS
<1>1. job = Idle /\ ~Busy /\ ~Delivering
  BY DEF Init, Busy, Delivering, Idle, Phases
<1>2. head \in Numbers
  BY CommitFacts DEF Init
<1>3. objects \in [Objects -> Seq(Values) \ {<<>>}]
  <2>1. <<Absent>> \in Seq(Values) \ {<<>>} /\ <<Bare>> \in Seq(Values) \ {<<>>}
    BY DEF Values
  <2>2. objects \in [Objects -> {<<Absent>>, <<Bare>>}]
    BY DEF Init
  <2> QED
    BY <2>1, <2>2
<1>4. recorded \in Seq({0} \cup Numbers) \ {<<>>}
  BY DEF Init
<1>5. main \in Seq(UpstreamCommits) \ {<<>>}
  <2>1. InitialCommit \in UpstreamCommits
    BY DEF InitialCommit, UpstreamCommits
  <2> QED
    BY <2>1 DEF Init
<1>6. tags \in [Tags -> UpstreamCommits \cup {NoTag}] /\ disturbances \in 0..MaxDisturbances
  BY SyncAssumption DEF Init
<1> QED
  BY <1>1, <1>2, <1>3, <1>4, <1>5, <1>6 DEF Placed, TypeOK, HasPlace, CloneIsPrefix, Values

LEMMA PlacedNext == Placed /\ [Next]_vars => Placed'
<1> SUFFICES ASSUME Placed, [Next]_vars PROVE Placed'
  OBVIOUS
<1>1. TypeOK'
  BY ObjectsTyped, RecordedTyped, UpstreamTyped, JobTyped, CountersTyped
     DEF Placed, TypeOK, Values
<1> QED
  BY <1>1, JobTyped, CloneNext DEF Placed

-----------------------------------------------------------------------------
(* Tags.                                                                   *)

Traceable(t, commit, branch) ==
  /\ \E i \in 1..Len(branch) : branch[i] = commit
  /\ \E s \in Services : LET c == commit.content[s] IN
       c # 0 /\ s \in Artifacts(c) /\ TagOf(c, s) = t

Allowed(t) == \E s \in Artifacts(job.commit) :
  TagOf(job.commit, s) = t /\ Commits[job.commit].artifact[s].overwrite

\* The tags of a clone are those of its branch.
RefsAreTraceable ==
  Busy => \A t \in Tags :
    job.refs[t] # NoTag => Traceable(t, job.refs[t], job.branch)

\* While a commit is delivered, the clone has the upstream tags but for those
\* the commit brings or may replace; a tag is deleted only to be replaced.
RefsFollow ==
  Delivering => /\ job.todo \subseteq Artifacts(job.commit)
                /\ job.pc = "delete" => Allowed(Tag)
                /\ \A t \in Tags : tags[t] \in {NoTag, job.refs[t]} \/ Allowed(t)

IInv == Placed /\ TagsAreTraceable /\ RefsAreTraceable /\ RefsFollow

\* A delivery starts from a clone, keeps what it has, or adds a commit.
CloneTaken == /\ job'.refs = tags /\ job'.branch = main
              /\ UNCHANGED <<main, tags>>
CloneKept  == Busy /\ job'.refs = job.refs /\ job'.branch = job.branch
CloneExtended(s, commit) ==
  /\ Busy
  /\ job.pc = "compose" /\ s \in job.todo /\ ~Spared(s)
  /\ commit.content[s] = job.commit
  /\ job' = [job EXCEPT
       !.pc = IF job.refs[TagOf(job.commit, s)] # NoTag THEN "delete" ELSE "branch",
       !.todo = @ \ {s}, !.service = s, !.sticky = job'.sticky,
       !.branch = Append(job.branch, commit),
       !.refs = [job.refs EXCEPT ![TagOf(job.commit, s)] = commit]]
  /\ UNCHANGED <<main, tags>>

LEMMA CloneSteps ==
  ASSUME Placed, [Next]_vars, Busy'
  PROVE  \/ CloneTaken \/ CloneKept
         \/ \E s \in Services, commit \in UpstreamCommits : CloneExtended(s, commit)
<1>1. CASE Begin
  BY <1>1, BeginFacts DEF Placed, CloneTaken
<1>2. CASE JobEnds
  BY <1>2 DEF JobEnds, Create, UpdateRefused, PanicOnBare, Record, CallFails, Crash,
       Restart, Requeue, Busy
<1>3. CASE Advance /\ job \in Jobs /\ job.step \in 1..Len(Order)
  BY <1>3, AdvanceFacts DEF Placed, CloneKept, Jobs, Phases, Idle, Busy
<1>4. CASE StartDelivery
  BY <1>4, StartFacts DEF CloneTaken
<1>5. CASE JobDelivers /\ ~StartDelivery /\ ~Advance
  <2>1. job \in Jobs /\ Busy
    BY <1>5, DeliveryFacts DEF Jobs, Phases, Idle, Busy
  <2>2. ASSUME NEW s \in Services, ComposeService(s)
        PROVE  \E commit \in UpstreamCommits : CloneExtended(s, commit)
    BY <1>5, <2>1, <2>2, ComposeFacts, Zenon DEF CloneExtended
  <2>3. CASE \/ DeleteTag \/ PushBranch \/ PushTags
             \/ \E s \in Services : SkipService(s)
    BY <2>1, <2>3 DEF DeleteTag, PushBranch, PushTags, SkipService, Jobs, CloneKept
  <2> QED
    BY <1>5, <2>2, <2>3 DEF JobDelivers
<1>6. CASE JobRests \/ UNCHANGED vars
  <2>1. job' = job
    BY <1>6 DEF JobRests, Commit, ForeignPush, SyncRecorded, SyncObject, vars
  <2> QED
    BY <2>1 DEF Busy, CloneKept
<1> QED
  BY <1>1, <1>2, <1>3, <1>4, <1>5, <1>6, StepSplit, GoesOnFacts, DeliveryFacts

\* A tag that is pushed belongs to a commit that was pushed before.
LEMMA TagsNext ==
  ASSUME IInv, [Next]_vars
  PROVE  TagsAreTraceable'
<1>1. ASSUME NEW t \in Tags, tags'[t] # NoTag, tags'[t] = tags[t]
      PROVE  Traceable(t, tags'[t], main')
  <2>1. Traceable(t, tags[t], main)
    BY <1>1 DEF IInv, TagsAreTraceable, Traceable
  <2>2. /\ Len(main) \in Nat /\ Len(main') \in Nat /\ Len(main) <= Len(main')
        /\ \A i \in 1..Len(main) : main'[i] = main[i]
    BY MainContinues DEF IInv
  <2>3. \E i \in 1..Len(main') : main'[i] = tags[t]
    BY <2>1, <2>2 DEF Traceable
  <2> QED
    BY <1>1, <2>1, <2>3 DEF Traceable
<1>2. ASSUME NEW t \in Tags, PushTags, tags'[t] = job.refs[t], tags'[t] # NoTag
      PROVE  Traceable(t, tags'[t], main')
  <2>1. job \in Jobs /\ Busy /\ main' = main
    BY <1>2, BusyFacts DEF IInv, Placed, PushTags, Phases
  <2>2. Traceable(t, job.refs[t], job.branch)
    BY <1>2, <2>1 DEF IInv, RefsAreTraceable
  <2>3. /\ Len(job.branch) \in Nat /\ Len(main) \in Nat
        /\ Len(job.branch) <= Len(main)
        /\ \A i \in 1..Len(job.branch) : main[i] = job.branch[i]
    <3>1. Len(job.branch) \in Nat /\ Len(main) \in Nat
      BY <2>1, StateFacts DEF Jobs, IInv, Placed
    <3> QED
      BY <1>2, <2>1, <3>1 DEF IInv, Placed, CloneIsPrefix, PushTags
  <2>4. \E i \in 1..Len(main) : main[i] = job.refs[t]
    BY <2>2, <2>3 DEF Traceable
  <2> QED
    BY <1>2, <2>1, <2>2, <2>4 DEF Traceable
<1>3. ASSUME NEW t \in Tags, tags'[t] # NoTag
      PROVE  tags'[t] = tags[t] \/ (PushTags /\ tags'[t] = job.refs[t])
  <2>1. CASE DeleteTag
    BY <1>3, <2>1 DEF IInv, Placed, TypeOK, DeleteTag
  <2>2. CASE PushTags
    BY <1>3, <2>2 DEF PushTags
  <2>3. CASE tags' = tags
    BY <2>3
  <2> QED
    BY <2>1, <2>2, <2>3, UpstreamSplit
       DEF UpstreamSteps, upstream, PushBranch, ForeignPush
<1> QED
  BY <1>1, <1>2, <1>3 DEF TagsAreTraceable, Traceable

LEMMA RefsNext ==
  ASSUME IInv, [Next]_vars
  PROVE  RefsAreTraceable'
<1> SUFFICES ASSUME Busy', NEW t \in Tags, job'.refs[t] # NoTag
             PROVE  Traceable(t, job'.refs[t], job'.branch)
  BY DEF RefsAreTraceable, Traceable
<1>1. CASE CloneTaken
  BY <1>1 DEF CloneTaken, IInv, TagsAreTraceable, Traceable
<1>2. CASE CloneKept
  BY <1>2 DEF CloneKept, IInv, RefsAreTraceable
<1>3. ASSUME NEW s \in Services, NEW commit \in UpstreamCommits, CloneExtended(s, commit)
      PROVE  Traceable(t, job'.refs[t], job'.branch)
  <2>1. /\ job \in Jobs /\ Busy /\ job.commit \in Numbers
        /\ job.branch \in Seq(UpstreamCommits)
    BY <1>3, ServiceFacts DEF CloneExtended, IInv
  <2>2. /\ job'.branch = Append(job.branch, commit)
        /\ job'.refs = [job.refs EXCEPT ![TagOf(job.commit, s)] = commit]
    BY <1>3, <2>1 DEF CloneExtended, Jobs
  <2>3. /\ Len(job.branch) \in Nat /\ Len(job'.branch) = Len(job.branch) + 1
        /\ job'.branch[Len(job.branch) + 1] = commit
        /\ \A i \in 1..Len(job.branch) : job'.branch[i] = job.branch[i]
    BY <2>1, <2>2
  <2>4. CASE t = TagOf(job.commit, s)
    <3>1. job'.refs[t] = commit
      BY <2>1, <2>2, <2>4 DEF Jobs
    <3>2. \E i \in 1..Len(job'.branch) : job'.branch[i] = commit
      BY <2>3
    <3>3. s \in Artifacts(job.commit)
      BY <1>3, BusyFacts DEF CloneExtended, IInv, RefsFollow, Delivering, Phases
    <3>4. commit.content[s] = job.commit /\ job.commit # 0
      BY <1>3, <2>1 DEF CloneExtended, Numbers
    <3> QED
      BY <2>4, <3>1, <3>2, <3>3, <3>4 DEF Traceable
  <2>5. CASE t # TagOf(job.commit, s)
    <3>1. job'.refs[t] = job.refs[t]
      BY <2>1, <2>2, <2>5 DEF Jobs
    <3>2. Traceable(t, job.refs[t], job.branch)
      BY <2>1, <3>1 DEF IInv, RefsAreTraceable
    <3>3. \E i \in 1..Len(job'.branch) : job'.branch[i] = job.refs[t]
      BY <2>3, <3>2 DEF Traceable
    <3> QED
      BY <3>1, <3>2, <3>3 DEF Traceable
  <2> QED
    BY <2>4, <2>5
<1> QED
  BY <1>1, <1>2, <1>3, CloneSteps DEF IInv

\* What is allowed depends on the commit that is delivered only.
LEMMA AllowedStays ==
  ASSUME job'.commit = job.commit, NEW t \in Tags
  PROVE  Allowed(t)' <=> Allowed(t)
BY DEF Allowed

LEMMA FollowNext ==
  ASSUME IInv, [Next]_vars
  PROVE  RefsFollow'
<1> SUFFICES ASSUME Delivering' PROVE RefsFollow'
  BY DEF RefsFollow
<1>1. CASE StartDelivery
  BY <1>1, StartFacts DEF IInv, RefsFollow
<1>2. CASE Begin \/ JobEnds \/ JobGoesOn \/ (JobDelivers /\ Advance)
  <2>1. job'.pc \notin Phases \ {"apply"}
    <3>1. CASE Begin
      BY <3>1, BeginFacts DEF IInv, Placed
    <3>2. CASE JobEnds
      BY <3>2 DEF JobEnds, Create, UpdateRefused, PanicOnBare, Record, CallFails, Crash,
           Restart, Requeue, Idle, Phases
    <3>3. CASE JobGoesOn
      BY <3>3, GoesOnFacts, AdvanceFacts DEF IInv, Placed
    <3>4. CASE JobDelivers /\ Advance
      BY <3>4, DeliveryFacts, AdvanceFacts DEF IInv, Placed
    <3> QED
      BY <1>2, <3>1, <3>2, <3>3, <3>4
  <2> QED
    BY <2>1 DEF Delivering
<1>3. CASE JobDelivers /\ ~StartDelivery /\ ~Advance
  <2>1. /\ job \in Jobs /\ job'.commit = job.commit /\ job.commit \in Numbers
        /\ job.refs \in [Tags -> UpstreamCommits \cup {NoTag}]
        /\ tags \in [Tags -> UpstreamCommits \cup {NoTag}]
    BY <1>3, DeliveryFacts DEF IInv, Jobs, Placed, TypeOK
  <2>2. /\ Delivering /\ job.todo \subseteq Artifacts(job.commit)
        /\ job.pc = "delete" => Allowed(Tag)
        /\ \A t \in Tags : tags[t] \in {NoTag, job.refs[t]} \/ Allowed(t)
    BY <1>3 DEF JobDelivers, SkipService, ComposeService, DeleteTag, PushBranch, PushTags,
         IInv, RefsFollow, Delivering, Phases
  <2> DEFINE Goal == /\ job'.todo \subseteq Artifacts(job.commit)
                     /\ job'.pc = "delete" => Allowed(TagOf(job.commit, job'.service))
                     /\ \A t \in Tags : tags'[t] \in {NoTag, job'.refs[t]} \/ Allowed(t)
  <2>3. Goal => RefsFollow'
    BY <2>1 DEF RefsFollow, Allowed, Tag
  <2>4. ASSUME NEW s \in Services, SkipService(s) PROVE Goal
    BY <2>1, <2>2, <2>4 DEF SkipService, Jobs, upstream
  <2>5. ASSUME NEW s \in Services, ComposeService(s) PROVE Goal
    <3>1. /\ s \in job.todo /\ ~Spared(s) /\ tags' = tags
          /\ \E commit \in UpstreamCommits :
               job' = [job EXCEPT
                 !.pc = IF job.refs[TagOf(job.commit, s)] # NoTag THEN "delete" ELSE "branch",
                 !.todo = @ \ {s}, !.service = s, !.sticky = job'.sticky,
                 !.branch = Append(job.branch, commit),
                 !.refs = [job.refs EXCEPT ![TagOf(job.commit, s)] = commit]]
      BY <1>3, <2>5, ComposeFacts DEF IInv
    <3> HIDE DEF Goal
    <3>2. s \in Artifacts(job.commit) /\ TagOf(job.commit, s) \in Tags
      BY <2>1, <2>2, <3>1, CommitFacts
    <3>3. /\ job'.todo \subseteq job.todo
          /\ job'.pc = "delete" => job.refs[TagOf(job.commit, s)] # NoTag
          /\ job'.service = s
          /\ \A t \in Tags : t # TagOf(job.commit, s) => job'.refs[t] = job.refs[t]
      <4>1. PICK commit \in UpstreamCommits :
              job' = [job EXCEPT
                !.pc = IF job.refs[TagOf(job.commit, s)] # NoTag THEN "delete" ELSE "branch",
                !.todo = @ \ {s}, !.service = s, !.sticky = job'.sticky,
                !.branch = Append(job.branch, commit),
                !.refs = [job.refs EXCEPT ![TagOf(job.commit, s)] = commit]]
        BY <3>1
      <4>2. /\ job'.todo = job.todo \ {s} /\ job'.service = s
            /\ job'.pc = IF job.refs[TagOf(job.commit, s)] # NoTag
                           THEN "delete" ELSE "branch"
            /\ job'.refs = [job.refs EXCEPT ![TagOf(job.commit, s)] = commit]
        BY <2>1, <4>1 DEF Jobs
      <4> QED
        BY <2>1, <4>2
    <3>4. job.refs[TagOf(job.commit, s)] # NoTag => Allowed(TagOf(job.commit, s))
      BY <3>1, <3>2 DEF Spared, Allowed
    <3>5. ASSUME NEW t \in Tags
          PROVE  tags'[t] \in {NoTag, job'.refs[t]} \/ Allowed(t)
      <4>1. tags'[t] = tags[t] /\ (tags[t] \in {NoTag, job.refs[t]} \/ Allowed(t))
        BY <2>2, <3>1
      <4>2. CASE t = TagOf(job.commit, s)
        BY <3>4, <4>1, <4>2
      <4>3. CASE t # TagOf(job.commit, s)
        BY <3>3, <4>1, <4>3
      <4> QED
        BY <4>2, <4>3
    <3> QED
      BY <2>2, <3>3, <3>4, <3>5 DEF Goal
  <2>6. CASE DeleteTag
    <3>1. /\ job'.todo = job.todo /\ job'.pc = "branch" /\ job'.refs = job.refs
          /\ \A t \in Tags : tags'[t] \in {NoTag, tags[t]}
      BY <2>1, <2>6 DEF DeleteTag, Jobs
    <3> QED
      BY <2>2, <2>3, <3>1
  <2>7. CASE PushBranch
    <3>1. /\ job'.todo = job.todo /\ job'.pc = "tags" /\ job'.refs = job.refs
          /\ tags' = tags
      BY <2>1, <2>7 DEF PushBranch, Jobs
    <3> QED
      BY <2>2, <2>3, <3>1
  <2>8. CASE PushTags
    <3>1. /\ job'.todo = job.todo /\ job'.pc = "compose" /\ job'.refs = job.refs
          /\ \A t \in Tags : tags'[t] \in {job.refs[t], tags[t]}
      BY <2>1, <2>8 DEF PushTags, Jobs
    <3> QED
      BY <2>2, <2>3, <3>1
  <2> QED
    BY <1>3, <2>3, <2>4, <2>5, <2>6, <2>7, <2>8 DEF JobDelivers
<1>4. CASE JobRests \/ UNCHANGED vars
  <2>1. job' = job /\ tags' = tags
    BY <1>4 DEF JobRests, Commit, ForeignPush, SyncRecorded, SyncObject, vars, upstream
  <2> QED
    BY <2>1 DEF IInv, RefsFollow, Delivering, Allowed, Tag
<1> QED
  BY <1>1, <1>2, <1>3, <1>4, StepSplit

LEMMA IInvInit == Init => IInv
<1> SUFFICES ASSUME Init PROVE IInv
  OBVIOUS
<1>1. ~Busy /\ ~Delivering /\ \A t \in Tags : tags[t] = NoTag
  BY DEF Init, Busy, Delivering, Idle, Phases
<1> QED
  BY <1>1, PlacedInit DEF IInv, TagsAreTraceable, RefsAreTraceable, RefsFollow

THEOREM Invariance == Spec => []IInv
<1>1. IInv /\ [Next]_vars => IInv'
  BY PlacedNext, TagsNext, RefsNext, FollowNext DEF IInv
<1> QED
  BY <1>1, IInvInit, PTL DEF Spec

\* The gitops-operator keeps its types.
THEOREM TypeCorrect == Spec => []TypeOK
<1>1. IInv => TypeOK
  BY DEF IInv, Placed
<1> QED
  BY <1>1, Invariance, PTL

\* Every upstream tag is at a commit of the branch that holds the artifact the
\* tag is the version of, whoever pushes to the branch and whatever fails
\* between the push of the branch and that of the tags.
THEOREM TagsAreTraced == Spec => []TagsAreTraceable
<1>1. IInv => TagsAreTraceable
  BY DEF IInv
<1> QED
  BY <1>1, Invariance, PTL

\* A tag that exists moves, or goes, only while a commit is delivered that
\* allows it to be overwritten, however old the clone is by then.
THEOREM TagsMoveIfAllowed == Spec => OverwritesAreAllowed
<1>1. ASSUME IInv, [Next]_vars, NEW t \in Tags, tags[t] # NoTag, tags'[t] # tags[t]
      PROVE  Allowed(t)
  <2>1. CASE DeleteTag
    <3>1. Allowed(Tag)
      BY <1>1, <2>1 DEF IInv, RefsFollow, Delivering, DeleteTag, Phases
    <3>2. t = Tag
      BY <1>1, <2>1 DEF DeleteTag, IInv, Placed, TypeOK
    <3> QED
      BY <3>1, <3>2
  <2>2. CASE PushTags
    <3>1. tags[t] \in {NoTag, job.refs[t]} \/ Allowed(t)
      BY <2>2 , <1>1 DEF IInv, RefsFollow, Delivering, PushTags, Phases
    <3>2. tags'[t] = tags[t] \/ tags'[t] = job.refs[t]
      BY <1>1, <2>2 DEF PushTags
    <3> QED
      BY <1>1, <3>1, <3>2
  <2>3. CASE tags' = tags
    BY <1>1, <2>3
  <2> QED
    BY <1>1, <2>1, <2>2, <2>3, UpstreamSplit
       DEF UpstreamSteps, upstream, PushBranch, ForeignPush
<1>2. IInv /\ [Next]_vars =>
        [\A t \in Tags : tags[t] # NoTag /\ tags'[t] # tags[t] =>
           \E s \in Artifacts(job.commit) : /\ TagOf(job.commit, s) = t
                                            /\ Commits[job.commit].artifact[s].overwrite]_vars
  BY <1>1 DEF Allowed
<1> QED
  BY <1>2, Invariance, PTL DEF Spec, OverwritesAreAllowed

-----------------------------------------------------------------------------
(* Objects.                                                                *)

\* The commit that is applied, or the next one to be.
Newest == IF Busy THEN job.commit ELSE head

LEMMA NewestFacts ==
  ASSUME Placed
  PROVE  Newest \in Numbers /\ Newest \in Nat /\ (Busy => job \in Jobs)
<1>1. Newest \in Numbers /\ (Busy => job \in Jobs)
  BY StateFacts DEF Placed, TypeOK, Newest, Jobs
<1> QED
  BY <1>1, CommitFacts DEF Numbers

\* A reconciliation keeps its commit; the next one starts from a newer one.
LEMMA JobSteps ==
  ASSUME Placed, [Next]_vars, Busy'
  PROVE  \/ ~Busy /\ Begin
         \/ Busy /\ job \in Jobs /\ job'.commit = job.commit /\ job'.step = job.step
         \/ Busy /\ job \in Jobs /\ job'.commit = job.commit /\ job'.step = job.step + 1
              /\ Advance /\ job.step \in 1..Len(Order)
              /\ \/ Order[job.step] = Delivery
                 \/ \E o \in Objects : At(o) /\ (Unchanged(o) \/ Update(o))
<1>1. CASE Begin
  BY <1>1 DEF Begin
<1>2. CASE JobEnds
  BY <1>2 DEF JobEnds, Create, UpdateRefused, PanicOnBare, Record, CallFails, Crash,
       Restart, Requeue, Busy
<1>3. CASE JobGoesOn
  <2>1. /\ Advance /\ job \in Jobs /\ job.step \in 1..Len(Order)
        /\ job'.commit = job.commit /\ job'.step = job.step + 1
    BY <1>3, GoesOnFacts, AdvanceFacts DEF Placed
  <2>2. Busy
    BY <2>1 DEF Jobs, Phases, Idle, Busy
  <2>3. \/ Order[job.step] = Delivery
        \/ \E o \in Objects : At(o) /\ (Unchanged(o) \/ Update(o))
    BY <1>3 DEF JobGoesOn, Unchanged, Update, Outdated, PushRefused, FinishDelivery,
         DeliveryFails, Placed, HasPlace, Delivering, Phases, At
  <2> QED
    BY <2>1, <2>2, <2>3
<1>4. CASE JobDelivers
  <2>1. /\ job \in Jobs /\ job'.commit = job.commit /\ job.step \in 1..Len(Order)
        /\ job'.step = job.step \/ Advance
    BY <1>4, DeliveryFacts
  <2>2. Busy
    BY <2>1 DEF Jobs, Phases, Idle, Busy
  <2>3. Order[job.step] = Delivery
    BY <1>4, DeliveryFacts
  <2> QED
    BY <2>1, <2>2, <2>3, AdvanceFacts DEF Placed
<1>5. CASE JobRests \/ UNCHANGED vars
  <2>1. job' = job
    BY <1>5 DEF JobRests, Commit, ForeignPush, SyncRecorded, SyncObject, vars
  <2> QED
    BY <2>1, StateFacts DEF Busy, Placed
<1> QED
  BY <1>1, <1>2, <1>3, <1>4, <1>5, StepSplit

LEMMA NewestRises ==
  ASSUME Placed, Placed', Newest <= head, [Next]_vars
  PROVE  Newest <= Newest' /\ Newest' <= head'
<1>1. head' \in Nat /\ head \in Nat /\ head <= head'
  <2>1. head' = head \/ (head < Len(Commits) /\ head' = head + 1)
    BY HeadSteps
  <2> QED
    BY <2>1 DEF Placed, TypeOK, Numbers
<1>2. Newest \in Nat
  BY NewestFacts
<1>3. CASE Busy'
  BY <1>1, <1>2, <1>3, JobSteps, BeginFacts DEF Newest, Placed
<1>4. CASE ~Busy'
  BY <1>1, <1>2, <1>4 DEF Newest
<1> QED
  BY <1>3, <1>4

\* Every version is from a commit that is not newer than the newest one.
FromCommits(o) == \A i \in 1..Len(objects[o]) :
  \/ objects[o][i] \in {Absent, Bare}
  \/ \E c \in 1..Newest : Commits[c].spec[o] = objects[o][i]

\* Where a cached version is what the newest commit wants, or one to come,
\* so is every later version: no cache hides an outdated object.
DoesNotHide(o) == \A i, j \in 1..Len(objects[o]) : i <= j =>
  \A c \in Numbers : /\ Newest <= c
                     /\ Commits[c].spec[o] # NoSpec
                     /\ Commits[c].spec[o] = objects[o][i]
                     => objects[o][j] = objects[o][i]

\* Without a lag there is nothing to hide.
LagBounds(o) == ObjectLag = 0 => Len(objects[o]) = 1

VersionsInv(o) == FromCommits(o) /\ DoesNotHide(o) /\ LagBounds(o)

\* The steps done have applied their objects.
DoneIsApplied ==
  Busy => \A i \in 1..Len(Order) : i < job.step /\ Order[i] \in Objects =>
    Commits[job.commit].spec[Order[i]] \in {NoSpec, Stored(objects[Order[i]])}

ObjectsInv == /\ Newest <= head
              /\ \A o \in Objects : VersionsInv(o)
              /\ DoneIsApplied

\* The stored version of s is that of t, which has lost the oldest k of the rest.
Shifted(t, s) ==
  /\ Stored(t) = Stored(s)
  /\ Len(t) \in Nat /\ Len(t) <= Len(s)
  /\ \E k \in Nat : \A i \in 1..Len(t) : i + k \in 1..Len(s) /\ t[i] = s[i + k]

LEMMA ShiftFacts ==
  ASSUME NEW S, NEW s \in Seq(S), s # <<>>, NEW t,
         t = s \/ t = <<Stored(s)>> \/ (Len(s) > 1 /\ t = Tail(s))
  PROVE  Shifted(t, s)
<1>0. Len(s) \in Nat \ {0}
  BY EndFacts
<1>1. CASE t = s
  <2>1. \A i \in 1..Len(t) : i + 0 \in 1..Len(s) /\ t[i] = s[i + 0]
    BY <1>0, <1>1
  <2> QED
    BY <1>0, <1>1, <2>1 DEF Shifted
<1>2. CASE t = <<Stored(s)>>
  <2>1. Len(t) = 1 /\ t[1] = s[Len(s)] /\ Stored(t) = Stored(s)
    BY <1>2, RelistFacts
  <2>2. Len(s) - 1 \in Nat
    BY <1>0
  <2>3. \A i \in 1..Len(t) : i + (Len(s) - 1) \in 1..Len(s) /\ t[i] = s[i + (Len(s) - 1)]
    BY <1>0, <2>1
  <2>4. \E k \in Nat : \A i \in 1..Len(t) : i + k \in 1..Len(s) /\ t[i] = s[i + k]
    BY <2>2, <2>3
  <2> QED
    BY <1>0, <2>1, <2>4 DEF Shifted
<1>3. CASE Len(s) > 1 /\ t = Tail(s)
  <2>1. /\ Len(t) = Len(s) - 1 /\ Stored(t) = Stored(s)
        /\ \A i \in 1..Len(t) : i + 1 \in 1..Len(s) /\ t[i] = s[i + 1]
    BY <1>3, TailFacts
  <2>2. Len(t) \in Nat /\ Len(t) <= Len(s)
    BY <1>0, <2>1
  <2>3. \E k \in Nat : \A i \in 1..Len(t) : i + k \in 1..Len(s) /\ t[i] = s[i + k]
    BY <2>1
  <2> QED
    BY <2>1, <2>2, <2>3 DEF Shifted
<1> QED
  BY <1>1, <1>2, <1>3

\* An object that is not written keeps its stored version and loses others.
LEMMA VersionsShift ==
  ASSUME TypeOK, [Next]_vars, NEW o \in Objects, ~Written(o)
  PROVE  Shifted(objects'[o], objects[o])
<1>0. /\ objects[o] \in Seq(Values) /\ objects[o] # <<>>
      /\ objects \in [Objects -> Seq(Values) \ {<<>>}]
  BY StateFacts DEF TypeOK, Values
<1>1. ASSUME NEW p \in Objects, p # o, TakenIn(p) \/ Written(p)
      PROVE  objects'[o] = objects[o]
  BY <1>0, <1>1 DEF TakenIn, Written
<1>2. \/ objects'[o] = objects[o]
      \/ objects'[o] = <<Stored(objects[o])>>
      \/ Len(objects[o]) > 1 /\ objects'[o] = Tail(objects[o])
  <2>1. Relisted => objects'[o] = <<Stored(objects[o])>>
    BY DEF Relisted
  <2>2. TakenIn(o) => Len(objects[o]) > 1 /\ objects'[o] = Tail(objects[o])
    BY <1>0 DEF TakenIn
  <2> QED
    BY <1>1, <2>1, <2>2, ObjectSteps DEF ObjectsStay
<1> QED
  BY <1>0, <1>2, ShiftFacts

LEMMA UnwrittenNext ==
  ASSUME Placed, Placed', Newest \in Nat, Newest' \in Nat, Newest <= Newest',
         [Next]_vars, NEW o \in Objects, ~Written(o), VersionsInv(o)
  PROVE  VersionsInv(o)'
<1> DEFINE s == objects[o]
           t == objects'[o]
<1>1. /\ Stored(t) = Stored(s) /\ Len(t) \in Nat /\ Len(t) <= Len(s)
      /\ Len(s) \in Nat \ {0} /\ Len(t) \in Nat \ {0}
  <2>1. Shifted(t, s)
    BY VersionsShift DEF Placed
  <2>2. Len(s) \in Nat \ {0}
    BY StateFacts, EndFacts DEF Placed
  <2>3. t # <<>> /\ t \in Seq(Values)
    BY StateFacts, ObjectsTyped DEF Placed
  <2> QED
    BY <2>1, <2>2, <2>3, EndFacts DEF Shifted
<1>2. PICK k \in Nat : \A i \in 1..Len(t) : i + k \in 1..Len(s) /\ t[i] = s[i + k]
  BY VersionsShift DEF Placed, Shifted
<1>3. /\ \A i \in 1..Len(s) : \/ s[i] \in {Absent, Bare}
                              \/ \E c \in 1..Newest : Commits[c].spec[o] = s[i]
      /\ \A i, j \in 1..Len(s) : i <= j => \A c \in Numbers :
           Newest <= c /\ Commits[c].spec[o] # NoSpec /\ Commits[c].spec[o] = s[i]
             => s[j] = s[i]
      /\ ObjectLag = 0 => Len(s) = 1
  BY DEF VersionsInv, FromCommits, DoesNotHide, LagBounds
<1> HIDE DEF s, t
<1>4. \A i \in 1..Len(t) : \/ t[i] \in {Absent, Bare}
                           \/ \E c \in 1..Newest' : Commits[c].spec[o] = t[i]
  <2> SUFFICES ASSUME NEW i \in 1..Len(t), t[i] \notin {Absent, Bare}
               PROVE  \E c \in 1..Newest' : Commits[c].spec[o] = t[i]
    OBVIOUS
  <2>1. i + k \in 1..Len(s) /\ t[i] = s[i + k]
    BY <1>2
  <2>2. PICK c \in 1..Newest : Commits[c].spec[o] = t[i]
    BY <1>3, <2>1
  <2> QED
    BY <2>2
<1>5. ASSUME NEW i \in 1..Len(t), NEW j \in 1..Len(t), i <= j, NEW c \in Numbers,
             Newest' <= c, Commits[c].spec[o] # NoSpec, Commits[c].spec[o] = t[i]
      PROVE  t[j] = t[i]
  <2>1. /\ i + k \in 1..Len(s) /\ t[i] = s[i + k]
        /\ j + k \in 1..Len(s) /\ t[j] = s[j + k] /\ i + k <= j + k
    BY <1>2, <1>5
  <2>2. Newest <= c
    BY <1>5, CommitFacts DEF Numbers
  <2> QED
    BY <1>3, <1>5, <2>1, <2>2
<1>6. ASSUME ObjectLag = 0 PROVE Len(t) = 1
  <2>1. Len(s) = 1
    BY <1>3, <1>6
  <2> QED
    BY <1>1, <2>1
<1>7. FromCommits(o)'
  BY <1>4 DEF t, FromCommits
<1>8. DoesNotHide(o)'
  BY <1>5 DEF t, DoesNotHide
<1>9. LagBounds(o)'
  BY <1>6 DEF t, LagBounds
<1> QED
  BY <1>7, <1>8, <1>9 DEF VersionsInv

LEMMA WrittenNext ==
  ASSUME NoSpecReturns \/ ObjectLag = 0, Placed, Newest \in Nat, Newest' \in Nat,
         Newest <= Newest', [Next]_vars, NEW o \in Objects, Written(o), VersionsInv(o)
  PROVE  VersionsInv(o)' /\ Stored(objects'[o]) = Wanted(o)
<1> DEFINE s == objects[o]
           t == objects'[o]
           w == Wanted(o)
<1>1. /\ job.commit \in Numbers /\ Newest = job.commit
      /\ w = Commits[Newest].spec[o] /\ w # NoSpec /\ w \in Specs
  <2>1. job \in Jobs /\ Busy
    BY BusyFacts DEF Placed, Written, At, Applying, Phases
  <2>2. job.commit \in Numbers /\ Newest = job.commit
    BY <2>1 DEF Jobs, Newest
  <2> QED
    BY <2>2, CommitFacts DEF Written, Wanted
<1>2. /\ s \in Seq(Values) /\ s # <<>> /\ Len(s) \in Nat \ {0}
      /\ \A i \in 1..Len(s) : s[i] \in Values
  BY StateFacts, EndFacts DEF Placed
<1>3. t = Push(s, w, ObjectLag)
  BY DEF Written, Placed, TypeOK
<1>4. /\ Len(t) \in Nat \ {0} /\ t[Len(t)] = w /\ Stored(t) = w
      /\ \E k \in {0, 1} : \A i \in 1..Len(t) :
           i < Len(t) => i + k \in 1..Len(s) /\ t[i] = s[i + k]
      /\ ObjectLag = 0 => Len(t) = Len(s)
  <2>1. w \in Values /\ ObjectLag \in Nat
    BY <1>1, SyncAssumption DEF Values
  <2> HIDE DEF s, t, w
  <2> QED
    BY <1>2, <1>3, <2>1, PushFacts
<1>5. PICK k \in {0, 1} : \A i \in 1..Len(t) :
        i < Len(t) => i + k \in 1..Len(s) /\ t[i] = s[i + k]
  BY <1>4
<1>6. /\ \A i \in 1..Len(s) : \/ s[i] \in {Absent, Bare}
                              \/ \E c \in 1..Newest : Commits[c].spec[o] = s[i]
      /\ \A i, j \in 1..Len(s) : i <= j => \A c \in Numbers :
           Newest <= c /\ Commits[c].spec[o] # NoSpec /\ Commits[c].spec[o] = s[i]
             => s[j] = s[i]
      /\ ObjectLag = 0 => Len(s) = 1
  BY DEF VersionsInv, FromCommits, DoesNotHide, LagBounds
<1>7. FromCommits(o)'
  <2> SUFFICES ASSUME NEW i \in 1..Len(t), t[i] \notin {Absent, Bare}
               PROVE  \E c \in 1..Newest' : Commits[c].spec[o] = t[i]
    BY DEF FromCommits
  <2> HIDE DEF s, t, w
  <2>1. CASE i = Len(t)
    <3>1. Newest \in 1..Newest'
      BY <1>1, CommitFacts DEF Numbers
    <3> QED
      BY <1>1, <1>4, <2>1, <3>1
  <2>2. CASE i < Len(t)
    <3>1. i + k \in 1..Len(s) /\ t[i] = s[i + k]
      BY <1>5, <2>2
    <3>2. PICK c \in 1..Newest : Commits[c].spec[o] = t[i]
      BY <1>6, <3>1
    <3> QED
      BY <3>2
  <2> QED
    BY <1>4, <2>1, <2>2
<1>8. DoesNotHide(o)'
  <2> SUFFICES ASSUME NEW i \in 1..Len(t), NEW j \in 1..Len(t), i <= j,
                      NEW c \in Numbers, Newest' <= c, Commits[c].spec[o] # NoSpec,
                      Commits[c].spec[o] = t[i]
               PROVE  t[j] = t[i]
    BY DEF DoesNotHide
  <2> HIDE DEF s, t, w
  <2>1. Newest <= c /\ c \in Nat /\ Newest \in Numbers
    BY <1>1, CommitFacts DEF Numbers
  <2>2. CASE j < Len(t)
    <3>1. /\ i + k \in 1..Len(s) /\ t[i] = s[i + k]
          /\ j + k \in 1..Len(s) /\ t[j] = s[j + k] /\ i + k <= j + k
      BY <1>4, <1>5, <2>2
    <3> QED
      BY <1>6, <2>1, <3>1
  <2>3. CASE i < Len(t) /\ j = Len(t)
    <3>1. i + k \in 1..Len(s) /\ t[i] = s[i + k]
      BY <1>5, <2>3
    <3>2. NoSpecReturns
      BY <1>4, <1>6, <2>3
    <3>3. t[i] \in Specs
      BY CommitFacts
    <3>4. t[i] \notin {Absent, Bare}
      BY <3>3, SyncAssumption
    <3>5. PICK b \in 1..Newest : Commits[b].spec[o] = t[i]
      BY <1>6, <3>1, <3>4
    <3>6. CASE b = Newest \/ c = Newest
      BY <1>1, <1>4, <2>3, <3>5, <3>6
    <3>7. CASE b < Newest /\ Newest < c
      <4>1. b \in Numbers
        BY <2>1, CommitFacts DEF Numbers
      <4>2. Commits[Newest].spec[o] \in {NoSpec, Commits[b].spec[o]}
        BY <2>1, <3>2, <3>5, <3>7, <4>1 DEF NoSpecReturns
      <4> QED
        BY <1>1, <1>4, <2>3, <3>5, <4>2
    <3> QED
      BY <2>1, <3>6, <3>7
  <2> QED
    BY <1>4, <2>2, <2>3
<1>9. LagBounds(o)'
  BY <1>4, <1>6 DEF LagBounds
<1> QED
  BY <1>4, <1>7, <1>8, <1>9 DEF VersionsInv

\* A step that is done has either written its object or found it as wanted.
LEMMA DoneNext ==
  ASSUME NoSpecReturns \/ ObjectLag = 0, Placed, Placed', ObjectsInv,
         Newest \in Nat, Newest' \in Nat, Newest <= Newest', [Next]_vars
  PROVE  DoneIsApplied'
<1> SUFFICES ASSUME Busy', NEW i \in 1..Len(Order), i < job'.step, Order[i] \in Objects
             PROVE  Commits[job'.commit].spec[Order[i]]
                      \in {NoSpec, Stored(objects'[Order[i]])}
  BY DEF DoneIsApplied
<1> DEFINE o == Order[i]
<1>1. Len(Order) \in Nat
  BY SyncAssumption
<1>2. CASE ~Busy /\ Begin
  BY <1>2 DEF Begin
<1>3. CASE Busy /\ job \in Jobs /\ job'.commit = job.commit /\ job'.step = job.step
  <2>1. job.step \in Nat
    BY <1>1, <1>3 DEF Jobs
  <2>2. ~Written(o)
    BY <1>3, <2>1, AdvanceFacts, BusyFacts DEF Written, At, Applying, Phases, Placed,
       Advance, Busy, Idle, Jobs
  <2>3. Stored(objects'[o]) = Stored(objects[o])
    BY <2>2, VersionsShift DEF Placed, Shifted
  <2> QED
    BY <1>3, <2>3 DEF ObjectsInv, DoneIsApplied
<1>4. CASE /\ Busy /\ job \in Jobs
           /\ job'.commit = job.commit /\ job'.step = job.step + 1
           /\ Advance /\ job.step \in 1..Len(Order)
           /\ \/ Order[job.step] = Delivery
              \/ \E p \in Objects : At(p) /\ (Unchanged(p) \/ Update(p))
  <2>1. CASE Written(o)
    BY <1>4, <2>1, WrittenNext DEF ObjectsInv, Written, Wanted
  <2>2. CASE ~Written(o)
    <3>1. Stored(objects'[o]) = Stored(objects[o])
      BY <2>2, VersionsShift DEF Placed, Shifted
    <3>2. CASE i < job.step
      BY <1>4, <3>1, <3>2 DEF ObjectsInv, DoneIsApplied
    <3>3. CASE i = job.step
      <4>1. PICK p \in Objects : At(p) /\ (Unchanged(p) \/ Update(p))
        BY <1>4, <3>3, SyncAssumption
      <4>2. p = o
        BY <3>3, <4>1 DEF At
      <4>3. Unchanged(o)
        BY <1>4, <2>2, <4>1, <4>2 DEF Update, Outdated, Written
      <4>4. CASE Wanted(o) = NoSpec
        BY <1>4, <4>4 DEF Wanted
      <4>5. CASE Wanted(o) = Cached(objects[o]) /\ Wanted(o) # NoSpec
        <5>1. DoesNotHide(o) /\ Newest = job.commit /\ job.commit \in Numbers
          BY <1>4 DEF ObjectsInv, VersionsInv, Newest, Jobs
        <5>2. /\ Len(objects[o]) \in Nat \ {0} /\ Cached(objects[o]) = objects[o][1]
              /\ Stored(objects[o]) = objects[o][Len(objects[o])]
          BY StateFacts, EndFacts DEF Placed
        <5>3. Stored(objects[o]) = Cached(objects[o])
          <6>1. /\ 1 \in 1..Len(objects[o]) /\ Len(objects[o]) \in 1..Len(objects[o])
                /\ 1 <= Len(objects[o])
            BY <5>2
          <6>2. /\ Newest <= job.commit /\ Commits[job.commit].spec[o] # NoSpec
                /\ Commits[job.commit].spec[o] = objects[o][1]
            BY <4>5, <5>1, <5>2, CommitFacts DEF Wanted, Numbers
          <6> QED
            BY <5>1, <5>2, <6>1, <6>2 DEF DoesNotHide
        <5> QED
          BY <1>4, <3>1, <4>5, <5>3 DEF Wanted
      <4> QED
        BY <4>3, <4>4, <4>5 DEF Unchanged
    <3> QED
      BY <1>1, <1>4, <3>2, <3>3
  <2> QED
    BY <2>1, <2>2
<1> QED
  BY <1>2, <1>3, <1>4, JobSteps

LEMMA ObjectsInit == Init => ObjectsInv
<1> SUFFICES ASSUME Init PROVE ObjectsInv
  OBVIOUS
<1>1. ~Busy /\ Newest = 1 /\ head = 1
  BY DEF Init, Newest, Busy
<1>2. ASSUME NEW o \in Objects
      PROVE  Len(objects[o]) = 1 /\ objects[o][1] \in {Absent, Bare}
  BY DEF Init
<1>3. ASSUME NEW o \in Objects PROVE VersionsInv(o)
  <2>1. Len(objects[o]) = 1 /\ objects[o][1] \in {Absent, Bare}
    BY <1>2
  <2> QED
    BY <2>1 DEF VersionsInv, FromCommits, DoesNotHide, LagBounds
<1> QED
  BY <1>1, <1>3 DEF ObjectsInv, DoneIsApplied

LEMMA ObjectsNext ==
  ASSUME NoSpecReturns \/ ObjectLag = 0, Placed, Placed', ObjectsInv, [Next]_vars
  PROVE  ObjectsInv'
<1>1. Newest \in Nat /\ Newest <= Newest' /\ Newest' <= head'
  BY NewestFacts, NewestRises DEF ObjectsInv
<1>2. Newest' \in Nat
  <2>1. /\ Busy' => job'.commit \in Numbers
        /\ head' \in Numbers
    BY DEF Placed, TypeOK, Jobs, Busy
  <2> QED
    BY <2>1, CommitFacts DEF Newest, Numbers
<1>3. ASSUME NEW o \in Objects PROVE VersionsInv(o)'
  BY <1>1, <1>2, UnwrittenNext, WrittenNext DEF ObjectsInv
<1>4. DoneIsApplied'
  BY <1>1, <1>2, DoneNext
<1> QED
  BY <1>1, <1>3, <1>4 DEF ObjectsInv

\* Objects are as the reconciliations believe them to be.
THEOREM ObjectsInvariance ==
  ASSUME NoSpecReturns \/ ObjectLag = 0
  PROVE  Spec => [](Placed /\ ObjectsInv)
<1>1. Init => Placed /\ ObjectsInv
  BY PlacedInit, ObjectsInit
<1>2. Placed /\ ObjectsInv /\ [Next]_vars => (Placed /\ ObjectsInv)'
  BY PlacedNext, ObjectsNext
<1> QED
  BY <1>1, <1>2, PTL DEF Spec

\* Only the end of a reconciliation records a commit, that of the reconciliation.
LEMMA RecordedCommit ==
  ASSUME Placed, [Next]_vars, Stored(recorded') # Stored(recorded)
  PROVE  /\ Record /\ job \in Jobs /\ Busy
         /\ Stored(recorded') = job.commit /\ job.step > Len(Order)
<1>0. recorded \in Seq({0} \cup Numbers) /\ recorded # <<>>
  BY StateFacts DEF Placed
<1>1. CASE Record
  <2>1. job \in Jobs /\ Busy
    BY <1>1, BusyFacts DEF Record, Phases, Placed
  <2> DEFINE S == {0} \cup Numbers
  <2>2. job.commit \in S /\ StatusLag \in Nat /\ recorded \in Seq(S)
    BY <1>0, <2>1, SyncAssumption DEF Jobs
  <2> HIDE DEF S
  <2>3. Stored(Push(recorded, job.commit, StatusLag)) = job.commit
    BY <1>0, <2>2, PushFacts
  <2> QED
    BY <1>1, <2>1, <2>3 DEF Record
<1>2. CASE SyncRecorded
  BY <1>0, <1>2, TailFacts DEF SyncRecorded
<1>3. CASE Restart
  BY <1>0, <1>3, RelistFacts DEF Restart
<1> QED
  BY <1>1, <1>2, <1>3, RecordedSteps

\* A commit is recorded only when every object it contains is stored as the
\* commit says: at the end of a reconciliation every step is done.  Without
\* one of the two conditions a cache may hide an update, see NoSpecReturns.
THEOREM RecordedIsApplied ==
  ASSUME NoSpecReturns \/ ObjectLag = 0
  PROVE  Spec => RecordedMeansApplied
<1>1. ASSUME Placed, ObjectsInv, [Next]_vars, Stored(recorded') # Stored(recorded)
      PROVE  Applied(Stored(recorded'))
  <2>1. /\ job \in Jobs /\ Busy
        /\ Stored(recorded') = job.commit /\ job.step > Len(Order)
    BY <1>1, RecordedCommit
  <2>2. ASSUME NEW o \in Objects
        PROVE  Commits[job.commit].spec[o] \in {NoSpec, Stored(objects[o])}
    <3>1. PICK i \in 1..Len(Order) : Order[i] = o
      BY SyncAssumption
    <3>2. i < job.step
      <4>1. Len(Order) \in Nat /\ job.step \in Nat
        BY <2>1, SyncAssumption DEF Jobs
      <4> QED
        BY <2>1, <4>1
    <3> QED
      BY <1>1, <2>1, <3>1, <3>2 DEF ObjectsInv, DoneIsApplied
  <2> QED
    BY <2>1, <2>2 DEF Applied
<1>2. Placed /\ ObjectsInv /\ [Next]_vars =>
        [Stored(recorded') # Stored(recorded) => Applied(Stored(recorded'))]_vars
  BY <1>1
<1> QED
  BY <1>2, ObjectsInvariance, PTL DEF Spec, RecordedMeansApplied

-----------------------------------------------------------------------------
(* Deliveries that nothing but restarts disturbs.                          *)

OnlyRestarts == Disturbances \subseteq {"crash"}

\* Nobody else pushes: the clone ends where the branch does.
CloneIsCurrent == Busy => job.base = Len(main)

\* A service that is not left to deliver has its tag in the clone, and between
\* two services the tags of the clone are upstream.  A tag is replaced when it
\* is the last, so that serviceTagExists, once set, concerns no other.
DeliveryGoesOn ==
  Delivering =>
    /\ job.sticky => job.todo = {}
    /\ \A s \in Artifacts(job.commit) \ job.todo : job.refs[TagOf(job.commit, s)] # NoTag
    /\ job.pc = "compose" => \A t \in Tags : job.refs[t] # NoTag => tags[t] # NoTag

\* After the delivery the tags are there.
DeliveredIsPresent ==
  job.pc = "apply" /\ (\E i \in 1..job.step - 1 : Order[i] = Delivery)
    => Present(job.commit)

DeliveryInv == IInv /\ CloneIsCurrent /\ DeliveryGoesOn /\ DeliveredIsPresent

LEMMA NothingFails ==
  ASSUME OnlyRestarts
  PROVE  ~DeliveryFails /\ ~CallFails /\ ~ForeignPush
BY DEF OnlyRestarts, DeliveryFails, CallFails, ForeignPush, Disturb

\* A reconciliation that goes on has delivered, or had before.
LEMMA GoneOnIsPresent ==
  ASSUME DeliveryInv, OnlyRestarts, JobGoesOn
  PROVE  CloneIsCurrent' /\ DeliveryGoesOn' /\ DeliveredIsPresent'
<1>1. /\ job \in Jobs /\ job.step \in 1..Len(Order) /\ Advance /\ Busy
      /\ UNCHANGED <<main, tags>>
  BY GoesOnFacts DEF DeliveryInv, IInv, Jobs, Phases, Idle, Busy
<1>2. /\ job'.pc = "apply" /\ job'.commit = job.commit /\ job'.step = job.step + 1
      /\ job'.base = job.base
  BY <1>1, AdvanceFacts DEF DeliveryInv, IInv, Placed
<1>3. CloneIsCurrent' /\ DeliveryGoesOn'
  BY <1>1, <1>2 DEF DeliveryInv, CloneIsCurrent, DeliveryGoesOn, Delivering
<1>4. Present(job.commit)' <=> Present(job.commit)
  BY <1>1, <1>2 DEF Present
<1>5. ASSUME NEW i \in 1..job'.step - 1, Order[i] = Delivery
      PROVE  Present(job.commit)
  <2>1. CASE \E o \in Objects : Unchanged(o) \/ Update(o)
    <3>1. job.pc = "apply" /\ Order[job.step] # Delivery
      BY <2>1, SyncAssumption DEF Unchanged, Update, Outdated, At, Applying
    <3>2. i \in 1..job.step - 1
      <4>1. Len(Order) \in Nat /\ i # job.step
        BY <1>5, <3>1, SyncAssumption
      <4> QED
        BY <1>1, <1>2, <4>1
    <3> QED
      BY <1>5, <3>1, <3>2 DEF DeliveryInv, DeliveredIsPresent
  <2>2. CASE PushRefused
    BY <1>1, <2>2 DEF PushRefused, UpToDate, DeliveryInv, CloneIsCurrent
  <2>3. CASE FinishDelivery
    <3>1. Delivering /\ job.todo = {} /\ job.pc = "compose"
      BY <2>3 DEF FinishDelivery, Delivering, Phases
    <3>2. ASSUME NEW s \in Artifacts(job.commit)
          PROVE  tags[TagOf(job.commit, s)] # NoTag
      <4>1. TagOf(job.commit, s) \in Tags
        BY <1>1, CommitFacts DEF Jobs
      <4> QED
        BY <3>1, <4>1 DEF DeliveryInv, DeliveryGoesOn
    <3> QED
      BY <3>2 DEF Present
  <2> QED
    BY <2>1, <2>2, <2>3, NothingFails DEF JobGoesOn
<1>6. DeliveredIsPresent'
  BY <1>2, <1>4, <1>5 DEF DeliveredIsPresent
<1> QED
  BY <1>3, <1>6

\* A service is delivered, one after the other.
LEMMA ComposedGoesOn ==
  ASSUME DeliveryInv, OverwrittenAlone, NEW s \in Services, ComposeService(s)
  PROVE  /\ CloneIsCurrent' /\ DeliveryGoesOn'
         /\ job'.pc # "apply"
<1> DEFINE t == TagOf(job.commit, s)
           exists == job.refs[t] # NoTag
           sticky == exists \/ job.sticky
           commit == [ours |-> TRUE, content |-> Composed(s)]
<1>1. /\ job.pc = "compose" /\ s \in job.todo /\ ~Spared(s) /\ UNCHANGED <<main, tags>>
      /\ job \in Jobs /\ Delivering /\ Busy /\ job.commit \in Numbers
  BY BusyFacts DEF ComposeService, upstream, DeliveryInv, IInv, Placed, Delivering, Phases, Jobs
<1>2. ~job.sticky /\ job.todo \subseteq Artifacts(job.commit)
      /\ \A u \in Artifacts(job.commit) \ job.todo : job.refs[TagOf(job.commit, u)] # NoTag
  BY <1>1 DEF DeliveryInv, DeliveryGoesOn, IInv, RefsFollow, Jobs
<1>3. t \in Tags /\ s \in Artifacts(job.commit)
  BY <1>1, <1>2, CommitFacts
<1>4. commit \in UpstreamCommits /\ commit # NoTag
  BY <1>1, ServiceFacts, SyncAssumption DEF DeliveryInv, IInv
<1>5. job' = [job EXCEPT !.pc = IF exists THEN "delete" ELSE "branch",
                         !.todo = @ \ {s}, !.service = s, !.sticky = sticky,
                         !.branch = Append(@, commit), !.refs[t] = commit]
  BY <1>2 DEF ComposeService
<1> HIDE DEF commit
<1>6. exists => job.todo \ {s} = {}
  <2>1. exists => Commits[job.commit].artifact[s].overwrite
    BY <1>1 DEF Spared
  <2>2. exists => Artifacts(job.commit) = {s}
    BY <1>1, <1>3, <2>1 DEF OverwrittenAlone
  <2> QED
    BY <1>2, <2>2
<1> HIDE DEF exists
<1>7. /\ job'.pc \in {"delete", "branch"} /\ job'.todo = job.todo \ {s}
      /\ job'.commit = job.commit /\ job'.base = job.base
      /\ job'.refs = [job.refs EXCEPT ![t] = commit]
      /\ job'.sticky => job'.todo = {}
  BY <1>1, <1>2, <1>5, <1>6 DEF Jobs
<1>8. \A u \in Artifacts(job.commit) \ job'.todo : job'.refs[TagOf(job.commit, u)] # NoTag
  <2>1. \A v \in Tags : job'.refs[v] = IF v = t THEN commit ELSE job.refs[v]
    BY <1>1, <1>7 DEF Jobs
  <2>2. \A u \in Artifacts(job.commit) : TagOf(job.commit, u) \in Tags
    BY <1>1, CommitFacts
  <2> HIDE DEF t
  <2>3. \A u \in Artifacts(job.commit) \ job'.todo :
          u = s \/ job.refs[TagOf(job.commit, u)] # NoTag
    BY <1>2, <1>7
  <2> QED
    BY <2>1, <2>2, <2>3, <1>4 DEF t
<1> QED
  BY <1>1, <1>7, <1>8 DEF DeliveryGoesOn, CloneIsCurrent, DeliveryInv

LEMMA DeliveryNext ==
  ASSUME DeliveryInv, OnlyRestarts, OverwrittenAlone, [Next]_vars
  PROVE  CloneIsCurrent' /\ DeliveryGoesOn' /\ DeliveredIsPresent'
<1> USE DEF CloneIsCurrent, DeliveryGoesOn, DeliveredIsPresent
<1>0. Placed /\ IInv
  BY DEF DeliveryInv, IInv
<1>1. CASE Begin
  <2>1. 1..1 - 1 = {}
    OBVIOUS
  <2> QED
    BY <1>0, <1>1, <2>1, BeginFacts DEF Placed, Delivering
<1>2. CASE JobEnds
  <2>1. job' = Idle
    BY <1>2 DEF JobEnds, Create, UpdateRefused, PanicOnBare, Record, CallFails, Crash,
         Restart, Requeue
  <2> QED
    BY <2>1 DEF Busy, Delivering, Idle, Phases
<1>3. CASE JobGoesOn
  BY <1>3, GoneOnIsPresent
<1>4. CASE StartDelivery
  <2>1. ~job'.sticky
    BY <1>0, <1>4, StartFacts DEF StartDelivery, Checkout, Jobs
  <2> QED
    BY <1>0, <1>4, <2>1, StartFacts
<1>5. ASSUME NEW s \in Services, SkipService(s)
      PROVE  CloneIsCurrent' /\ DeliveryGoesOn' /\ DeliveredIsPresent'
  <2>1. /\ job \in Jobs /\ Busy /\ Delivering /\ job.pc = "compose" /\ Spared(s)
        /\ UNCHANGED <<main, tags>>
    BY <1>0, <1>5, BusyFacts DEF Placed, SkipService, Delivering, Phases, upstream
  <2>2. /\ job'.pc = "compose" /\ job'.todo = job.todo \ {s} /\ job'.refs = job.refs
        /\ job'.commit = job.commit /\ job'.base = job.base /\ job'.sticky = job.sticky
    BY <1>5, <2>1 DEF SkipService, Jobs
  <2> QED
    BY <2>1, <2>2 DEF DeliveryInv, Spared
<1>6. ASSUME NEW s \in Services, ComposeService(s)
      PROVE  CloneIsCurrent' /\ DeliveryGoesOn' /\ DeliveredIsPresent'
  BY <1>6, ComposedGoesOn
<1>7. CASE DeleteTag \/ PushBranch \/ PushTags
  <2>1. job \in Jobs /\ Busy /\ Delivering
    BY <1>0, <1>7, BusyFacts
       DEF Placed, DeleteTag, PushBranch, PushTags, Delivering, Phases
  <2>2. /\ job'.todo = job.todo /\ job'.refs = job.refs /\ job'.commit = job.commit
        /\ job'.sticky = job.sticky /\ job'.pc \in Phases \ {"apply"}
    BY <1>7, <2>1 DEF DeleteTag, PushBranch, PushTags, Jobs, Phases
  <2>3. job'.base = Len(main')
    <3>1. CASE DeleteTag \/ PushTags
      BY <2>1, <3>1 DEF DeleteTag, PushTags, Jobs, DeliveryInv
    <3>2. CASE PushBranch
      BY <2>1, <3>2 DEF PushBranch, Jobs
    <3> QED
      BY <1>7, <3>1, <3>2
  <2>4. ASSUME job'.pc = "compose", NEW t \in Tags, job'.refs[t] # NoTag
        PROVE  tags'[t] # NoTag
    <3>1. CASE DeleteTag \/ PushBranch
      BY <2>1, <2>4, <3>1 DEF DeleteTag, PushBranch, Jobs
    <3>2. CASE PushTags
      BY <2>2, <2>4, <3>2 DEF PushTags
    <3> QED
      BY <1>7, <3>1, <3>2
  <2>5. /\ job.sticky => job.todo = {}
        /\ \A s \in Artifacts(job.commit) \ job.todo : job.refs[TagOf(job.commit, s)] # NoTag
    BY <2>1 DEF DeliveryInv
  <2>6. DeliveryGoesOn'
    BY <2>2, <2>4, <2>5
  <2> QED
    BY <2>2, <2>3, <2>6
<1>8. CASE JobRests \/ UNCHANGED vars
  <2>1. UNCHANGED <<job, main, tags>>
    BY <1>8, NothingFails
       DEF JobRests, Commit, SyncRecorded, SyncObject, vars, upstream
  <2> QED
    BY <2>1 DEF DeliveryInv, Busy, Delivering, Present
<1> QED
  BY <1>1, <1>2, <1>3, <1>4, <1>5, <1>6, <1>7, <1>8, StepSplit DEF JobDelivers

\* A recorded commit is a delivered one when only restarts disturb and a service
\* whose tag may be replaced is delivered alone: no failure is only logged then,
\* and serviceTagExists is not taken from one service to the next.
THEOREM RecordedIsDelivered ==
  ASSUME OnlyRestarts, OverwrittenAlone
  PROVE  Spec => SuccessfulMeansDelivered
<1>1. Init => DeliveryInv
  <2> SUFFICES ASSUME Init PROVE DeliveryInv
    OBVIOUS
  <2>1. ~Busy /\ ~Delivering /\ job.pc # "apply"
    BY DEF Init, Busy, Delivering, Idle, Phases
  <2> QED
    BY <2>1, IInvInit DEF DeliveryInv, CloneIsCurrent, DeliveryGoesOn, DeliveredIsPresent
<1>2. DeliveryInv /\ [Next]_vars => DeliveryInv'
  BY DeliveryNext, PlacedNext, TagsNext, RefsNext, FollowNext DEF DeliveryInv, IInv
<1>3. ASSUME DeliveryInv, [Next]_vars, Stored(recorded') # Stored(recorded)
      PROVE  Present(Stored(recorded'))
  <2>1. /\ Record /\ job \in Jobs
        /\ Stored(recorded') = job.commit /\ job.step > Len(Order)
    BY <1>3, RecordedCommit DEF DeliveryInv, IInv
  <2>2. PICK i \in 1..Len(Order) : Order[i] = Delivery
    BY SyncAssumption
  <2>3. i \in 1..job.step - 1
    <3>1. Len(Order) \in Nat /\ job.step \in Nat
      BY <2>1, SyncAssumption DEF Jobs
    <3> QED
      BY <2>1, <3>1
  <2>4. Present(job.commit)
    BY <1>3, <2>1, <2>2, <2>3 DEF DeliveryInv, DeliveredIsPresent, Record
  <2> QED
    BY <2>1, <2>4
<1>4. DeliveryInv /\ [Next]_vars =>
        [Stored(recorded') # Stored(recorded) => Present(Stored(recorded'))]_vars
  BY <1>3
<1> QED
  BY <1>1, <1>2, <1>4, PTL DEF Spec, SuccessfulMeansDelivered
=============================================================================
