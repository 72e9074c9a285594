------------------------- MODULE GitRepositorySync -------------------------
(***************************************************************************)
(* gitops-operator: its one worker clones the code repository, applies the *)
(* manifests of the newest commit to the cluster one object at a time,     *)
(* delivers the artifacts of the services to the upstream repository under *)
(* a tag per version, and records the commit.                              *)
(*                                                                         *)
(* Objects are read from an informer cache: as in KeptnServiceDeployment,  *)
(* an object is the sequence of its versions from the cached one (head) to *)
(* the stored one (last).  A version is the annotation last-applied-hash,  *)
(* which stands for the spec it was computed from.                         *)
(***************************************************************************)
EXTENDS Integers, Sequences

CONSTANTS
  Objects,         \* the objects the manifests may contain
  Services,        \* the directories with artifacts
  Delivery,        \* the step of a reconciliation that delivers artifacts
  Order,           \* objects in the order of Reconcile, with Delivery inside
  Commits,         \* Commits[c]: manifests and artifacts of commit c
  NoSpec,          \* an object without manifest
  NoArtifact,      \* a service without metadata.yaml
  Absent,          \* the object does not exist
  Bare,            \* it exists, made by a user and without any annotation
  Foreign,         \* the objects that may be bare
  NoTag,           \* the tag does not exist
  ObjectLag,       \* versions the cache of an object may be behind
  StatusLag,       \* versions the cache of the status may be behind
  MaxBranch,       \* bound on the upstream branch: no reconciliation beyond
  Disturbances,    \* the kinds of disturbance the environment makes
  MaxDisturbances  \* bound on their number

Numbers == 1..Len(Commits)
Specs   == {Commits[c].spec[o] : c \in Numbers, o \in Objects} \ {NoSpec}

Artifacts(c) == {s \in Services : Commits[c].artifact[s] # NoArtifact}
TagOf(c, s)  == Commits[c].artifact[s].tag
Tags         == UNION {{TagOf(c, s) : s \in Artifacts(c)} : c \in Numbers}

\* A commit of the upstream branch: who made it, and which code commit the
\* directories of each service are from (0: there are none).
UpstreamCommits == [ours : BOOLEAN, content : [Services -> {0} \cup Numbers]]

Kinds == {"crash", "network", "push"}

ASSUME SyncAssumption ==
  /\ Commits \in Seq([spec : [Objects -> Specs \cup {NoSpec}],
                      artifact : [Services -> [tag : Tags, overwrite : BOOLEAN]
                                                \cup {NoArtifact}]])
  /\ Commits # <<>>
  /\ Order \in Seq(Objects \cup {Delivery})
  /\ \A step \in Objects \cup {Delivery} : \E i \in 1..Len(Order) : Order[i] = step
  /\ {Absent, Bare, NoSpec} \cap Specs = {} /\ Absent # Bare
  /\ Delivery \notin Objects
  /\ Services # {}
  /\ NoTag \notin UpstreamCommits
  /\ Foreign \subseteq Objects
  /\ {ObjectLag, StatusLag, MaxBranch} \subseteq Nat
  /\ Disturbances \subseteq Kinds
  /\ MaxDisturbances \in Nat

VARIABLES
  head,         \* the newest commit of the code repository
  objects,      \* objects[o]: versions of the object, cached to stored
  recorded,     \* versions of status.lastCommit, 0: none
  main,         \* the commits of the upstream branch
  tags,         \* tags[t]: the commit the upstream tag t is at, or NoTag
  job,          \* the reconciliation in flight, or Idle
  disturbances  \* disturbances so far

vars == <<head, objects, recorded, main, tags, job, disturbances>>
cluster  == <<objects, recorded>>
upstream == <<main, tags>>

InitialCommit   == [ours |-> FALSE, content |-> [s \in Services |-> 0]]

Cached(versions) == Head(versions)
Stored(versions) == versions[Len(versions)]
InSync(versions) == Len(versions) = 1

Push(versions, version, lag) ==
  IF Len(versions) <= lag THEN Append(versions, version)
                          ELSE Append(Tail(versions), version)

Idle  == [pc |-> "idle"]
Busy  == job # Idle

\* step: place in Order; todo, service, sticky: services to deliver, the one
\* being delivered, and the variable serviceTagExists; branch, refs: the clone
\* of the upstream repository; base: the length of the branch it was made from
\* or last pushed to; fresh: the status it was started with is the stored one.
Phases == {"apply", "compose", "delete", "branch", "tags"}
Jobs == [pc : Phases, commit : Numbers, step : 1..Len(Order) + 1,
         todo : SUBSET Services, service : Services, sticky : BOOLEAN,
         branch : Seq(UpstreamCommits), base : Nat,
         refs : [Tags -> UpstreamCommits \cup {NoTag}], fresh : BOOLEAN]

Disturb(kind) == /\ kind \in Disturbances
                 /\ disturbances < MaxDisturbances
                 /\ disturbances' = disturbances + 1

Init ==
  /\ head = 1
  /\ objects \in [Objects -> {<<Absent>>, <<Bare>>}]
  /\ \A o \in Objects : objects[o] = <<Bare>> => o \in Foreign
  /\ recorded = <<0>>
  /\ main = <<InitialCommit>>
  /\ tags = [t \in Tags |-> NoTag]
  /\ job = Idle
  /\ disturbances = 0

-----------------------------------------------------------------------------
(* Reconcile: the newest commit is cloned, unless it is the recorded one.  *)

Begin ==
  /\ ~Busy
  /\ head # Cached(recorded)
  /\ Len(main) < MaxBranch
  /\ job' = [pc |-> "apply", commit |-> head, step |-> 1, todo |-> {},
             service |-> CHOOSE s \in Services : TRUE, sticky |-> FALSE,
             branch |-> main, base |-> Len(main), refs |-> tags,
             fresh |-> InSync(recorded)]
  /\ UNCHANGED <<head, cluster, upstream, disturbances>>

Applying == job.pc = "apply" /\ job.step <= Len(Order)
At(step) == Applying /\ Order[job.step] = step
Wanted(o) == Commits[job.commit].spec[o]

Advance == job' = [job EXCEPT !.pc = "apply", !.step = @ + 1]
Requeue == job' = Idle

\* checkCreate and reconcile, for every kind of object alike.
Unchanged(o) ==
  /\ At(o)
  /\ Wanted(o) \in {NoSpec, Cached(objects[o])}
  /\ Advance
  /\ UNCHANGED <<head, cluster, upstream, disturbances>>

\* Mutant: the annotation is not set on a new object.
Create_Bare(o) ==
  /\ At(o)
  /\ Wanted(o) # NoSpec
  /\ Cached(objects[o]) = Absent
  /\ objects' = IF Stored(objects[o]) = Absent
                  THEN [objects EXCEPT ![o] = Push(@, NoSpec, ObjectLag)] ELSE objects
  /\ Requeue
  /\ UNCHANGED <<head, recorded, upstream, disturbances>>

\* A created object ends the reconciliation; creating one that the cache does
\* not show yet is refused.
Create(o) ==
  /\ At(o)
  /\ Wanted(o) # NoSpec
  /\ Cached(objects[o]) = Absent
  /\ objects' = IF Stored(objects[o]) = Absent
                  THEN [objects EXCEPT ![o] = Push(@, Wanted(o), ObjectLag)] ELSE objects
  /\ Requeue
  /\ UNCHANGED <<head, recorded, upstream, disturbances>>

Outdated(o) ==
  /\ At(o)
  /\ Wanted(o) \notin {NoSpec, Cached(objects[o])}
  /\ Cached(objects[o]) \notin {Absent, Bare}

\* Mutant: the error of the update is only logged.
UpdateRefused_Logged(o) ==
  /\ Outdated(o)
  /\ ~InSync(objects[o])
  /\ Advance
  /\ UNCHANGED <<head, cluster, upstream, disturbances>>

UpdateRefused(o) ==
  /\ Outdated(o)
  /\ ~InSync(objects[o])
  /\ Requeue
  /\ UNCHANGED <<head, cluster, upstream, disturbances>>

Update(o) ==
  /\ Outdated(o)
  /\ InSync(objects[o])
  /\ objects' = [objects EXCEPT ![o] = Push(@, Wanted(o), ObjectLag)]
  /\ Advance
  /\ UNCHANGED <<head, recorded, upstream, disturbances>>

Restart == /\ job' = Idle
           /\ objects' = [o \in Objects |-> <<Stored(objects[o])>>]
           /\ recorded' = <<Stored(recorded)>>

\* Writing into the annotations of an object that has none panics.
PanicOnBare(o) ==
  /\ At(o)
  /\ Wanted(o) # NoSpec
  /\ Cached(objects[o]) = Bare
  /\ Restart
  /\ UNCHANGED <<head, upstream, disturbances>>

-----------------------------------------------------------------------------
(* deliverArtifacts and composeData.  Whatever fails, the error is logged  *)
(* and the reconciliation goes on: Advance.                                *)

\* The clone keeps the branch and the tags of the moment it is made.
Checkout(j) == [j EXCEPT !.branch = main, !.base = Len(main), !.refs = tags]

StartDelivery ==
  /\ At(Delivery)
  /\ job' = [Checkout(job) EXCEPT !.pc = "compose", !.sticky = FALSE,
                                  !.todo = Artifacts(job.commit)]
  /\ UNCHANGED <<head, cluster, upstream, disturbances>>

Tag == TagOf(job.commit, job.service)
Ours == job.branch[Len(job.branch)]

\* Mutant: an existing tag is never spared.
Spared_Never(s) == FALSE

\* The tag exists and must not be overwritten.
Spared(s) == /\ job.refs[TagOf(job.commit, s)] # NoTag
             /\ ~Commits[job.commit].artifact[s].overwrite

SkipService(s) ==
  /\ job.pc = "compose"
  /\ s \in job.todo
  /\ Spared(s)
  /\ job' = [job EXCEPT !.todo = @ \ {s}]
  /\ UNCHANGED <<head, cluster, upstream, disturbances>>

\* The files of the service replace those the branch has of it, and no others.
Composed(s) == [Ours.content EXCEPT ![s] = job.commit]

\* The directories of s are replaced and committed.  serviceTagExists stays
\* set for the services that follow; deleting a tag that does not exist fails.
ComposeService(s) ==
  LET exists == job.refs[TagOf(job.commit, s)] # NoTag
      sticky == exists \/ job.sticky
      commit == [ours |-> TRUE, content |-> Composed(s)]
  IN
  /\ job.pc = "compose"
  /\ s \in job.todo
  /\ ~Spared(s)
  /\ IF sticky /\ ~exists
       THEN Advance
       ELSE job' = [job EXCEPT !.pc = IF exists THEN "delete" ELSE "branch",
                               !.todo = @ \ {s}, !.service = s, !.sticky = sticky,
                               !.branch = Append(@, commit),
                               !.refs[TagOf(job.commit, s)] = commit]
  /\ UNCHANGED <<head, cluster, upstream, disturbances>>

\* Mutant: the deletion of a tag is taken for a failure.
DeleteTag_Fails ==
  /\ job.pc = "delete"
  /\ tags[Tag] # NoTag
  /\ tags' = [tags EXCEPT ![Tag] = NoTag]
  /\ Advance
  /\ UNCHANGED <<head, cluster, main, disturbances>>

DeleteTag ==
  /\ job.pc = "delete"
  /\ tags[Tag] # NoTag
  /\ tags' = [tags EXCEPT ![Tag] = NoTag]
  /\ job' = [job EXCEPT !.pc = "branch"]
  /\ UNCHANGED <<head, cluster, main, disturbances>>

UpToDate == job.base = Len(main)

PushBranch ==
  /\ job.pc = "branch"
  /\ UpToDate
  /\ main' = job.branch
  /\ job' = [job EXCEPT !.pc = "tags", !.base = Len(job.branch)]
  /\ UNCHANGED <<head, cluster, tags, disturbances>>

\* Mutant: the tags are pushed although the branch was refused.
PushRefused_Logged ==
  /\ job.pc = "branch"
  /\ ~UpToDate
  /\ job' = [job EXCEPT !.pc = "tags"]
  /\ UNCHANGED <<head, cluster, upstream, disturbances>>

PushRefused ==
  /\ job.pc = "branch"
  /\ ~UpToDate
  /\ Advance
  /\ UNCHANGED <<head, cluster, upstream, disturbances>>

PushTags ==
  /\ job.pc = "tags"
  /\ tags' = [t \in Tags |-> IF job.refs[t] # NoTag THEN job.refs[t] ELSE tags[t]]
  /\ job' = [job EXCEPT !.pc = "compose"]
  /\ UNCHANGED <<head, cluster, main, disturbances>>

FinishDelivery ==
  /\ job.pc = "compose"
  /\ job.todo = {}
  /\ Advance
  /\ UNCHANGED <<head, cluster, upstream, disturbances>>

\* Copying files, a clone, a deletion or a push fails, or its answer is lost; a
\* project or a directory that is missing ends the delivery in the same way.
DeliveryFails ==
  /\ job.pc \in Phases \ {"apply"} \/ At(Delivery)
  /\ Disturb("network")
  /\ Advance
  /\ UNCHANGED <<head, cluster, upstream>>

-----------------------------------------------------------------------------
\* updateStatusResult, with the version of the status read at the start: a
\* conflict is only logged.
Record ==
  /\ job.pc = "apply"
  /\ job.step > Len(Order)
  /\ recorded' = IF job.fresh THEN Push(recorded, job.commit, StatusLag) ELSE recorded
  /\ Requeue
  /\ UNCHANGED <<head, objects, upstream, disturbances>>

\* Any other call of a reconciliation fails, or its answer is lost.
CallFails ==
  /\ job.pc = "apply"
  /\ Disturb("network")
  /\ Requeue
  /\ UNCHANGED <<head, cluster, upstream>>

-----------------------------------------------------------------------------
(* The environment.                                                        *)

Commit == /\ head < Len(Commits)
          /\ head' = head + 1
          /\ UNCHANGED <<cluster, upstream, job, disturbances>>

Crash == /\ Busy
         /\ Disturb("crash")
         /\ Restart
         /\ UNCHANGED <<head, upstream>>

\* The shipyard controller, Keptn or a user commits to the branch.
ForeignPush ==
  /\ Disturb("push")
  /\ main' = Append(main, [ours |-> FALSE, content |-> main[Len(main)].content])
  /\ UNCHANGED <<head, cluster, tags, job>>

SyncObject(o) ==
  /\ Len(objects[o]) > 1
  /\ objects' = [objects EXCEPT ![o] = Tail(@)]
  /\ UNCHANGED <<head, recorded, upstream, job, disturbances>>

SyncRecorded ==
  /\ Len(recorded) > 1
  /\ recorded' = Tail(recorded)
  /\ UNCHANGED <<head, objects, upstream, job, disturbances>>

-----------------------------------------------------------------------------
Reconcile ==
  \/ \E o \in Objects : \/ Unchanged(o) \/ Create(o)
                        \/ Update(o) \/ UpdateRefused(o) \/ PanicOnBare(o)
  \/ \E s \in Services : SkipService(s) \/ ComposeService(s)
  \/ Begin \/ StartDelivery \/ DeleteTag \/ PushBranch \/ PushRefused
  \/ PushTags \/ FinishDelivery \/ DeliveryFails \/ Record \/ CallFails

Next ==
  \/ Reconcile
  \/ Commit
  \/ Crash
  \/ ForeignPush
  \/ \E o \in Objects : SyncObject(o)
  \/ SyncRecorded

Spec == Init /\ [][Next]_vars

\* Every path of Reconcile asks for another one; informers deliver.
Fairness == /\ WF_vars(Reconcile)
            /\ \A o \in Objects : WF_vars(SyncObject(o))
            /\ WF_vars(SyncRecorded)

FairSpec == Spec /\ Fairness

-----------------------------------------------------------------------------
(* Properties. *)

\* Type invariant.
TypeOK ==
  /\ head \in Numbers
  /\ objects \in [Objects -> Seq(Specs \cup {Absent, Bare}) \ {<<>>}]
  /\ recorded \in Seq({0} \cup Numbers) \ {<<>>}
  /\ main \in Seq(UpstreamCommits) \ {<<>>}
  /\ tags \in [Tags -> UpstreamCommits \cup {NoTag}]
  /\ job \in Jobs \cup {Idle}
  /\ disturbances \in 0..MaxDisturbances

Applied(c) == \A o \in Objects :
  Commits[c].spec[o] \in {NoSpec, Stored(objects[o])}

Present(c) == \A s \in Artifacts(c) : tags[TagOf(c, s)] # NoTag

\* A commit that may replace the tag of a service delivers no other service.
OverwrittenAlone == \A c \in Numbers : \A s \in Artifacts(c) :
  Commits[c].artifact[s].overwrite => Artifacts(c) = {s}

\* No later commit takes the spec of an object back to an earlier one.
NoSpecReturns == \A o \in Objects : \A c1, c2, c3 \in Numbers :
  /\ c1 < c2 /\ c2 < c3
  /\ Commits[c1].spec[o] = Commits[c3].spec[o] /\ Commits[c1].spec[o] # NoSpec
  => Commits[c2].spec[o] \in {NoSpec, Commits[c1].spec[o]}

\* A commit is recorded only when every object it contains is stored as the
\* commit says, through stale caches, refused updates and restarts.  (No
\* spec may return to an earlier value unless caches are always current.)
RecordedMeansApplied ==
  [][Stored(recorded') # Stored(recorded) => Applied(Stored(recorded'))]_vars

\* A tag that exists belongs to a commit that is in the upstream branch, and
\* holds the artifact of its service as some code commit defines that version.
TagsAreTraceable ==
  \A t \in Tags : tags[t] # NoTag =>
    /\ \E i \in 1..Len(main) : main[i] = tags[t]
    /\ \E s \in Services : LET c == tags[t].content[s] IN
         c # 0 /\ s \in Artifacts(c) /\ TagOf(c, s) = t

\* A tag is moved or removed only while a commit is delivered that allows it.
OverwritesAreAllowed ==
  [][\A t \in Tags : tags[t] # NoTag /\ tags'[t] # tags[t] =>
       \E s \in Artifacts(job.commit) : /\ TagOf(job.commit, s) = t
                                        /\ Commits[job.commit].artifact[s].overwrite]_vars

\* Once commits stop, the newest one is recorded, its objects are applied and
\* its artifacts delivered, whenever the operator restarts.
Synchronises == <>[](Stored(recorded) = head /\ Applied(head) /\ Present(head))

\* A commit is recorded only when the tags of all its artifacts are upstream.
\* (Nothing but restarts may disturb, and OverwrittenAlone has to hold.)
\* keptngitrepository_types.go:24 of the repository: the result recorded with
\* a commit, Successful, is "the value for a successful action"; and
\* README.md:76: the operator "applies Keptn Custom Resources (see above) and
\* pushes artifacts to the Keptn Upstream Repository".
SuccessfulMeansDelivered ==
  [][Stored(recorded') # Stored(recorded) => Present(Stored(recorded'))]_vars
=============================================================================
