----------------------- MODULE KeptnServiceDeployment -----------------------
(***************************************************************************)
(* The KeptnServiceDeployment controller of keptn-operator: it turns the   *)
(* spec of every KeptnServiceDeployment of one service into deployment     *)
(* events sent to the Keptn API, and remembers what it sent in a           *)
(* KeptnDeploymentContext per version.                                     *)
(*                                                                         *)
(* The controller reads every object from an informer cache and writes to  *)
(* the API server, which refuses a write made from an outdated copy.  An   *)
(* object is therefore kept as the sequence of its versions from the one   *)
(* the cache holds (the head) to the one the server stores (the last).     *)
(* One worker reconciles all deployments.  Every path of Reconcile that    *)
(* neither writes nor sends is a stuttering step and has no action.        *)
(***************************************************************************)
EXTENDS Integers, Sequences

CONSTANTS
  Deployments,   \* names of the KeptnServiceDeployment objects of one service
  StageOf,       \* the stage each of them deploys to (spec.stage)
  Plan,          \* Plan[d][g] is the spec of d at metadata.generation g
  NoHash,        \* the empty string a Go map returns for a missing key
  MaxLag,        \* versions an informer cache may be behind; 0: always fresh
  MaxFaults,     \* bound on crashes, lost answers, failed calls and deletions
  MaxContexts    \* bound on Keptn contexts: later ones share the last number

\* The hash of a spec stands for the spec: hashstructure is taken as injective.
Specs    == UNION {{Plan[d][g] : g \in 1..Len(Plan[d])} : d \in Deployments}
Stages   == {StageOf[d] : d \in Deployments}
Versions == {spec.version : spec \in Specs}

ASSUME DeploymentAssumption ==
  /\ StageOf \in [Deployments -> Stages]
  /\ \A d \in Deployments : Plan[d] \in Seq(Specs) /\ Plan[d] # <<>>
  /\ NoHash \notin Specs
  /\ MaxLag \in Nat
  /\ MaxFaults \in Nat
  /\ MaxContexts \in Nat /\ MaxContexts > 0

VARIABLES
  project,   \* does the KeptnProject object exist
  service,   \* does the KeptnService object exist
  api,       \* does the Keptn API answer, and list the project and service
  ksd,       \* ksd[d]: versions of the deployment object, cached to stored
  ctx,       \* ctx[v]: versions of the deployment context of version v
  orphans,   \* contexts whose owning KeptnService object has been deleted
  job,       \* the reconciliation in flight after a trigger, or Idle
  minted,    \* number of Keptn contexts Keptn has created so far
  events,    \* the trigger events Keptn accepted
  last,      \* last[d]: generation of the last event accepted for d, 0 if none
  faults     \* faults so far

vars == <<project, service, api, ksd, ctx, orphans, job, minted, events,
          last, faults>>
environment == <<project, service, api>>
history     == <<minted, events, last>>

-----------------------------------------------------------------------------
(* Objects, caches and the worker. *)

Generations(d) == 1..Len(Plan[d])

KsdObjects(d) ==
  [gen : Generations(d), projectExists : BOOLEAN, serviceExists : BOOLEAN,
   updatePending : BOOLEAN, applied : {0} \cup Generations(d)]

Contexts == 0..MaxContexts   \* 0: the empty KeptnContext

ContextObjects ==
  [exists : BOOLEAN, hash : [Stages -> Specs \cup {NoHash}], kc : Contexts]

NoContext == [exists |-> FALSE, hash |-> [s \in Stages |-> NoHash], kc |-> 0]
\* Mutant: the context is created without its map of hashes.
NewContext_NilMap == [exists |-> TRUE, hash |-> <<>>, kc |-> 0]

NewContext == [exists |-> TRUE, hash |-> [s \in Stages |-> NoHash], kc |-> 0]

Cached(versions) == Head(versions)
Stored(versions) == versions[Len(versions)]
InSync(versions) == Len(versions) = 1

\* The server stores a new version; the cache keeps up to MaxLag behind.
Push(versions, object) ==
  IF Len(versions) <= MaxLag THEN Append(versions, object)
                             ELSE Append(Tail(versions), object)

Idle == [pc |-> "idle"]

Jobs == UNION
  {[pc : {"context", "status"}, d : {d}, gen : Generations(d),
    copy : KsdObjects(d), copyFresh : BOOLEAN,
    view : ContextObjects, viewFresh : BOOLEAN, kc : Contexts] : d \in Deployments}

Events == UNION {[d : {d}, gen : Generations(d), kc : Contexts] : d \in Deployments}

SpecOf(d)    == Plan[d][Cached(ksd[d]).gen]
VersionOf(d) == SpecOf(d).version
Busy         == job # Idle

\* A write by somebody else makes the copy the worker holds outdated.
TouchKsd(d) ==
  IF Busy /\ job.d = d THEN [job EXCEPT !.copyFresh = FALSE] ELSE job
TouchContext(v) ==
  IF Busy /\ Plan[job.d][job.gen].version = v
    THEN [job EXCEPT !.viewFresh = FALSE] ELSE job

Fault == /\ faults < MaxFaults
         /\ faults' = faults + 1

-----------------------------------------------------------------------------
NewKsd == [gen |-> 1, projectExists |-> FALSE, serviceExists |-> FALSE,
           updatePending |-> FALSE, applied |-> 0]

Init ==
  /\ project \in BOOLEAN
  /\ service \in BOOLEAN
  /\ api \in BOOLEAN
  /\ ksd = [d \in Deployments |-> <<NewKsd>>]
  /\ ctx = [v \in Versions |-> <<NoContext>>]
  /\ orphans = {}
  /\ job = Idle
  /\ minted = 0
  /\ events = {}
  /\ last = [d \in Deployments |-> 0]
  /\ faults = 0

-----------------------------------------------------------------------------
(* Reconcile, up to the decision: each of these paths ends in one write.   *)
(* A write from an outdated copy is refused and the request is requeued,   *)
(* which changes nothing: InSync is in the guard.                          *)

\* Mutant: an outdated copy is written all the same.
WriteKsd_Unversioned(d, object) ==
  /\ object # Cached(ksd[d])
  /\ ksd' = [ksd EXCEPT ![d] = Push(@, object)]
  /\ UNCHANGED <<environment, ctx, orphans, job, history, faults>>

WriteKsd(d, object) ==
  /\ InSync(ksd[d])
  /\ object # Cached(ksd[d])
  /\ ksd' = [ksd EXCEPT ![d] = Push(@, object)]
  /\ UNCHANGED <<environment, ctx, orphans, job, history, faults>>

ProjectMissing(d) ==
  /\ ~Busy
  /\ ~project
  /\ WriteKsd(d, [Cached(ksd[d]) EXCEPT !.projectExists = FALSE,
                                        !.updatePending = TRUE])

ProjectFound(d) ==
  /\ ~Busy
  /\ project
  /\ ~Cached(ksd[d]).projectExists
  /\ WriteKsd(d, [Cached(ksd[d]) EXCEPT !.projectExists = TRUE])

\* Any error of the Keptn API counts as "the service does not exist".
ServiceExists == service /\ api

ProjectKnown(d) == project /\ Cached(ksd[d]).projectExists
ServiceKnown(d) == ServiceExists /\ Cached(ksd[d]).serviceExists

ServiceMissing(d) ==
  /\ ~Busy
  /\ ProjectKnown(d)
  /\ ~ServiceExists
  /\ WriteKsd(d, [Cached(ksd[d]) EXCEPT !.serviceExists = FALSE,
                                        !.updatePending = TRUE])

ServiceFound(d) ==
  /\ ~Busy
  /\ ProjectKnown(d)
  /\ ServiceExists
  /\ ~Cached(ksd[d]).serviceExists
  /\ WriteKsd(d, [Cached(ksd[d]) EXCEPT !.serviceExists = TRUE])

\* The context is owned by the KeptnService, and goes when the service goes.
\* Creating one that the cache does not show yet fails and is retried.
CreateContext(d) ==
  /\ ~Busy
  /\ ProjectKnown(d)
  /\ ServiceKnown(d)
  /\ ~Cached(ctx[VersionOf(d)]).exists
  /\ ~Stored(ctx[VersionOf(d)]).exists
  /\ ctx' = [ctx EXCEPT ![VersionOf(d)] = Push(@, NewContext)]
  /\ orphans' = orphans \ {VersionOf(d)}
  /\ UNCHANGED <<environment, ksd, job, history, faults>>

-----------------------------------------------------------------------------
(* Reconcile, from the decision on. *)

\* Mutant: the event never names the context.
Mint_Always(kc) == IF minted < MaxContexts THEN minted + 1 ELSE minted

\* Keptn continues the context the event names, or creates one.
Mint(kc) == IF kc # 0 THEN kc
            ELSE IF minted < MaxContexts THEN minted + 1 ELSE minted

\* Mutant: any recorded hash will do.
Needed_AnyHash(d, view) ==
  \/ view.hash[StageOf[d]] = NoHash
  \/ Cached(ksd[d]).updatePending

Needed(d, view) ==
  \/ view.hash[StageOf[d]] # SpecOf(d)
  \/ Cached(ksd[d]).updatePending

\* POST /v1/event: Keptn accepts the event for the cached spec of d.
Accept(d, kc) ==
  LET gen == Cached(ksd[d]).gen IN
  /\ minted' = IF kc > minted THEN kc ELSE minted
  /\ events' = events \cup {[d |-> d, gen |-> gen, kc |-> kc]}
  /\ last' = [last EXCEPT ![d] = gen]

\* What getKeptnContext returns: the cached context, or, when the read fails
\* (an error that is only logged), an empty object no write can store.
Views(d) ==
  LET versions == ctx[VersionOf(d)] IN
  {view \in {[object |-> Cached(versions), fresh |-> InSync(versions), failed |-> FALSE],
             [object |-> NoContext, fresh |-> FALSE, failed |-> TRUE]} :
     view.object.exists \/ view.failed}

Trigger(d) ==
  /\ ~Busy
  /\ ProjectKnown(d)
  /\ ServiceKnown(d)
  /\ \E view \in Views(d) :
       /\ Needed(d, view.object)
       /\ IF view.failed THEN Fault ELSE faults' = faults
       /\ LET kc == Mint(view.object.kc) IN
          /\ Accept(d, kc)
          /\ job' = [pc |-> "context", d |-> d, gen |-> Cached(ksd[d]).gen,
                     copy |-> Cached(ksd[d]), copyFresh |-> InSync(ksd[d]),
                     view |-> view.object, viewFresh |-> view.fresh, kc |-> kc]
  /\ UNCHANGED <<environment, ksd, ctx, orphans>>

\* Mutant: the error of the request is logged, and the reconciliation goes on.
TriggerAnswerLost_Logged(d) ==
  /\ ~Busy
  /\ ProjectKnown(d)
  /\ ServiceKnown(d)
  /\ \E view \in Views(d) :
       /\ ~view.failed
       /\ Needed(d, view.object)
       /\ job' = [pc |-> "context", d |-> d, gen |-> Cached(ksd[d]).gen,
                  copy |-> Cached(ksd[d]), copyFresh |-> InSync(ksd[d]),
                  view |-> view.object, viewFresh |-> view.fresh,
                  kc |-> view.object.kc]
  /\ Fault
  /\ UNCHANGED <<environment, ksd, ctx, orphans, events, last, minted>>

\* Keptn accepts the event but the answer is lost (30 s timeout, a broken
\* connection, an unreadable body): the request is requeued, nothing is kept.
TriggerAnswerLost(d) ==
  /\ ~Busy
  /\ ProjectKnown(d)
  /\ ServiceKnown(d)
  /\ \E view \in Views(d) :
       /\ ~view.failed
       /\ Needed(d, view.object)
       /\ Accept(d, Mint(view.object.kc))
  /\ Fault
  /\ UNCHANGED <<environment, ksd, ctx, orphans, job>>

\* Mutant: the hash is computed again from the spec the cache holds by now.
WriteContext_RereadSpec ==
  /\ job.pc = "context"
  /\ LET v == Plan[job.d][job.gen].version
         object == [job.view EXCEPT !.hash[StageOf[job.d]] = SpecOf(job.d),
                                    !.kc = job.kc]
     IN IF job.viewFresh THEN ctx' = [ctx EXCEPT ![v] = Push(@, object)] ELSE ctx' = ctx
  /\ job' = [job EXCEPT !.pc = "status"]
  /\ UNCHANGED <<environment, ksd, orphans, history, faults>>

\* Mutant: the map of hashes is made anew, and forgets the other stages.
WriteContext_NewMap ==
  /\ job.pc = "context"
  /\ LET v == Plan[job.d][job.gen].version
         object == [job.view EXCEPT
                      !.hash = [NewContext.hash EXCEPT
                                  ![StageOf[job.d]] = Plan[job.d][job.gen]],
                      !.kc = job.kc]
     IN IF job.viewFresh /\ object # Stored(ctx[v])
          THEN ctx' = [ctx EXCEPT ![v] = Push(@, object)] ELSE ctx' = ctx
  /\ job' = [job EXCEPT !.pc = "status"]
  /\ UNCHANGED <<environment, ksd, orphans, history, faults>>

\* The context is written if nobody wrote it since it was read; a conflict or
\* a failure of the call is only logged.
WriteContext ==
  /\ job.pc = "context"
  /\ LET v == Plan[job.d][job.gen].version
         object == [job.view EXCEPT !.hash[StageOf[job.d]] = Plan[job.d][job.gen],
                                    !.kc = job.kc]
     IN \/ /\ job.viewFresh
           /\ ctx' = [ctx EXCEPT ![v] = IF object = Stored(@) THEN @
                                                   ELSE Push(@, object)]
           /\ faults' = faults
        \/ /\ ~job.viewFresh
           /\ UNCHANGED <<ctx, faults>>
        \/ /\ job.viewFresh
           /\ Fault
           /\ ctx' = ctx
  /\ job' = [job EXCEPT !.pc = "status"]
  /\ UNCHANGED <<environment, ksd, orphans, history>>

\* Mutant: the object is read again before its status is written, and the
\* hash of what it says by now is recorded.
WriteStatus_Reread ==
  /\ job.pc = "status"
  /\ LET stored == Stored(ksd[job.d]) IN
     ksd' = [ksd EXCEPT ![job.d] = Push(@, [stored EXCEPT !.updatePending = FALSE,
                                                          !.applied = stored.gen])]
  /\ job' = Idle
  /\ UNCHANGED <<environment, ctx, orphans, history, faults>>

\* Mutant: the whole object is written, with the spec it was read with.
WriteStatus_WholeObject ==
  /\ job.pc = "status"
  /\ ksd' = [ksd EXCEPT ![job.d] = Push(@, [job.copy EXCEPT !.updatePending = FALSE,
                                                             !.applied = job.gen])]
  /\ job' = Idle
  /\ UNCHANGED <<environment, ctx, orphans, history, faults>>

\* Mutant: updatePending is not taken back.
WriteStatus_StillPending ==
  /\ job.pc = "status"
  /\ LET object == [job.copy EXCEPT !.applied = job.gen] IN
     IF job.copyFresh /\ object # Stored(ksd[job.d])
       THEN ksd' = [ksd EXCEPT ![job.d] = Push(@, object)] ELSE ksd' = ksd
  /\ job' = Idle
  /\ UNCHANGED <<environment, ctx, orphans, history, faults>>

\* Likewise the status of the deployment object; then the worker is free.
WriteStatus ==
  /\ job.pc = "status"
  /\ LET object == [job.copy EXCEPT !.updatePending = FALSE,
                                    !.applied = job.gen]
     IN \/ /\ job.copyFresh
           /\ ksd' = [ksd EXCEPT ![job.d] = IF object = Stored(@) THEN @
                                                   ELSE Push(@, object)]
           /\ faults' = faults
        \/ /\ ~job.copyFresh
           /\ UNCHANGED <<ksd, faults>>
        \/ /\ job.copyFresh
           /\ Fault
           /\ ksd' = ksd
  /\ job' = Idle
  /\ UNCHANGED <<environment, ctx, orphans, history>>

-----------------------------------------------------------------------------
(* The informer caches, the users and the rest of the cluster. *)

SyncKsd(d) ==
  /\ Len(ksd[d]) > 1
  /\ ksd' = [ksd EXCEPT ![d] = Tail(@)]
  /\ UNCHANGED <<environment, ctx, orphans, job, history, faults>>

SyncContext(v) ==
  /\ Len(ctx[v]) > 1
  /\ ctx' = [ctx EXCEPT ![v] = Tail(@)]
  /\ UNCHANGED <<environment, ksd, orphans, job, history, faults>>

\* Somebody (a user or gitops-operator) changes the spec.
Edit(d) ==
  /\ Stored(ksd[d]).gen + 1 \in Generations(d)
  /\ LET newer == [Stored(ksd[d]) EXCEPT !.gen = @ + 1]
     IN  ksd' = [ksd EXCEPT ![d] = Push(@, newer)]
  /\ job' = TouchKsd(d)
  /\ UNCHANGED <<environment, ctx, orphans, history, faults>>

\* The operator's pod restarts: the reconciliation is gone, the caches are
\* listed again.  A restart while the worker is idle is only a few syncs.
Crash ==
  /\ Busy
  /\ Fault
  /\ job' = Idle
  /\ ksd' = [d \in Deployments |-> <<Stored(ksd[d])>>]
  /\ ctx' = [v \in Versions |-> <<Stored(ctx[v])>>]
  /\ UNCHANGED <<environment, orphans, history>>

CreateProject == /\ ~project
                 /\ project' = TRUE
                 /\ UNCHANGED <<service, api, ksd, ctx, orphans, job, history, faults>>

DeleteProject == /\ project
                 /\ Fault
                 /\ project' = FALSE
                 /\ UNCHANGED <<service, api, ksd, ctx, orphans, job, history>>

CreateService == /\ ~service
                 /\ service' = TRUE
                 /\ UNCHANGED <<project, api, ksd, ctx, orphans, job, history, faults>>

DeleteService ==
  /\ service
  /\ Fault
  /\ service' = FALSE
  /\ orphans' = {v \in Versions : Stored(ctx[v]).exists}
  /\ UNCHANGED <<project, api, ksd, ctx, job, history>>

\* The garbage collector deletes a context whose owner is gone.
CollectContext(v) ==
  /\ v \in orphans
  /\ orphans' = orphans \ {v}
  /\ ctx' = [ctx EXCEPT ![v] = Push(@, NoContext)]
  /\ job' = TouchContext(v)
  /\ UNCHANGED <<environment, ksd, history, faults>>

Outage == /\ api
          /\ Fault
          /\ api' = FALSE
          /\ UNCHANGED <<project, service, ksd, ctx, orphans, job, history>>

Recover == /\ ~api
           /\ api' = TRUE
           /\ UNCHANGED <<project, service, ksd, ctx, orphans, job, history, faults>>

-----------------------------------------------------------------------------
Reconcile(d) ==
  \/ ProjectMissing(d)
  \/ ProjectFound(d)
  \/ ServiceMissing(d)
  \/ ServiceFound(d)
  \/ CreateContext(d)
  \/ Trigger(d)

Next ==
  \/ \E d \in Deployments : Reconcile(d) \/ TriggerAnswerLost(d)
                            \/ SyncKsd(d) \/ Edit(d)
  \/ \E v \in Versions : SyncContext(v) \/ CollectContext(v)
  \/ WriteContext
  \/ WriteStatus
  \/ Crash
  \/ CreateProject
  \/ DeleteProject
  \/ CreateService
  \/ DeleteService
  \/ Outage
  \/ Recover

Spec == Init /\ [][Next]_vars

\* Every path of Reconcile requeues the request, so each deployment is taken
\* up again and again by the worker, between the jobs of the others: strong
\* fairness.  Started reconciliations run on, caches catch up, the garbage
\* collector runs, and whoever takes a prerequisite away brings it back.
Fairness ==
  /\ \A d \in Deployments : SF_vars(Reconcile(d)) /\ WF_vars(SyncKsd(d))
  /\ \A v \in Versions : WF_vars(SyncContext(v)) /\ WF_vars(CollectContext(v))
  /\ WF_vars(WriteContext)
  /\ WF_vars(WriteStatus)
  /\ WF_vars(CreateProject)
  /\ WF_vars(CreateService)
  /\ WF_vars(Recover)

FairSpec == Spec /\ Fairness

-----------------------------------------------------------------------------
(* Properties. *)

\* Type invariant: objects, caches, the worker and the history have their
\* types, and every object has a cached and a stored version.
TypeOK ==
  /\ project \in BOOLEAN
  /\ service \in BOOLEAN
  /\ api \in BOOLEAN
  /\ DOMAIN ksd = Deployments
  /\ \A d \in Deployments : ksd[d] \in Seq(KsdObjects(d)) /\ ksd[d] # <<>>
  /\ ctx \in [Versions -> Seq(ContextObjects) \ {<<>>}]
  /\ orphans \subseteq Versions
  /\ job \in Jobs \cup {Idle}
  /\ minted \in Contexts
  /\ events \subseteq Events
  /\ DOMAIN last = Deployments
  /\ \A d \in Deployments : last[d] \in {0} \cup Generations(d)
  /\ faults \in 0..MaxFaults

\* Every hash the context object records for a stage is the hash of a spec
\* with an accepted event for that stage.
ContextCovered(object, accepted) ==
  \A stage \in Stages :
    object.hash[stage] # NoHash =>
      \E e \in accepted : /\ StageOf[e.d] = stage
                         /\ Plan[e.d][e.gen] = object.hash[stage]

\* The hash the deployment object records is that of an accepted event of d.
KsdCovered(d, object, accepted) ==
  object.applied # 0 => \E e \in accepted : e.d = d /\ e.gen = object.applied

\* A context never claims more than was done: a hash recorded for a stage, in
\* the stored object or in any version a cache may still serve, is the hash
\* of a spec whose event Keptn accepted for that stage, whatever crashed,
\* conflicted or was lost in between (otherwise the deployment is skipped).
RecordedWasSent ==
  \A v \in Versions : \A i \in 1..Len(ctx[v]) : ContextCovered(ctx[v][i], events)

\* The deployment object's own claim, status.lastAppliedHash, likewise.
AppliedWasSent ==
  \A d \in Deployments : \A i \in 1..Len(ksd[d]) : KsdCovered(d, ksd[d][i], events)

\* A cache only moves forward: the versions it has yet to see are of its
\* generation or newer ones, and no event was for a generation it had not
\* reached.  So an older spec is never triggered after a newer one.
CacheMovesForward ==
  \A d \in Deployments :
    /\ \A i, j \in 1..Len(ksd[d]) : i <= j => ksd[d][i].gen <= ksd[d][j].gen
    /\ last[d] <= Cached(ksd[d]).gen

\* The worker's copies are those of the event it sent: what it is about to
\* record was accepted, and a copy it may still write is of the generation
\* the server stores.
JobFollowsEvent ==
  Busy =>
    /\ job.copy.gen = job.gen
    /\ \E e \in events : e.d = job.d /\ e.gen = job.gen
    /\ KsdCovered(job.d, job.copy, events)
    /\ ContextCovered(job.view, events)
    /\ job.copyFresh => Stored(ksd[job.d]).gen = job.gen

\* What the controller promises: see DeploymentTrigger.
Abstract == INSTANCE DeploymentTrigger
  WITH wanted <- [d \in Deployments |-> Stored(ksd[d]).gen], sent <- last
ImplementsTrigger == Abstract!Spec

\* Without faults and with fresh caches no generation is triggered twice.
TriggeredOnce ==
  [][~Busy /\ Busy' => \A e \in events : e.d = job'.d => e.gen # job'.gen]_vars

\* All events of one version carry one Keptn context, whatever the stage:
\* that is what the context object of the version is for.
OneTracePerVersion ==
  \A e, f \in events :
    Plan[e.d][e.gen].version = Plan[f.d][f.gen].version => e.kc = f.kc

\* The spec Keptn was last asked to deploy for d; NoHash if it never was.
LastSpec(d) == IF last[d] = 0 THEN NoHash ELSE Plan[d][last[d]]

\* Once edits and faults stop, the last event accepted for every deployment
\* is for the spec stored now, and the controller stops sending: no spec is
\* missed and no stage is deployed over and over.  (Specs must not return to
\* an earlier value and stages must differ: see the README.)
Converges ==
  <>[](~Busy /\ \A d \in Deployments : LastSpec(d) = Plan[d][Stored(ksd[d]).gen])

\* README.md:64 of the repository: a KeptnServiceDeployment "specifies the
\* deployed version of a service".  So, once edits stop, the version Keptn was
\* last asked to deploy is the version the object specifies.
SpecifiesDeployedVersion ==
  \A d \in Deployments :
    <>[](last[d] # 0
         /\ Plan[d][last[d]].version = Plan[d][Stored(ksd[d]).gen].version)
=============================================================================
