# A TLA+ model of the Keptn GitOps operator

This directory specifies and checks the protocols of `keptn-gitops-operator`: what its
controllers and its promotion service read, write, send and push, in which order, and what
holds when caches lag, calls fail, answers are lost and processes restart. It assumes a
reader who has the repository at hand; paths are relative to its root.

## 1. The system

Two Kubernetes operators and one Keptn service, connected by Kubernetes objects, git
repositories and the Keptn API:

```
 code repository ──clone──> gitops-operator ──objects──> Kubernetes API ──cache──> keptn-operator
                                  │ artifacts, tags                                   │ projects, services,
                                  v                                                   │ shipyards, events
                        upstream repository <──shipyard.yaml──────────────────────────┤
                                  ^ stage branches                                    v
                                  └──────── promotion service <──promotion.triggered── Keptn
```

| Component | State it keeps | Operations | What is hard | What makes it correct |
|---|---|---|---|---|
| KeptnServiceDeployment controller (`keptn-operator/controllers/keptnservicedeploymentcontroller`) | deployment status (`projectExists`, `serviceExists`, `updatePending`, `lastAppliedHash`); per version a `KeptnDeploymentContext` with a hash per stage and the Keptn context | check prerequisites, create the context, send the deployment event, record it in two objects | stale caches, write conflicts, a restart between event and record, lost answers, several stages sharing a context | never records what was not sent; never triggers an older spec after a newer one; in the end the last spec is the one triggered, and triggering stops |
| Promotion service (`promotion-service`) | a mutex; the upstream repository | started event, validation, clone tag and stage branch, commit, push, retries, finished event | concurrent events, pushes of others, failed and unanswered calls, panics | one event protocol per task; pass only if promoted; no commit lost; every event answered |
| KeptnGitRepository controller (`gitops-operator/controllers`) | `status.lastCommit` | clone, parse manifests, create or update objects one at a time, deliver artifacts, record the commit | partial failure, stale caches, restarts | a recorded commit is an applied commit |
| Artifact delivery (`utils_artifactdelivery.go`, `common/git.go`) | `base/`, `stages/` and tags of the upstream repository | compare tags, copy, commit, delete and create tags, two pushes | failures between the pushes, concurrent pushes, random map order | a tag that exists is complete; a version goes only when a commit allows it (limits: section 3) |
| KeptnStage and KeptnProject controllers, `pkg/utils/shipyard.go` | the `KeptnShipyard` object | compose the shipyard from stages and sequences, write it | two writers, compose-then-read | the object ends up as the composition of the current stages |
| KeptnShipyard controller | a ConfigMap with the hash of the last pushed spec | push `shipyard.yaml`, record the hash | restart between push and record, other writers of the repository | what is recorded as pushed is what the repository has |
| KeptnProject and KeptnService controllers | `status.projectExists`, finalizers, owner references | create and delete in Keptn | deletion that fails, outages taken for absence | an object disappears only after its counterpart in Keptn; what stays is kept in Keptn |
| KeptnSequenceExecution controller | `projectExists`, `serviceExists`, `updatePending`, `lastAppliedHash` | trigger a sequence | as for deployments; a token that is not accepted looks like a missing service | the last spec is the one triggered, and an unchanged one no more often than faults force |
| KeptnScheduledExec controller | `started` | create an execution when its time comes, take the note back when the time is moved | the note does not say which time was served | nothing early, nothing for a time given up, no time twice or never |
| KeptnInstance controller | `status.currentToken`, `status.lastUpdated` | read the secret, encrypt and store the token | an unreadable secret, a comparison of a value with itself | a new token is followed |
| Files of a promotion (`promotion-service/pkg/utils/githandler.go`) | none: pure | merge Helm values, move directories | nested maps, lists, nulls, files on both sides | what the stage sets wins, nothing is lost, nothing else appears |
| KeptnSequence controller | none | none: its Reconcile changes nothing | | |
| keptn-gitops-secrets, charts, samples, generated code | none | | | not modelled |

`PROJECT.json` lists every component with its status, and under `hazards` the places where the
code can go wrong in a way a test would hardly reach, each with the properties that watch it.

## 2. Modules

| Module | Models | Proofs |
|---|---|---|
| `KeptnServiceDeployment` | the deployment controller with its caches, the Keptn API and the environment | `KeptnServiceDeploymentProofs` |
| `DeploymentTrigger` | abstract: what the deployment controller promises | |
| `PromotionService` | the promotion service, the stage branches and the tags | `PromotionServiceProofs` |
| `TaskProtocol` | abstract: what Keptn expects of a service that executes tasks | |
| `PromotedFiles` | the files of a promotion: the merge of Helm values and the move of directories, as functions, next to a statement of them path by path | `PromotedFilesProofs` |
| `GitRepositorySync` | the gitops-operator: manifests applied in order, artifacts, tags and the recorded commit | `GitRepositorySyncProofs` |
| `ProjectShipyard` | the stage, project and shipyard controllers around one project and its shipyard | `ProjectShipyardProofs` |
| `ClusterObjects` | what the modules below share: versions of an object, writes, decisions on a cache, disturbances | `ClusterObjectsProofs` |
| `KeptnInstance` | the API token: secret, status, age | |
| `KeptnService` | the life of a service object and of the service in Keptn | |
| `KeptnSequenceExecution` | the controller that triggers sequences | |
| `KeptnTasks` | the composition of these three with a project that comes and goes | `KeptnTasksProofs` |
| `KeptnScheduledExec` | scheduled executions against a clock | `KeptnScheduledExecProofs` |
| `MCKeptnServiceDeployment`, `MCPromotionService`, `MCGitRepositorySync`, `MCProjectShipyard`, `MCKeptnTasks`, `MCKeptnScheduledExec` | instances for TLC | |

### KeptnServiceDeployment

State. A controller reads objects from an informer cache that follows the API server with a
delay and writes with the `resourceVersion` it read. An object is a sequence of versions: the
head is what the cache shows, the last what the server stores, and a write by the controller
succeeds only when the sequence has length one, or, once a reconciliation has started to trigger,
only when nobody has written since it read (`copyFresh`, `viewFresh` in `job`). `MaxLag` bounds
the length.

| Action | Code (`keptnservicedeployment_controller.go`) |
|---|---|
| `ProjectMissing`, `ProjectFound`, `ServiceMissing`, `ServiceFound` | the four early returns of `Reconcile`, each one status write (98-137) |
| `CreateContext` | creation of the context object with its owner reference (144-163) |
| `Trigger` | decision (165-169) and `triggerTask` with a good answer |
| `TriggerAnswerLost` | the same when the answer is lost or unreadable (319-336) |
| `WriteContext`, `WriteStatus` | the two status writes after the event (175-188), whose errors are only logged |
| `Edit`, `Crash`, `CollectContext`, `Outage`, ... | users, restarts, garbage collection and the Keptn API |

A path of `Reconcile` that writes and sends nothing is a stuttering step. The generation `gen`
stands for the spec: `Plan[d][gen]`. The hash of a spec is the spec itself, i.e.
`hashstructure` is taken to be injective. `updatePending` is set in the same write that
clears `projectExists` or `serviceExists`, as in the code.

### PromotionService

State. `pc[p]` follows the handler of event `p`; `holder` is the mutex of `main.go`; `branch[s]`
is the history of a stage branch as the authors of its commits; `base[p]` is the length of the
branch a handler cloned, so that a push is a fast-forward iff `base[p] = Len(branch[s])`; `tags`
are the artifact versions present upstream; `unanswered` the promotions whose push was taken without an
answer. The branch of a stage in `NewStages` may be missing (`<<>>`); `Defect` says which promotions
have an unreadable payload or wrong credentials.

| Action | Code |
|---|---|
| `Deliver`, `Lock`, `Return`, `Panic` | `main.go:70-75` and the receiver of the CloudEvents SDK, which recovers panics |
| `RejectPayload`, `SendStarted`, `Validate` | `eventhandlers.go:26-71` |
| `CloneTag`, `TagMissing`, `CloneBranch`, `BranchMissing`, `Push`, `PushRejected`, `PushAnswerLost`, `CallFails` | `githandler.go:79-174` |
| `DecryptionPanics` | wrong credentials are an error, or a panic for a key without a PEM block (`decrypt.go:40`) |
| `AttemptFails`, `Succeed` | the retry loop, `eventhandlers.go:73-86`, with the dereferenced nil error of line 80 |
| `SendFailed`, `SendPassed` | the finished events, `eventhandlers.go:80-94` |

The contents of a commit are abstracted to their author. Keptn delivers an event once.

### PromotedFiles

A values file is a tree of maps, lists and atoms, a directory a function from paths to contents.
`Merge` is `merge` (`githandler.go:346-373`), which returns its result and also changes maps in
place; `Manipulate` drops the result, so at the top level a list is not appended and a null not
replaced. `PerformFileMove` moves the files under `base/<service>` and then those under
`stages/<stage>/<service>` to what follows the first occurrence of the service's name in their
path (`Rest` has the names that contain it, with what follows it there). `Expected` and `Completes`
state the same path by path, without recursion over two trees.

`Trees` are the values the files are made of with all their subtrees, `Depth` a number that
falls from each to those inside it, as it does in whatever a YAML document unmarshals to. `Merge` is a
recursive function on pairs of them: the induction on `Depth` proves that it is defined.

### GitRepositorySync

State. `Commits` are the commits of the code repository: a spec per object and a tag per service,
with `overwriteTag`. `objects[o]` and `recorded` (`status.lastCommit`) are sequences of versions
as above (`ObjectLag`, `StatusLag`); a version of an object is its annotation `last-applied-hash`. `main` is the upstream
branch, a commit saying which code commit the directories of each service come from; `tags` are
the upstream tags. `job` is the one reconciliation in flight, with its clone of the upstream
repository (`branch`, `refs`) and the variable `serviceTagExists` (`sticky`).

| Action | Code |
|---|---|
| `Begin` | clone of the code repository and comparison with the status (`keptngitrepository_controller.go:78-119`) |
| `Unchanged`, `Create`, `Update`, `UpdateRefused`, `PanicOnBare` | `checkCreate...` and `reconcile...`, the same code for each kind of object (`utils_keptn*.go`) |
| `StartDelivery`, `SkipService`, `ComposeService`, `FinishDelivery`, `DeliveryFails` | `deliverArtifacts` and `composeData` (`utils_artifactdelivery.go:34-125`) |
| `DeleteTag`, `PushBranch`, `PushRefused`, `PushTags` | `CommitAndPushUpstream` and `DeleteTag` (`common/git.go:97-191`) |
| `Record`, `CallFails` | `updateStatusResult` and the error returns of `Reconcile` |
| `Commit`, `ForeignPush`, `Crash`, `SyncObject`, `SyncRecorded` | developers, other writers of the upstream repository, restarts, informers |

The status is written with the version read at the start (`fresh`), an object with the version
read just before. The services of a commit are delivered in any order, as the iteration over the
Go map. `TagExists` finds the annotated tags whose commits are in the cloned branch: by
`TagsAreTraceable` these are all of them. `scheduledexec` manifests are parsed and never applied,
and an object that disappears from the manifests stays: the code has no step for either.

### ProjectShipyard

State. `sources` are the versions of the two lists a shipyard is composed from, stages and
sequences, as the cache shows them; `Composable` says which versions fit together (a stage that
names a missing sequence makes the composition fail), `Orders` in which order the cache may list
the stages. `project`, `shipyard` and `record` (the ConfigMap with the hash) are sequences of
versions as above, with `None` for no object; `keptn` and `repo` are the project in Keptn and
`shipyard.yaml` in its repository. Each of the three controllers has one job, from the moment it
has composed a shipyard, started a deletion or chosen what to push. `orphans` are the objects
whose owner is gone, until the garbage collector removes them.

| Action | Code |
|---|---|
| `StageCompose`, `StageWrite` | `Reconcile` of the stage controller (`keptnstage_controller.go:65-100`) with `CreateShipyard` and `UpdateShipyard` (`pkg/utils/shipyard.go`) |
| `AddFinalizer`, `Forget`, `CreateInKeptn`, `Know`, `ProjectCompose`, `ProjectWrite` | `Reconcile` of the project controller (`keptnproject_controller.go:94-192`) with `createProject` |
| `DeleteInKeptn`, `DeletionAnswerLost`, `Release` | its deletion branch (107-126) with `deleteKeptnProject` (204-223) |
| `CreateRecord`, `KnowProject`, `StartPush`, `PushShipyard`, `NoCredentials`, `WriteRecord` | `Reconcile` and `updateShipyard` of the shipyard controller (`keptnshipyard_controller.go:81-249`) |
| `EditSource`, `CreateProject`, `DeleteProject`, `ExternalDeletion`, `CollectShipyard`, `CollectRecord`, `Crash`, `CallFails`, `Sync...` | users, Keptn, garbage collection, restarts and informers |

Two branches of the code have no step. The status of a shipyard is a subresource, so the hash
`UpdateShipyard` and `CreateShipyard` put into it is never stored, the comparison is always with an
empty hash, and every reconciliation writes the object (a write without a change makes no version).
`CheckKeptnProjectExists` returns an error when it finds no project, so the branch of the shipyard
controller for a missing project is not reached. After adding the finalizer the code goes on with
the object it has written; the model looks at it again when the cache shows it.

### KeptnTasks: KeptnInstance, KeptnService, KeptnSequenceExecution

How a sequence execution gets to Keptn. The controllers share the token in the status of the
KeptnInstance, the status of the project, and the service in Keptn. `KeptnTasks` instantiates the
three modules, gives each controller the state of the others to read and none to write
(`OnlyInstance`, `OnlyService`, `OnlyExecution`), and adds users, Keptn and faults.

| Action | Code |
|---|---|
| `Instance!Refresh`, `Age` | `Reconcile` of the instance controller (`keptninstance_controller.go:65-129`): the status is overwritten before it is compared, so only its age makes it write |
| `Instance!GetKeptnCPToken` | `pkg/utils/keptn.go`: an error is logged and leaves the empty string |
| `Service!AddFinalizer`, `ProjectMissing`, `ProjectFound`, `CreateService` | `Reconcile` of the service controller (`keptnservice_controller.go`) with `createService` |
| `Service!DeleteInKeptn`, `DeletionFails`, `Release` | its deletion branch with `deleteKeptnService`, which reads no HTTP status |
| `Execution!ProjectMissing`, `ProjectFound`, `ServiceMissing`, `ServiceFound` | the early returns of `Reconcile` (`keptnsequenceexecution_controller.go:103-157`), each one status write |
| `Execution!Trigger`, `TriggerAnswerLost`, `WriteStatus` | decision, `triggerTask` and the status write (159-174) |
| `KnowProject`, `ForgetProject`, `CreateProject`, `DeleteProject` | the project, which `ProjectShipyard` models in full |
| `Rotate`, `LoseSecret`, `DeliverSecret` | Keptn and whoever maintains the secret |

`Answers` says that requests carry a token header at all, `Serves` that Keptn accepts the token.
A decision on an outdated copy is a disturbance of its own (`Decide`), so that an instance with
few disturbances has it on its own or with one other. `Disturbances` is a set of pairs of a kind and
a number: as many disturbances of a kind as it has pairs, and the theorems hold for every finite set.
The variant of the instance controller with a token in the spec is that with a secret that is never
missing.

### KeptnScheduledExec

State. A clock, the versions of the object (`start`, `started`), the one reconciliation in flight
with its copy, the number of executions created for each start time, and `withdrawn`, the start
times that were given up before they had passed.

| Action | Code (`keptnscheduledexec_controller.go`) |
|---|---|
| `Reset` | the note is taken back when the start time is ahead (79-86) |
| `Decision`, `CreateExecution`, `WriteStarted` | an execution with a generated name and the note that it was created (88-115) |
| `Tick` | time; the controller gets to look at the object between two ticks unless it is late |
| `Reschedule`, `Touch` | users: the start time is moved ahead, something else is changed |

A start time is ahead or has passed as `time.After` and `time.Before` say: at the very time
neither holds and nothing happens.

## 3. Runs

Every property of a passing run has a mutant: an operator next to the definition it replaces,
with the change a plausible bug would make, under which TLC finds the property violated.

| Run | Shows | Bounds |
|---|---|---|
| `ksd_safety` | types, true records, caches that only move forward, refinement of `DeploymentTrigger`; the last spec is triggered in the end and triggering stops | one deployment, three specs, caches one version behind, two faults of any kind |
| `ksd_shared` | two stages that share a context object trigger each generation once, with one Keptn context per version, and come to rest | two deployments with two specs each, fresh caches, no faults |
| `ksd_rollback` (violation) | a spec that returns to an earlier version is not triggered | one deployment, v1, v2, v1 |
| `promotion_safety` | types, mutual exclusion, refinement of `TaskProtocol`, no commit lost, a promotion reported as failed left its stage alone unless the answer to its push was lost, every event is answered; the files of a promotion | four promotions, one without credentials and one unreadable, two stages of which one may have no branch yet, two retries, two disturbances of any kind; values files up to three levels deep over two keys with a list and a null, all directories of two files on either side |
| `promotion_retry` (violation) | a promotion that succeeds on a retry is not reported | two promotions, one foreign commit, six retries |
| `sync_safety` | what is recorded is applied; tags belong to pushed commits with their version; only a version that may be overwritten is deleted and pushed anew | three commits, the second replacing a version, an object before and one after the delivery, two services, caches one version behind, two disturbances of any kind, an object of a user without annotations, no reconciliation once the upstream branch has five commits (`MaxBranch`) |
| `sync_live` | no commit is recorded before its tags are upstream; the newest ends up recorded, applied and delivered, a replaced version included | three commits, objects cached one version behind, two restarts |
| `sync_newservice` (violation) | a new service next to a replaced one is not delivered and recorded as successful | two commits, no disturbance |
| `shipyard_safety` | an undisturbed repository has the shipyard that is recorded; a deleted project leaves nothing in Keptn unless Keptn refuses; record and repository follow the stages in the end | one project, created, deleted and created again; two versions of each list, of which only equal ones fit; caches one version behind; one disturbance of any kind, once |
| `shipyard_refusal` (violation) | a project whose deletion Keptn refuses stays in Keptn, and its object goes | one version, fresh caches, two orders of the stages, one refusal |
| `tasks` | a service that is gone left nothing in Keptn unless Keptn refused; an event more costs a disturbance; refinement of `DeploymentTrigger`; a service that stays is in Keptn, its last spec is the one executed, and a new token is followed | one service, deleted once, one execution whose spec is edited once, two tokens, caches one version behind, one disturbance of any of eleven kinds, once |
| `schedule` | nothing is started early or for a time given up, a disturbance costs one execution at most, and the last start time is served | five start times, three changes, cache one version behind, three disturbances of any of six kinds, restarts and stale decisions also twice |

Why the bounds are enough: every fault is a single step whose effect shows within one
reconciliation; two of them (or one with a stale cache) already meet in one reconciliation; a
cache one version behind makes every decision on an outdated object possible, and two actors
per shared object make every order of two writes possible. In `tasks` two disturbances would
take TLC too long; what one of them does to three controllers is already different at each of
their steps, and a stale decision needs none of the others. `ksd_safety` has one deployment:
two with a lagging cache and faults are what the theorems are for, and `ksd_shared` adds the shared
context. The two properties about files are about constants, so TLC evaluates them in one
initial state. The theorems of section 5 hold without any of these bounds. Runs check deadlock only where the system never rests: here all of
them may rest, as their configurations say.

Findings:

* `ksd_rollback`: README.md:64 says a KeptnServiceDeployment "specifies the deployed version of a
  service"; a rollback to a version that was deployed before is never triggered.
* `promotion_retry`: `eventhandlers_test.go:63` expects a successful promotion to send a finished
  event; after a retry it panics at `eventhandlers.go:80` with the mutex locked.
* `sync_newservice`: a commit is recorded with the result `Successful`, "the value for a successful
  action" (`keptngitrepository_types.go:24`), although its artifacts were not delivered: because
  errors of the delivery are only logged (`keptngitrepository_controller.go:168`), and because
  `serviceTagExists` (`utils_artifactdelivery.go:50`) is not reset between services. A foreign
  commit that makes the push fail has the same effect.
* `shipyard_refusal`: `keptnproject_controller.go:112` promises to retry "if fail to delete the
  external dependency"; an HTTP answer of any status counts as success.

Limits met on the way. `RecordedMeansApplied` needs specs that do not return to an earlier value:
a cache that still shows the first of three specs x, y, x hides the other two. With a lagging
status a finished commit is delivered again, and a restart between the deletion of its tag and the
push then loses the version: `sync_live` therefore has a fresh status (`StatusLag = 0`). It also
brings a new object that is applied after the delivery only with a commit that replaces nothing:
each reconciliation that finds it missing in a stale cache delivers the artifacts again, so a
replaced version is deleted and pushed anew and the upstream branch grows until the cache catches
up. This repetition is also why `sync_safety` needs `MaxBranch`.

The shipyard is pushed before its hash is recorded and never compared with the repository. The
repository may therefore keep an old shipyard for good, with a record that says otherwise: when a
push goes unrecorded (restart, failed or unanswered call, a record read from a stale cache) and the
shipyard then returns to what was recorded, or when somebody else deletes the project in Keptn,
which creates it anew with the initial shipyard. The repository promises nothing for these cases;
`ShipyardFollowsStages` leaves them out and `RecordFollowsStages` keeps them in. The order of the
stages comes from the cache and is random; `shipyard_safety` has one order, and the properties ask for
some order.

A sequence execution whose spec goes from x to y and back to x while the status write for y is
in flight keeps x as its last applied hash, and y stays the sequence that was last executed: TLC
finds it with the plan x, y, x, and `tasks` has a spec that is edited once.

The note of a scheduled execution does not say which start time was served, and is taken back only
while the new time is ahead. If the operator is late, a moved start time may never be served
(`EveryTimeIsServed` leaves the disturbance "late" out), and a start time that has been served and
is moved to another time in the past never is: users move starts ahead in the model.

A promotion moves files to what follows the first occurrence of the service's name in their path:
with service `svc` and stage `svc-eu` the files of the stage arrive below another directory.
`PromotedIsComplete` has a stage whose name does not contain that of the service (`NamesAreApart`);
with the other it is violated.

The label `version` of an execution is looked up under the name `undefined`
(`keptnsequenceexecution_controller.go:241`), so the event never carries it; payloads are not modelled.

## 4. Fairness

* `KeptnServiceDeployment`: every path of `Reconcile` asks for another reconciliation, so a
  deployment is taken up again and again by the single worker, between the jobs of others: strong
  fairness for each `Reconcile(d)`. A started reconciliation goes on, informers deliver, the
  garbage collector runs (weak fairness). Prerequisites come back (weak fairness on creating the
  project and the service and on the recovery of the API): without a project nothing is promised.
  Edits, faults and lost answers have none.
* `PromotionService`: a running goroutine goes on (weak fairness per handler) and a free mutex is
  given to some waiter. Deliveries, restarts and other disturbances have none. In `promotion_retry`
  the handler is not stuck for want of fairness: after the panic no step of it exists.
* `GitRepositorySync`: every path of `Reconcile` asks for another one and its steps go on;
  informers deliver (weak fairness). The calls that fail are disturbances and bounded;
  `sync_live` allows restarts only, since a failed delivery is not repeated (see the findings), and
  has no object without annotations, over which the operator panics at every restart.
* `ProjectShipyard`: each controller is asked for again after every path (10 s, 30 s or 120 s),
  the informers of each kind of object deliver and the garbage collector runs (weak fairness).
  Users, deletions by others and disturbances have none.
* `KeptnTasks`: every path of each `Reconcile` asks for another one, time passes, informers deliver,
  and the secret gets the token Keptn accepts (weak fairness). A project that is in Keptn is found
  by its controller. Users and disturbances have none.
* `KeptnScheduledExec`: the object is looked at every 30 s and whenever it changes, informers
  deliver and time goes on (weak fairness). That the controller is done between two ticks is not
  fairness but urgency, and an operator that is late is a disturbance.
* `Converges` needs specs that do not return to an earlier value (see `ksd_rollback`) and
  stages that differ: two deployments of one service, version and stage with different specs
  overwrite each other's hash for ever.

## 5. Proofs

`tlapm` checks every theorem for all values of the constants that satisfy
`DeploymentAssumption`, `PromotionAssumption`, `SyncAssumption`, `ProjectAssumption`,
`ClusterAssumption`, `ScheduleAssumption` and `TasksAssumption` (types of the constants, `NoHash` not
a spec, `None` not an object, `Keptn` and `NoOne` not promotions, names for missing tokens that are
no tokens, finitely many disturbances of known kinds, at least one service to deliver, an `Order` with every
object and the delivery in it; in `FilesAssumption`, values files that nest finitely deep, paths that
are sequences of names, and file names among them). `RecordedIsApplied`, `ObjectsInvariance`,
`RecordedIsDelivered`, `TracesAreOne`, `OneTrace`, `NoGenerationTwice`, `NothingIsMissed`,
`PromotionIsComplete` and `PromotionCommitsAll` have hypotheses of their own, named below; each is
met by an instance above, and for each there is a counterexample without it.

* `KeptnServiceDeploymentProofs`: `TypeCorrect`; `Invariance`, the inductive invariant
  `TypeOK /\ RecordedWasSent /\ AppliedWasSent /\ CacheMovesForward /\ JobFollowsEvent`;
  `RecordsAreTrue`, `ClaimsAreTrue`, `CachesRise` and `WorkerIsConsistent`, its parts; `Refinement` (implements `DeploymentTrigger`). "Recorded was sent" is not
  inductive alone: what a write records comes from the job, so `JobFollowsEvent` must say that
  the job's event was accepted and its copies are covered; and that a fresh copy has the
  stored generation, so that no write takes a spec back, which `CacheMovesForward` and the
  refinement need. All of them speak of every cached version, not only the stored one, because a
  later write may start from any version the cache serves.
  `TracesAreOne` and `OneTrace` (`OneTracePerVersion`) hold where no cache lags (`MaxLag = 0`), the first
  until there is a fault, the second without faults. The event is sent before its context is
  recorded, so `Traced` says of every event that its version's context names the event's, or names
  none and the worker is about to write it there; and `JobIsCurrent` that this write is not refused and
  continues what is stored. A lag breaks it (the next event does not see the context yet), and so
  does a fault (a write that is lost). `NoGenerationTwice` (`TriggeredOnce`) needs also that no two
  deployments share a stage (`StagesDiffer`). TLC finds a counterexample without any one of these
  hypotheses. Its `OnceInv` follows the event of the stored generation
  from the worker to the record (`Working`, `Done`); `updatePending`, which would send it again,
  is set only when a prerequisite is missing (`NothingMissing`), and the worker's status write clears it
  unless a newer generation is stored by then (`NothingAhead`).
  `NothingIsMissed` is about caches of any lag and any faults: a spec that a context records is the
  one Keptn was last asked for (`SkippedIsDeployed`), so the reconciliation that skips it is right.
  The event the record was sent with is of this deployment, as stages differ; it is not newer than
  the last (`EventsPast`, the only new inductive part), which is not newer than the cached generation
  (`CacheMovesForward`); and what lies between two generations of one spec is that spec, as none
  returns (`NoGenerationReturns`). With `PlanRollback` it is violated.
* `PromotionServiceProofs`: `Invariance` (`TypeOK`, `Serialised`, reports that agree with the phase
  of every handler, attempts left while a handler may try), `TypeCorrect`, `MutualExclusion`,
  `NoCommitIsLost`, `Refinement` (implements `TaskProtocol`), `FailuresLeaveTheStage`. `TypeOK` bounds
  the attempts and is inductive only together with the attempts left. That a failed promotion
  left its stage alone needs that a handler on its way to a failure has no commit in the branch
  unless an answer was lost: after an answered push it can only pass or panic.
  `PromotionMergesRight` (`MergeIsRight`) and `PromotionCommitsAll` (`PromotedIsComplete`) are the
  theorems of the next module about the files it commits.
* `PromotedFilesProofs`: `MergeTerminates`, that `Merge` is a function with the result of its own
  step; `MergeFollowsPaths` (`MergesPaths`), that the result is right at every path; and
  `PromotionIsComplete` (`AllComplete`). The installed provers cannot use the induction theorems of
  the library, whose parameter is an operator; the inductions here are over a set instead: if the
  set of depths with a counterexample is not empty it has a least element (`LeastNumber`, from
  the well-foundedness of the order on numbers), and there the step of the induction ends the proof.
  The recursion is defined because partial solutions exist and agree up to any depth
  (`PartialExists`, `PartialIsUnique`). `NodesAreRight` is the invariant of the way down a path: below
  the top a node of the merge is the merge of the two nodes, until one of them ends the way.
  `PromotionIsComplete` needs `NamesAreApart`, for the first occurrence of the service's name in a path
  to be that of the service's directory (`ServiceIsFound`).
* `GitRepositorySyncProofs`: `Invariance` and its consequences `TypeCorrect`, `TagsAreTraced`
  (`TagsAreTraceable`) and `TagsMoveIfAllowed` (`OverwritesAreAllowed`). A push goes through only
  when the upstream branch is as long as the one that was cloned; that it then loses no tagged commit
  needs `CloneIsPrefix`: the clone continues the branch it was taken from. A tag pushed comes from the
  clone, so the clone's own tags must be traceable in the clone (`RefsAreTraceable`), and
  `RefsFollow` says in what the upstream tags may differ from the clone's by the time they are
  pushed: those the commit may replace, and those that are gone.
  `ObjectsInvariance` and `RecordedIsApplied` (`RecordedMeansApplied`): `DoneIsApplied` says of each
  step of `Order` already done that its object is stored as the commit wants it. A step is also done
  when the cached object needs no update, so `DoesNotHide` must exclude that the cache shows what the
  commit wants and the server something else, and for that every version comes from a commit that
  was already begun (`FromCommits`). This is where the hypothesis is needed: no spec returns to
  an earlier value (`NoSpecReturns`), or objects are read without a lag. TLC finds the counterexample
  without either. The instances satisfy it (`PlansGoForward`, checked by TLC).
  `RecordedIsDelivered` (`SuccessfulMeansDelivered`, which `sync_newservice` finds violated) holds when
  nothing but restarts disturbs (`OnlyRestarts`) and a service whose tag may be replaced is delivered
  alone (`OverwrittenAlone`). So the two defects behind the findings are the only ways to record a commit
  without its artifacts: a logged failure, and `serviceTagExists` left over from another service. Its `DeliveryInv` adds
  that the clone is current (`CloneIsCurrent`, so that no push is refused); that between two
  services the tags of the clone are upstream and each service not left to deliver has one
  (`DeliveryGoesOn`); and that they are there after the delivery (`DeliveredIsPresent`). No
  hypothesis is needed on the lag or on specs that return, and a restart between the deletion of a tag
  and its push is among the steps: the commit is not recorded then, and the next reconciliation
  delivers it.
* `ProjectShipyardProofs`: `ProjectInvariance`, `TypeCorrect` and `DeletionsReachKeptn`
  (`DeletedUnlessRefused`), from `KeptnIsHeld`: without a refusal, a project in Keptn has an object
  with a finalizer in every version from the cached one on. A creation decides on the cache, so
  its premise must hold of every version the cache may come to show (`KeptIsHeld`); and a
  finalizer about to be removed belongs to the current object, whose project is gone
  (`ReleaseIsFresh`). `Invariance` and `RecordsArePushed` (`RecordIsPushed`): the property is about a
  system without disturbances, yet a project that is deleted and created again has a new,
  empty repository next to an old record. So the record belongs to a shipyard, and the
  shipyard to a project that is in Keptn or on its way out for good, unless the garbage collector still
  has to remove them (`RecordIsOwned`, `ShipyardIsOwned`, `Begun`); a push that is not outdated
  has its record (`PushHasRecord`) and its shipyard in the repository (`PushIsRecorded`).
* `ClusterObjectsProofs`: lemmas on versions and disturbances for the modules that share them.
* `KeptnScheduledExecProofs`: `Invariance`, `TypeCorrect`, `StartsAreDue`, `ExecutionsAreAccounted`.
  `StartedOnce` compares the executions of a start time with the disturbances; the inductive
  `Accounted` also says how many fewer there are before an execution that is about to be created,
  and before the one a stored object still waits for, and `FreshCopy` that a copy nobody has
  outdated is the stored version. `NeverEarly` needs `NotWithdrawn` for every version a cache
  may show, and that without a late operator the cache is current whenever time goes on.
* `KeptnTasksProofs`: `Invariance`, `TypeCorrect`, `DeletionsReachKeptn` (`DeletedUnlessRefused`),
  `Refinement` (`ImplementsTrigger`), `AccountInvariance` and `TriggersArePaid`
  (`TriggersAreBounded`). The first property follows from "without a refusal, a service in
  Keptn has a stored object with a finalizer". Its induction needs: a controller that decides on an
  outdated copy still sees the finalizer (`KeptIsHeld`, about every cached version); a finalizer that
  is about to be removed belongs to an object being deleted that nobody has touched since
  (`ReleaseIsDue`), and its service is gone; and Keptn has accepted the token ever since the
  controller had one (`GoodToken`), as a deletion sent with a bad one counts as done. The
  refinement has an invariant of its own, `GenerationsOK`: later versions have later generations, no
  cached version is older than what was sent, and a copy nobody has outdated has the stored one.
  The bound on the events is not inductive: the record of a spec is lost, or a project vanishes, one or many steps before the
  event this costs. So the account adds to the events sent a `Debt` of those that may follow without
  another edit, deletion or disturbance (the `Budget`): one if the stored spec is still to be
  executed (`Owed`) or a prerequisite is missing, which sets `updatePending` (`Down`); one while the
  token Keptn accepts is about to be replaced by one it does not (`TokenIsLeaving`); and one while the
  service is about to be deleted in Keptn (`ServiceIsLeaving`). Every step that adds to events or debt takes
  as much from the debt or adds it to the budget. That one deletion by a user is one deletion in Keptn is
  `DeletedOnce`, about all versions the cache may still show.

Only model-checked: liveness (`Converges`, `EveryEventIsAnswered`, `Synchronises`,
`RecordFollowsStages`, `ShipyardFollowsStages`, `ServiceIsKept`, `TokenIsFollowed`,
`EveryTimeIsServed`) and whatever needs ENABLED, which are out of the prover's reach. Every other
property of a passing run is stated by a theorem.

## 6. Not modelled, and assumptions

* One API server and one Keptn; one replica of each operator (leader election is theirs).
* Deletion of KeptnServiceDeployment objects; `status.keptnContext`, which nothing reads.
* Users who edit or delete the objects the gitops-operator applies, or the KeptnGitRepository; tags
  made by others. `git push --delete` runs the git command line, with the credentials of the URL
  only: that it fails is one of the failed calls.
* `git add` that fails in a promotion is only logged (`githandler.go:149-154`): the commit that follows may
  be empty and the promotion passes. The model's commit has the files.
* The files of a stage that the code repository no longer has stay upstream (`cleanupServiceDirs`,
  `fileutils.go:159-172`, removes those of the stages it still has): the content of the upstream
  branch is abstracted to the commit each service was last copied from. A delivery that stops because
  the KeptnProject, the stages or a chart directory is missing is `DeliveryFails`, as every error of `deliverArtifacts` has the same effect.
* The ConfigMap that `StartPush` reads may be stale. That is a disturbance, thus bounded: it costs a
  push whose record is refused, one of the pushes that go unrecorded (section 3).
* `Instance!Refresh` is one step: only this controller writes the status, and a change of the
  secret after it was read is one after the step. A write that fails is a step not taken, as `due`
  stays. `Service!AddFinalizer` merges the write of the object and that of its status; the version
  between them is the one with `known = FALSE`. `Execution!Trigger` merges the lookup of the service
  and the POST: a service deleted in between is one deleted right after an event that Keptn takes, and
  an event it refuses is a step not taken.
* Formatting, logging, cryptography, HTTP details below "accepted, answered"; the payload of events.
* The stages of a service: whether Keptn has it is one bit. `checkIfServiceExists` looks into the
  first stage only, and what a creation does in several stages is Keptn's.
* The version that `ReplaceInFile` writes into `values.yaml`, and the text of a chart.
* The KeptnSequence controller, whose Reconcile changes nothing; the command line
  `keptn-gitops-secrets`; set-up, charts, samples and generated code (`PROJECT.json` has the reasons).

## 7. Plan

1. Done: deployments, promotions and their files, `GitRepositorySync`, `ProjectShipyard`, `KeptnTasks`,
   `KeptnScheduledExec`, and proofs of their safety properties, those of the functions on files included.
2. Composition of artifact delivery and promotion: the tag a promotion clones is one that was
   delivered.
