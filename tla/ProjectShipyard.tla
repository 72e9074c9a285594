--------------------------- MODULE ProjectShipyard ---------------------------
(***************************************************************************)
(* keptn-operator: the life of one KeptnProject and of its shipyard.  The  *)
(* controllers of stages and of projects compose the KeptnShipyard object  *)
(* from the KeptnStage and KeptnSequence objects; the project controller   *)
(* creates and deletes the project in Keptn; the shipyard controller       *)
(* pushes the shipyard to the upstream repository and records its hash in  *)
(* a ConfigMap.  Each controller has one worker.                           *)
(*                                                                         *)
(* An object is the sequence of its versions from the cached one (head) to *)
(* the stored one (last), as in KeptnServiceDeployment.                    *)
(***************************************************************************)
EXTENDS Integers, Sequences, FiniteSets

CONSTANTS
  Inputs,          \* the lists a shipyard is composed from
  MaxVersion,      \* bound on the versions of each list
  Composable,      \* the versions of the lists that fit together
  Orders,          \* orders in which a cache may list the stages
  None,            \* no object; nothing pushed
  NotYet,          \* the hash "none" of a new ConfigMap
  Initial,         \* the shipyard Keptn puts into a new project
  Lag,             \* Lag[k]: versions the cache of objects of kind k may be behind
  MaxDeletions,    \* bound on the deletions of the project
  Disturbances,    \* what may disturb the controllers: <<kind, 1>>, <<kind, 2>>, ...
  MaxDisturbances  \* bound on how much of it happens

Versions     == 1..MaxVersion
Compositions == [of : Composable, order : Orders]
Projects     == [finalizer : BOOLEAN, deleting : BOOLEAN, known : BOOLEAN]
Shipyards    == [comp : Compositions, known : BOOLEAN]
Objects      == {"project", "shipyard", "record"}
Kinds        == {"crash", "network", "outage", "answer", "refusal", "external",
                 "stale"}

ASSUME ProjectAssumption ==
  /\ MaxVersion \in Nat \ {0}
  /\ Composable \subseteq [Inputs -> Versions]
  /\ Lag \in [Objects -> Nat]
  /\ MaxDeletions \in Nat
  /\ \A d \in Disturbances : d[1] \in Kinds
  /\ MaxDisturbances \in Nat
  /\ None # NotYet /\ None # Initial
  /\ {None, NotYet, Initial} \cap Compositions = {}
  /\ None \notin Projects \cup Shipyards

VARIABLES
  sources,       \* sources[i]: version of the stages or of the sequences in the cache
  project,       \* versions of the KeptnProject object, or None
  shipyard,      \* versions of the KeptnShipyard object, or None
  record,        \* versions of the hash in the ConfigMap, or None
  keptn,         \* the project exists in Keptn
  repo,          \* shipyard.yaml in the upstream repository
  stageJob,      \* reconciliations in flight of the three controllers
  projectJob,
  shipyardJob,
  orphans,       \* objects whose owner is gone
  deletions,     \* deletions of the project so far
  disturbed      \* the disturbances that have happened

outside == <<keptn, repo>>
jobs    == <<stageJob, projectJob, shipyardJob>>
bounds  == <<deletions, disturbed>>
cluster == <<sources, project, shipyard, record, orphans>>
vars    == <<cluster, outside, jobs, bounds>>

Idle        == [pc |-> "idle"]
StageJobs   == [pc : {"write"}, comp : Compositions]
ProjectJobs == StageJobs \cup [pc : {"release"}, fresh : BOOLEAN]
PushJobs    == [pc : {"push", "record"}, comp : Compositions, fresh : BOOLEAN]

Cached(versions) == Head(versions)
Stored(versions) == versions[Len(versions)]
InSync(versions) == Len(versions) = 1

\* A write that changes nothing makes no version.
Push(versions, version, kind) ==
  IF version = Stored(versions) THEN versions
  ELSE IF Len(versions) <= Lag[kind] THEN Append(versions, version)
                                     ELSE Append(Tail(versions), version)

Disturb(kind) ==
  /\ Cardinality(disturbed) < MaxDisturbances
  /\ \E d \in Disturbances \ disturbed :
       d[1] = kind /\ disturbed' = disturbed \cup {d}

\* The kinds of disturbance that have happened.
Happened == {d[1] : d \in disturbed}

Init ==
  /\ sources = [i \in Inputs |-> 1]
  /\ project = <<None>> /\ shipyard = <<None>> /\ record = <<None>>
  /\ keptn = FALSE /\ repo = None
  /\ stageJob = Idle /\ projectJob = Idle /\ shipyardJob = Idle
  /\ orphans = {}
  /\ deletions = 0 /\ disturbed = {}

-----------------------------------------------------------------------------
(* The composition, by the controllers of stages and of projects.          *)

\* composeShipyard: it fails when a stage names a sequence the cache does not
\* have, and takes the stages in the order in which the cache lists them.
Compose(comp) == comp \in Compositions /\ comp.of = sources

StageCompose ==
  /\ stageJob = Idle
  /\ \E comp \in Compositions :
       Compose(comp) /\ stageJob' = [pc |-> "write", comp |-> comp]
  /\ UNCHANGED <<cluster, outside, projectJob, shipyardJob, bounds>>

\* Mutant: the hash kept for the comparison is that of the new composition.
UpdateShipyard_SameHash(comp) ==
  /\ Cached(shipyard) # None
  /\ shipyard' = shipyard

\* UpdateShipyard: the object is read again only now, so that the check of its
\* version does not cover the composition.  The hash it is compared with is
\* always empty: the status is a subresource, and no status update writes it.
UpdateShipyard(comp) ==
  /\ Cached(shipyard) # None
  /\ shipyard' = IF InSync(shipyard)
                   THEN Push(shipyard, [Cached(shipyard) EXCEPT !.comp = comp], "shipyard")
                   ELSE shipyard

StageWrite ==
  /\ stageJob # Idle
  /\ stageJob' = Idle
  /\ \/ UpdateShipyard(stageJob.comp)
     \/ Cached(shipyard) = None /\ shipyard' = shipyard
  /\ UNCHANGED <<sources, project, record, orphans, outside, projectJob,
                 shipyardJob, bounds>>

-----------------------------------------------------------------------------
(* The project controller.                                                 *)

Alive == Cached(project) # None /\ ~Cached(project).deleting

WriteProject(object) ==
  /\ InSync(project)
  /\ project' = Push(project, object, "project")

AddFinalizer ==
  /\ projectJob = Idle
  /\ Alive
  /\ ~Cached(project).finalizer
  /\ WriteProject([Cached(project) EXCEPT !.finalizer = TRUE])
  /\ UNCHANGED <<sources, shipyard, record, orphans, outside, jobs, bounds>>

\* Past the finalizer: the project is looked up in Keptn.
Examined == projectJob = Idle /\ Alive /\ Cached(project).finalizer

\* The lookup finds nothing, or fails: its error is ignored.
Missing ==
  \/ ~keptn /\ UNCHANGED disturbed
  \/ keptn /\ Disturb("outage")

Forget ==
  /\ Examined
  /\ Cached(project).known
  /\ Missing
  /\ WriteProject([Cached(project) EXCEPT !.known = FALSE])
  /\ UNCHANGED <<sources, shipyard, record, orphans, outside, jobs, deletions>>

\* Keptn puts its own shipyard into the repository of a new project.
CreateInKeptn ==
  /\ Examined
  /\ ~Cached(project).known
  /\ ~keptn
  /\ keptn' = TRUE
  /\ repo' = Initial
  /\ UNCHANGED <<cluster, jobs, bounds>>

Know ==
  /\ Examined
  /\ ~Cached(project).known
  /\ keptn
  /\ WriteProject([Cached(project) EXCEPT !.known = TRUE])
  /\ UNCHANGED <<sources, shipyard, record, orphans, outside, jobs, bounds>>

ProjectCompose ==
  /\ Examined
  /\ Cached(project).known
  /\ keptn
  /\ \E comp \in Compositions :
       Compose(comp) /\ projectJob' = [pc |-> "write", comp |-> comp]
  /\ UNCHANGED <<cluster, outside, stageJob, shipyardJob, bounds>>

\* Mutant: the object starts with the shipyard Keptn puts into a new project.
CreateShipyard_Initial(comp) ==
  /\ Cached(shipyard) = None
  /\ shipyard' = IF Stored(shipyard) = None
                   THEN Push(shipyard, [comp |-> Initial, known |-> FALSE], "shipyard")
                   ELSE shipyard

\* A shipyard that the cache does not show is created, unless it is there.
CreateShipyard(comp) ==
  /\ Cached(shipyard) = None
  /\ shipyard' = IF Stored(shipyard) = None
                   THEN Push(shipyard, [comp |-> comp, known |-> FALSE], "shipyard")
                   ELSE shipyard

ProjectWrite ==
  /\ projectJob.pc = "write"
  /\ projectJob' = Idle
  /\ CreateShipyard(projectJob.comp) \/ UpdateShipyard(projectJob.comp)
  /\ UNCHANGED <<sources, project, record, orphans, outside, stageJob,
                 shipyardJob, bounds>>

\* The external dependency is deleted; the status of the answer is not read.
DeleteInKeptn ==
  /\ projectJob = Idle
  /\ Cached(project) # None
  /\ Cached(project).deleting
  /\ Cached(project).finalizer
  /\ projectJob' = [pc |-> "release", fresh |-> InSync(project)]
  /\ \/ keptn' = FALSE /\ UNCHANGED disturbed
     \/ keptn' = keptn /\ Disturb("refusal")
  /\ UNCHANGED <<cluster, repo, stageJob, shipyardJob, deletions>>

\* Mutant: the finalizer is removed whether or not the deletion succeeded.
DeletionAnswerLost_Released ==
  /\ projectJob = Idle
  /\ Cached(project) # None
  /\ Cached(project).deleting
  /\ Disturb("answer")
  /\ projectJob' = [pc |-> "release", fresh |-> InSync(project)]
  /\ UNCHANGED <<cluster, outside, stageJob, shipyardJob, deletions>>

\* Keptn deletes the project and the answer is lost: the finalizer stays.
DeletionAnswerLost ==
  /\ projectJob = Idle
  /\ Cached(project) # None
  /\ Cached(project).deleting
  /\ Disturb("answer")
  /\ keptn' = FALSE
  /\ UNCHANGED <<cluster, repo, jobs, deletions>>

\* Without a finalizer the object is gone, and what it owns is collected.
Remove == /\ project' = Push(project, None, "project")
          /\ orphans' = IF Stored(shipyard) = None THEN orphans
                                                   ELSE orphans \cup {"shipyard"}

Release ==
  /\ projectJob.pc = "release"
  /\ projectJob' = Idle
  /\ IF projectJob.fresh THEN Remove ELSE UNCHANGED <<project, orphans>>
  /\ UNCHANGED <<sources, shipyard, record, outside, stageJob, shipyardJob, bounds>>

-----------------------------------------------------------------------------
(* The shipyard controller.                                                *)

\* Mutant: a new record starts with the hash of the shipyard.
CreateRecord_Hash ==
  /\ shipyardJob = Idle
  /\ Cached(shipyard) # None
  /\ Cached(record) = None /\ Stored(record) = None
  /\ record' = Push(record, Cached(shipyard).comp, "record")
  /\ UNCHANGED <<sources, project, shipyard, orphans, outside, jobs, bounds>>

\* The record belongs to the cached shipyard, which may be gone by now.
CreateRecord ==
  /\ shipyardJob = Idle
  /\ Cached(shipyard) # None
  /\ Cached(record) = None /\ Stored(record) = None
  /\ record' = Push(record, NotYet, "record")
  /\ orphans' = IF Stored(shipyard) = None THEN orphans \cup {"record"} ELSE orphans
  /\ UNCHANGED <<sources, project, shipyard, outside, jobs, bounds>>

\* The spec is not the one recorded, and the project exists in Keptn; a failed
\* lookup, and one that finds nothing, end the reconciliation.
Changed ==
  /\ shipyardJob = Idle
  /\ Cached(shipyard) # None
  /\ Cached(record) \notin {None, Cached(shipyard).comp}
  /\ keptn

KnowProject ==
  /\ Changed
  /\ ~Cached(shipyard).known
  /\ InSync(shipyard)
  /\ shipyard' = Push(shipyard, [Cached(shipyard) EXCEPT !.known = TRUE], "shipyard")
  /\ UNCHANGED <<sources, project, record, orphans, outside, jobs, bounds>>

\* The record is read from a cache that may not show yet what the controller
\* itself has written.
StartPush ==
  /\ Changed
  /\ Cached(shipyard).known
  /\ shipyardJob' = [pc |-> "push", comp |-> Cached(shipyard).comp,
                     fresh |-> InSync(record)]
  /\ \/ InSync(record) /\ UNCHANGED disturbed
     \/ ~InSync(record) /\ Disturb("stale")
  /\ UNCHANGED <<cluster, outside, stageJob, projectJob, deletions>>

\* updateShipyard, with the credentials of the KeptnProject.
PushShipyard ==
  /\ shipyardJob.pc = "push"
  /\ Cached(project) # None
  /\ repo' = shipyardJob.comp
  /\ \/ shipyardJob' = [shipyardJob EXCEPT !.pc = "record"] /\ UNCHANGED disturbed
     \/ shipyardJob' = Idle /\ Disturb("answer")
  /\ UNCHANGED <<cluster, keptn, stageJob, projectJob, deletions>>

NoCredentials ==
  /\ shipyardJob.pc = "push"
  /\ Cached(project) = None
  /\ shipyardJob' = Idle
  /\ UNCHANGED <<cluster, outside, stageJob, projectJob, bounds>>

\* Mutant: the hash of the spec the cache holds by now is recorded.
WriteRecord_Reread ==
  /\ shipyardJob.pc = "record"
  /\ Cached(shipyard) # None
  /\ shipyardJob' = Idle
  /\ record' = IF shipyardJob.fresh
                 THEN Push(record, Cached(shipyard).comp, "record") ELSE record
  /\ UNCHANGED <<sources, project, shipyard, orphans, outside, stageJob,
                 projectJob, bounds>>

WriteRecord ==
  /\ shipyardJob.pc = "record"
  /\ shipyardJob' = Idle
  /\ record' = IF shipyardJob.fresh
                 THEN Push(record, shipyardJob.comp, "record") ELSE record
  /\ UNCHANGED <<sources, project, shipyard, orphans, outside, stageJob,
                 projectJob, bounds>>

-----------------------------------------------------------------------------
(* The environment.                                                        *)

\* A list is edited, and the informer delivers it: until then nothing sees the
\* edit, so that both are one step.
EditSource(i) ==
  /\ sources[i] < MaxVersion
  /\ sources' = [sources EXCEPT ![i] = @ + 1]
  /\ UNCHANGED <<project, shipyard, record, orphans, outside, jobs, bounds>>

CreateProject ==
  /\ Stored(project) = None
  /\ project' = Push(project, [finalizer |-> FALSE, deleting |-> FALSE,
                               known |-> FALSE], "project")
  /\ UNCHANGED <<sources, shipyard, record, orphans, outside, jobs, bounds>>

DeleteProject ==
  /\ Stored(project) # None
  /\ ~Stored(project).deleting
  /\ deletions < MaxDeletions
  /\ deletions' = deletions + 1
  /\ IF Stored(project).finalizer
       THEN /\ project' = Push(project, [Stored(project) EXCEPT !.deleting = TRUE],
                               "project")
            /\ orphans' = orphans
       ELSE Remove
  /\ UNCHANGED <<sources, shipyard, record, outside, jobs, disturbed>>

\* Somebody else deletes the project in Keptn.
ExternalDeletion ==
  /\ keptn
  /\ Disturb("external")
  /\ keptn' = FALSE
  /\ UNCHANGED <<cluster, repo, jobs, deletions>>

\* The garbage collector removes what has lost its owner.
CollectShipyard ==
  /\ "shipyard" \in orphans
  /\ shipyard' = Push(shipyard, None, "shipyard")
  /\ orphans' = (orphans \ {"shipyard"})
                  \cup (IF Stored(record) = None THEN {} ELSE {"record"})
  /\ UNCHANGED <<sources, project, record, outside, jobs, bounds>>

CollectRecord ==
  /\ "record" \in orphans
  /\ record' = Push(record, None, "record")
  /\ orphans' = orphans \ {"record"}
  /\ shipyardJob' = IF shipyardJob = Idle THEN Idle
                    ELSE [shipyardJob EXCEPT !.fresh = FALSE]
  /\ UNCHANGED <<sources, project, shipyard, outside, stageJob, projectJob, bounds>>

\* The operator restarts and lists everything anew.
Crash ==
  /\ Disturb("crash")
  /\ stageJob' = Idle /\ projectJob' = Idle /\ shipyardJob' = Idle
  /\ project' = <<Stored(project)>>
  /\ shipyard' = <<Stored(shipyard)>>
  /\ record' = <<Stored(record)>>
  /\ UNCHANGED <<sources, orphans, outside, deletions>>

\* A call of one reconciliation fails, and ends it.
CallFails ==
  /\ Disturb("network")
  /\ \/ stageJob # Idle /\ stageJob' = Idle /\ UNCHANGED <<projectJob, shipyardJob>>
     \/ projectJob # Idle /\ projectJob' = Idle /\ UNCHANGED <<stageJob, shipyardJob>>
     \/ shipyardJob # Idle /\ shipyardJob' = Idle /\ UNCHANGED <<stageJob, projectJob>>
  /\ UNCHANGED <<cluster, outside, deletions>>

SyncProject ==
  /\ Len(project) > 1
  /\ project' = Tail(project)
  /\ UNCHANGED <<sources, shipyard, record, orphans, outside, jobs, bounds>>

SyncShipyard ==
  /\ Len(shipyard) > 1
  /\ shipyard' = Tail(shipyard)
  /\ UNCHANGED <<sources, project, record, orphans, outside, jobs, bounds>>

SyncRecord ==
  /\ Len(record) > 1
  /\ record' = Tail(record)
  /\ UNCHANGED <<sources, project, shipyard, orphans, outside, jobs, bounds>>

-----------------------------------------------------------------------------
StageController   == StageCompose \/ StageWrite
ProjectController == \/ AddFinalizer \/ Forget \/ CreateInKeptn \/ Know
                     \/ ProjectCompose \/ ProjectWrite
                     \/ DeleteInKeptn \/ DeletionAnswerLost \/ Release
ShipyardController == \/ CreateRecord \/ KnowProject \/ StartPush
                      \/ PushShipyard \/ NoCredentials \/ WriteRecord
Informers == SyncProject \/ SyncShipyard \/ SyncRecord
Collector == CollectShipyard \/ CollectRecord

Next ==
  \/ StageController \/ ProjectController \/ ShipyardController
  \/ Informers \/ Collector
  \/ \E i \in Inputs : EditSource(i)
  \/ CreateProject \/ DeleteProject \/ ExternalDeletion \/ Crash \/ CallFails

Spec == Init /\ [][Next]_vars

\* Every controller looks at its objects again and again, whether or not
\* something changes.  Informers deliver, each kind of object by its own watch.
Fairness ==
  /\ WF_vars(StageController)
  /\ WF_vars(ProjectController)
  /\ WF_vars(ShipyardController)
  /\ WF_vars(SyncProject) /\ WF_vars(SyncShipyard) /\ WF_vars(SyncRecord)
  /\ WF_vars(Collector)

FairSpec == Spec /\ Fairness

-----------------------------------------------------------------------------
(* Properties. *)

\* Type invariant.
TypeOK ==
  /\ sources \in [Inputs -> Versions]
  /\ project \in Seq(Projects \cup {None}) \ {<<>>}
  /\ shipyard \in Seq(Shipyards \cup {None}) \ {<<>>}
  /\ record \in Seq(Compositions \cup {None, NotYet}) \ {<<>>}
  /\ keptn \in BOOLEAN
  /\ repo \in Compositions \cup {None, Initial}
  /\ stageJob \in StageJobs \cup {Idle}
  /\ projectJob \in ProjectJobs \cup {Idle}
  /\ shipyardJob \in PushJobs \cup {Idle}
  /\ orphans \subseteq {"shipyard", "record"}
  /\ deletions \in 0..MaxDeletions
  /\ disturbed \subseteq Disturbances

\* As long as nothing is disturbed, the recorded hash is that of the shipyard
\* in the repository, whoever composes what from which cache, except between
\* a push and its record and while a deleted project is being collected.
RecordIsPushed ==
  disturbed = {} /\ orphans = {} /\ Stored(record) \in Compositions
    => repo = Stored(record) \/ shipyardJob.pc = "record"

\* keptnproject_controller.go:112 of the repository: "if fail to delete the
\* external dependency here, return with error so that it can be retried".  An
\* object that is gone has left no project behind in Keptn.
DeletedMeansGone == Stored(project) = None => ~keptn

\* The same, as long as Keptn has refused no deletion.  Neither lost answers,
\* crashes, stale caches nor failed lookups leave a project behind.
DeletedUnlessRefused == "refusal" \notin Happened => DeletedMeansGone

\* Whether stages, sequences and caches are seen late, in a mix, or with some
\* call lost: in the end the record is that of the newest ones, in some order,
\* once a project stays and its stages name sequences that exist.
Wanted == /\ Stored(project) # None
          /\ ~Stored(project).deleting
          /\ sources \in Composable
Newest(comp) == comp \in Compositions /\ comp.of = sources
RecordFollowsStages == <>[]Wanted => <>[]Newest(Stored(record))

\* The repository has that shipyard too, if no push went unrecorded (the record
\* may then come to match a shipyard that has been pushed over) and nobody else
\* deletes the project in Keptn (what Keptn creates anew then replaces it).
Harmless == {"outage", "refusal"}
ShipyardFollowsStages ==
  <>[](Wanted /\ Happened \subseteq Harmless) => <>[]Newest(repo)
=============================================================================
