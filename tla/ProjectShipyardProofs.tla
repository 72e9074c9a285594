------------------------- MODULE ProjectShipyardProofs -------------------------
(***************************************************************************)
(* Theorems about ProjectShipyard, for any lists, versions and orders, any *)
(* lag of the caches, any number of deletions and of disturbances: the     *)
(* types, that a deleted project has left nothing in Keptn, and that the   *)
(* recorded shipyard is the one in the repository.                         *)
(***************************************************************************)
EXTENDS ProjectShipyard, TLAPS

-----------------------------------------------------------------------------
(* Version sequences.                                                      *)

\* An object has a cached and a stored version, the same if it is in sync.
LEMMA EndFacts ==
  ASSUME NEW S, NEW s \in Seq(S), s # <<>>
  PROVE  /\ Len(s) \in Nat \ {0} /\ 1 \in 1..Len(s) /\ Len(s) \in 1..Len(s)
         /\ Cached(s) = s[1] /\ Cached(s) \in S
         /\ Stored(s) = s[Len(s)] /\ Stored(s) \in S
         /\ InSync(s) => Len(s) = 1 /\ Stored(s) = Cached(s)
BY DEF Cached, Stored, InSync

\* What a write makes of the versions s: x is stored, the others stay in place
\* or move down by one.
Written(t, s, x) ==
  /\ Len(t) \in Nat \ {0} /\ t[Len(t)] = x /\ Stored(t) = x
  /\ \E k \in {0, 1} : \A i \in 1..Len(t) :
       i < Len(t) => i + k \in 1..Len(s) /\ t[i] = s[i + k]

LEMMA PushFacts ==
  ASSUME NEW S, NEW s \in Seq(S), s # <<>>, NEW x \in S, NEW kind \in Objects,
         NEW t, t = Push(s, x, kind)
  PROVE  t \in Seq(S) \ {<<>>} /\ Written(t, s, x)
<1>0. Lag[kind] \in Nat
  BY ProjectAssumption
<1>1. CASE x = Stored(s)
  <2>1. t = s
    BY <1>1 DEF Push
  <2>2. \A i \in 1..Len(t) : i + 0 \in 1..Len(s) /\ t[i] = s[i + 0]
    BY <2>1
  <2> QED
    BY <1>1, <2>1, <2>2 DEF Written, Stored
<1>2. CASE x # Stored(s) /\ Len(s) <= Lag[kind]
  <2>1. t = Append(s, x)
    BY <1>2 DEF Push
  <2>2. \A i \in 1..Len(t) : i < Len(t) => i + 0 \in 1..Len(s) /\ t[i] = s[i + 0]
    BY <2>1
  <2>3. t \in Seq(S) \ {<<>>} /\ Len(t) \in Nat \ {0} /\ t[Len(t)] = x
    BY <2>1
  <2> QED
    BY <2>2, <2>3 DEF Written, Stored
<1>3. CASE x # Stored(s) /\ ~(Len(s) <= Lag[kind])
  <2> DEFINE u == Tail(s)
  <2>1. t = Append(u, x)
    BY <1>3 DEF Push
  <2>2. u \in Seq(S) /\ \A k \in 1..Len(u) : k + 1 \in 1..Len(s) /\ u[k] = s[k + 1]
    OBVIOUS
  <2> HIDE DEF u
  <2>3. /\ t \in Seq(S) \ {<<>>} /\ Len(t) \in Nat \ {0} /\ t[Len(t)] = x
        /\ Len(t) = Len(u) + 1
    BY <2>1, <2>2
  <2>4. \A i \in 1..Len(u) : t[i] = u[i]
    BY <2>1, <2>2
  <2>5. \A i \in 1..Len(t) : i < Len(t) => i + 1 \in 1..Len(s) /\ t[i] = s[i + 1]
    BY <2>2, <2>3, <2>4
  <2> QED
    BY <2>3, <2>5 DEF Written, Stored
<1> QED
  BY <1>1, <1>2, <1>3

\* The stored version of s is that of t, which has lost the oldest k of the rest.
Shifted(t, s) ==
  /\ Stored(t) = Stored(s)
  /\ Len(t) \in Nat \ {0}
  /\ \E k \in Nat : \A i \in 1..Len(t) : i + k \in 1..Len(s) /\ t[i] = s[i + k]

\* Nothing happens, the operator restarts, or the cache takes in a version.
Read(t, s) == t = s \/ t = <<Stored(s)>> \/ (Len(s) > 1 /\ t = Tail(s))

LEMMA ReadFacts ==
  ASSUME NEW S, NEW s \in Seq(S), s # <<>>, NEW t, Read(t, s)
  PROVE  t \in Seq(S) \ {<<>>} /\ Shifted(t, s)
<1>0. Len(s) \in Nat \ {0} /\ Stored(s) \in S /\ Stored(s) = s[Len(s)]
  BY EndFacts
<1>1. CASE t = s
  <2>1. \A i \in 1..Len(t) : i + 0 \in 1..Len(s) /\ t[i] = s[i + 0]
    BY <1>0, <1>1
  <2> QED
    BY <1>0, <1>1, <2>1 DEF Shifted
<1>2. CASE t = <<Stored(s)>>
  <2>1. t \in Seq(S) \ {<<>>} /\ Len(t) = 1 /\ t[1] = s[Len(s)] /\ Stored(t) = Stored(s)
    BY <1>0, <1>2 DEF Stored
  <2>2. Len(s) - 1 \in Nat
    BY <1>0
  <2>3. \A i \in 1..Len(t) : i + (Len(s) - 1) \in 1..Len(s) /\ t[i] = s[i + (Len(s) - 1)]
    BY <1>0, <2>1
  <2>4. \E k \in Nat : \A i \in 1..Len(t) : i + k \in 1..Len(s) /\ t[i] = s[i + k]
    BY <2>2, <2>3
  <2> QED
    BY <2>1, <2>4 DEF Shifted
<1>3. CASE Len(s) > 1 /\ t = Tail(s)
  <2>1. t \in Seq(S) /\ Len(t) = Len(s) - 1
    BY <1>3
  <2>2. Len(t) \in Nat \ {0} /\ t # <<>>
    <3>1. Len(t) # 0 /\ Len(<<>>) = 0
      BY <1>0, <1>3, <2>1
    <3> QED
      BY <2>1, <3>1
  <2>3. \A i \in 1..Len(t) : i + 1 \in 1..Len(s) /\ t[i] = s[i + 1]
    BY <1>0, <1>3, <2>1
  <2>4. Stored(t) = Stored(s)
    <3>1. Len(t) \in 1..Len(t) /\ Len(t) + 1 = Len(s)
      BY <1>0, <2>1, <2>2
    <3> QED
      BY <2>3, <3>1 DEF Stored
  <2>5. \E k \in Nat : \A i \in 1..Len(t) : i + k \in 1..Len(s) /\ t[i] = s[i + k]
    BY <2>3
  <2> QED
    BY <2>1, <2>2, <2>4, <2>5 DEF Shifted
<1> QED
  BY <1>1, <1>2, <1>3 DEF Read

-----------------------------------------------------------------------------
(* Types, and what a step may write.                                       *)

\* The actions of a step by the object they write.
ProjectWrites  == \/ AddFinalizer \/ Forget \/ Know \/ Release
                  \/ CreateProject \/ DeleteProject
ShipyardWrites == StageWrite \/ ProjectWrite \/ KnowProject \/ CollectShipyard
RecordWrites   == CreateRecord \/ WriteRecord \/ CollectRecord
NoWrites       == \/ StageCompose \/ CreateInKeptn \/ ProjectCompose
                  \/ DeleteInKeptn \/ DeletionAnswerLost
                  \/ StartPush \/ PushShipyard \/ NoCredentials
                  \/ ExternalDeletion \/ CallFails
                  \/ (\E i \in Inputs : EditSource(i))
Reads          == SyncProject \/ SyncShipyard \/ SyncRecord \/ Crash

LEMMA StepSplit ==
  ASSUME [Next]_vars
  PROVE  \/ ProjectWrites \/ ShipyardWrites \/ RecordWrites \/ NoWrites
         \/ Reads \/ UNCHANGED vars
BY DEF Next, StageController, ProjectController, ShipyardController, Informers,
     Collector, ProjectWrites, ShipyardWrites, RecordWrites, NoWrites, Reads

\* Each object is written by its own actions, and only read by the others.
LEMMA Frames ==
  ASSUME [Next]_vars
  PROVE  /\ ProjectWrites \/ Read(project', project)
         /\ ShipyardWrites \/ Read(shipyard', shipyard)
         /\ RecordWrites \/ Read(record', record)
<1>1. CASE ProjectWrites
  BY <1>1 DEF ProjectWrites, AddFinalizer, Forget, Know, Release, CreateProject,
       DeleteProject, Read
<1>2. CASE ShipyardWrites
  BY <1>2 DEF ShipyardWrites, StageWrite, ProjectWrite, KnowProject, CollectShipyard, Read
<1>3. CASE RecordWrites
  BY <1>3 DEF RecordWrites, CreateRecord, WriteRecord, CollectRecord, Read
<1>4. CASE NoWrites
  BY <1>4 DEF NoWrites, StageCompose, CreateInKeptn, ProjectCompose, DeleteInKeptn,
       DeletionAnswerLost, StartPush, PushShipyard, NoCredentials, ExternalDeletion,
       CallFails, EditSource, cluster, Read
<1>5. CASE Reads
  BY <1>5 DEF Reads, SyncProject, SyncShipyard, SyncRecord, Crash, Read
<1>6. CASE UNCHANGED vars
  BY <1>6 DEF vars, cluster, Read
<1> QED
  BY <1>1, <1>2, <1>3, <1>4, <1>5, <1>6, StepSplit

\* What has been disturbed stays so; nothing else happens to a set of kinds.
LEMMA DisturbedSteps ==
  ASSUME [Next]_vars
  PROVE  disturbed' = disturbed \/ \E kind : Disturb(kind)
<1>1. CASE ProjectWrites
  BY <1>1 DEF ProjectWrites, AddFinalizer, Forget, Missing, Know, Release, CreateProject,
       DeleteProject, bounds, Disturb
<1>2. CASE ShipyardWrites \/ RecordWrites
  BY <1>2 DEF ShipyardWrites, StageWrite, ProjectWrite, KnowProject, CollectShipyard,
       RecordWrites, CreateRecord, WriteRecord, CollectRecord, bounds
<1>3. CASE NoWrites
  BY <1>3 DEF NoWrites, StageCompose, CreateInKeptn, ProjectCompose, DeleteInKeptn,
       DeletionAnswerLost, StartPush, PushShipyard, NoCredentials, ExternalDeletion,
       CallFails, EditSource, bounds, Disturb
<1>4. CASE Reads \/ UNCHANGED vars
  BY <1>4 DEF Reads, SyncProject, SyncShipyard, SyncRecord, Crash, Disturb, vars, bounds
<1> QED
  BY <1>1, <1>2, <1>3, <1>4, StepSplit

LEMMA DisturbedGrows ==
  ASSUME [Next]_vars
  PROVE  /\ disturbed \subseteq disturbed' /\ (disturbed' = {} => disturbed' = disturbed)
         /\ Happened \subseteq Happened' /\ (disturbed = {} => Happened = {})
BY DisturbedSteps DEF Disturb, Happened

LEMMA StateFacts ==
  ASSUME TypeOK
  PROVE  /\ Cached(project) \in Projects \cup {None} /\ Stored(project) \in Projects \cup {None}
         /\ Cached(shipyard) \in Shipyards \cup {None} /\ Stored(shipyard) \in Shipyards \cup {None}
         /\ Stored(record) \in Compositions \cup {None, NotYet}
BY EndFacts DEF TypeOK

\* A composition that the shipyard object is updated or created with.
LEMMA CompFacts ==
  ASSUME TypeOK
  PROVE  /\ stageJob # Idle => stageJob.comp \in Compositions
         /\ projectJob.pc = "write" => projectJob.comp \in Compositions
         /\ shipyardJob # Idle => shipyardJob \in PushJobs /\ shipyardJob.comp \in Compositions
BY DEF TypeOK, StageJobs, ProjectJobs, PushJobs, Idle

\* What becomes of the versions of the project: new ones are written over a
\* current object that is not being deleted, or by whoever creates and deletes.
Maintained(x) == /\ InSync(project) /\ Alive
                 /\ x.finalizer /\ ~x.deleting
                 /\ project' = Push(project, x, "project")
Created(x)    == /\ Stored(project) = None /\ ~x.finalizer
                 /\ project' = Push(project, x, "project")
Deleted(x)    == /\ Stored(project) # None /\ Stored(project).finalizer
                 /\ x.finalizer /\ x.deleting
                 /\ ~Stored(project).deleting
                 /\ project' = Push(project, x, "project")
Removed       == /\ \/ Stored(project) # None /\ ~Stored(project).finalizer
                    \/ Release /\ projectJob.fresh
                 /\ project' = Push(project, None, "project")
                 /\ orphans' = IF Stored(shipyard) = None THEN orphans
                                                          ELSE orphans \cup {"shipyard"}

LEMMA ProjectSteps ==
  ASSUME TypeOK, [Next]_vars
  PROVE  \/ Read(project', project)
         \/ \E x \in Projects : Maintained(x) \/ Created(x) \/ Deleted(x)
         \/ Removed
<1> USE StateFacts
<1>1. CASE AddFinalizer
  <2>1. [Cached(project) EXCEPT !.finalizer = TRUE] \in Projects
    BY <1>1 DEF AddFinalizer, Alive, Projects
  <2> QED
    BY <1>1, <2>1 DEF AddFinalizer, WriteProject, Maintained, Alive, Projects
<1>2. CASE Forget \/ Know
  <2>1. PICK known \in BOOLEAN : WriteProject([Cached(project) EXCEPT !.known = known])
    BY <1>2 DEF Forget, Know
  <2>2. Alive /\ Cached(project).finalizer
    BY <1>2 DEF Forget, Know, Examined
  <2>3. [Cached(project) EXCEPT !.known = known] \in Projects
    BY <2>2 DEF Alive, Projects
  <2> QED
    BY <2>1, <2>2, <2>3 DEF WriteProject, Maintained, Alive, Projects
<1>3. CASE Release
  BY <1>3 DEF Release, Remove, Removed, Read
<1>4. CASE CreateProject
  <2> DEFINE x == [finalizer |-> FALSE, deleting |-> FALSE, known |-> FALSE]
  <2>1. x \in Projects
    BY DEF Projects
  <2> QED
    BY <1>4, <2>1 DEF CreateProject, Created
<1>5. CASE DeleteProject
  <2>1. CASE Stored(project).finalizer
    <3>1. [Stored(project) EXCEPT !.deleting = TRUE] \in Projects
      BY <1>5 DEF DeleteProject, Projects
    <3> QED
      BY <1>5, <2>1, <3>1 DEF DeleteProject, Deleted, Projects
  <2>2. CASE ~Stored(project).finalizer
    BY <1>5, <2>2 DEF DeleteProject, Remove, Removed
  <2> QED
    BY <2>1, <2>2
<1> QED
  BY <1>1, <1>2, <1>3, <1>4, <1>5, Frames DEF ProjectWrites

\* The shipyard object is created where there is none, updated while it is
\* current, and collected.
LEMMA ShipyardSteps ==
  ASSUME TypeOK, [Next]_vars
  PROVE  \/ Read(shipyard', shipyard)
         \/ \E x \in Shipyards : /\ shipyard' = Push(shipyard, x, "shipyard")
                                 /\ ProjectWrite \/ Stored(shipyard) # None
         \/ CollectShipyard /\ shipyard' = Push(shipyard, None, "shipyard")
<1> USE StateFacts, CompFacts
<1>0. /\ InSync(shipyard) => Stored(shipyard) = Cached(shipyard)
  BY EndFacts DEF TypeOK
<1>1. ASSUME NEW comp \in Compositions, UpdateShipyard(comp)
      PROVE  \/ Read(shipyard', shipyard)
             \/ \E x \in Shipyards : /\ shipyard' = Push(shipyard, x, "shipyard")
                                     /\ Stored(shipyard) # None
  <2>1. [Cached(shipyard) EXCEPT !.comp = comp] \in Shipyards
    BY <1>1 DEF UpdateShipyard, Shipyards
  <2> QED
    BY <1>0, <1>1, <2>1 DEF UpdateShipyard, Read
<1>2. CASE StageWrite
  BY <1>1, <1>2 DEF StageWrite, Read
<1>3. CASE ProjectWrite
  <2>1. ASSUME CreateShipyard(projectJob.comp)
        PROVE  \/ Read(shipyard', shipyard)
               \/ \E x \in Shipyards : shipyard' = Push(shipyard, x, "shipyard")
    <3>1. [comp |-> projectJob.comp, known |-> FALSE] \in Shipyards
      BY <1>3 DEF ProjectWrite, Shipyards
    <3> QED
      BY <2>1, <3>1 DEF CreateShipyard, Read
  <2> QED
    BY <1>1, <1>3, <2>1 DEF ProjectWrite
<1>4. CASE KnowProject
  <2>1. [Cached(shipyard) EXCEPT !.known = TRUE] \in Shipyards
    BY <1>4 DEF KnowProject, Changed, Shipyards
  <2> QED
    BY <1>0, <1>4, <2>1 DEF KnowProject, Changed
<1>5. CASE CollectShipyard
  BY <1>5 DEF CollectShipyard
<1> QED
  BY <1>2, <1>3, <1>4, <1>5, Frames DEF ShipyardWrites

LEMMA RecordSteps ==
  ASSUME TypeOK, [Next]_vars
  PROVE  \/ Read(record', record)
         \/ CreateRecord
         \/ WriteRecord /\ shipyardJob.fresh
              /\ record' = Push(record, shipyardJob.comp, "record")
         \/ CollectRecord
BY Frames DEF RecordWrites, WriteRecord, Read

LEMMA ObjectsTyped ==
  ASSUME TypeOK, [Next]_vars
  PROVE  /\ project' \in Seq(Projects \cup {None}) \ {<<>>}
         /\ shipyard' \in Seq(Shipyards \cup {None}) \ {<<>>}
         /\ record' \in Seq(Compositions \cup {None, NotYet}) \ {<<>>}
<1>1. {"project", "shipyard", "record"} \subseteq Objects
  BY DEF Objects
<1>2. project' \in Seq(Projects \cup {None}) \ {<<>>}
  <2> DEFINE S == Projects \cup {None}
  <2>1. project \in Seq(S) /\ project # <<>> /\ Projects \subseteq S /\ None \in S
    BY DEF TypeOK
  <2>2. \/ Read(project', project)
        \/ \E x \in S : project' = Push(project, x, "project")
    BY ProjectSteps DEF Maintained, Created, Deleted, Removed
  <2> HIDE DEF S
  <2>3. project' \in Seq(S) \ {<<>>}
    BY <1>1, <2>1, <2>2, PushFacts, ReadFacts
  <2> QED
    BY <2>3 DEF S
<1>3. shipyard' \in Seq(Shipyards \cup {None}) \ {<<>>}
  <2> DEFINE S == Shipyards \cup {None}
  <2>1. shipyard \in Seq(S) /\ shipyard # <<>> /\ Shipyards \subseteq S /\ None \in S
    BY DEF TypeOK
  <2>2. \/ Read(shipyard', shipyard)
        \/ \E x \in S : shipyard' = Push(shipyard, x, "shipyard")
    BY ShipyardSteps
  <2> HIDE DEF S
  <2>3. shipyard' \in Seq(S) \ {<<>>}
    BY <1>1, <2>1, <2>2, PushFacts, ReadFacts
  <2> QED
    BY <2>3 DEF S
<1>4. record' \in Seq(Compositions \cup {None, NotYet}) \ {<<>>}
  <2> DEFINE S == Compositions \cup {None, NotYet}
  <2>1. record \in Seq(S) /\ record # <<>> /\ Compositions \subseteq S /\ {None, NotYet} \subseteq S
    BY DEF TypeOK
  <2>2. \/ Read(record', record)
        \/ \E x \in S : record' = Push(record, x, "record")
    BY RecordSteps, CompFacts DEF CreateRecord, WriteRecord, CollectRecord, Idle
  <2> HIDE DEF S
  <2>3. record' \in Seq(S) \ {<<>>}
    BY <1>1, <2>1, <2>2, PushFacts, ReadFacts
  <2> QED
    BY <2>3 DEF S
<1> QED
  BY <1>2, <1>3, <1>4

\* What becomes of the reconciliations.
LEMMA JobSteps ==
  ASSUME [Next]_vars
  PROVE  /\ stageJob' \in {stageJob, Idle} \/ StageCompose
         /\ projectJob' \in {projectJob, Idle} \/ ProjectCompose \/ DeleteInKeptn
         /\ \/ shipyardJob' = shipyardJob
            \/ StartPush \/ PushShipyard \/ NoCredentials \/ WriteRecord \/ CollectRecord
            \/ shipyardJob' = Idle /\ disturbed' # {}
<1>1. CASE ProjectWrites \/ ShipyardWrites \/ RecordWrites
  BY <1>1
     DEF ProjectWrites, AddFinalizer, Forget, Know, Release, CreateProject, DeleteProject,
         ShipyardWrites, StageWrite, ProjectWrite, KnowProject, CollectShipyard,
         RecordWrites, CreateRecord, WriteRecord, CollectRecord, jobs
<1>2. CASE NoWrites
  BY <1>2
     DEF NoWrites, StageCompose, CreateInKeptn, ProjectCompose, DeleteInKeptn,
         DeletionAnswerLost, StartPush, PushShipyard, NoCredentials, ExternalDeletion,
         CallFails, EditSource, Disturb, jobs
<1>3. CASE Reads \/ UNCHANGED vars
  BY <1>3 DEF Reads, SyncProject, SyncShipyard, SyncRecord, Crash, Disturb, jobs, vars
<1> QED
  BY <1>1, <1>2, <1>3, StepSplit

LEMMA JobsTyped ==
  ASSUME TypeOK, [Next]_vars
  PROVE  /\ stageJob' \in StageJobs \cup {Idle}
         /\ projectJob' \in ProjectJobs \cup {Idle}
         /\ shipyardJob' \in PushJobs \cup {Idle}
<1> USE StateFacts, CompFacts
<1>1. stageJob' \in StageJobs \cup {Idle}
  BY JobSteps DEF StageCompose, StageJobs, TypeOK
<1>2. projectJob' \in ProjectJobs \cup {Idle}
  <2>1. InSync(project) \in BOOLEAN
    BY DEF InSync
  <2>2. CASE ProjectCompose
    BY <2>2 DEF ProjectCompose, ProjectJobs, StageJobs
  <2>3. CASE DeleteInKeptn
    BY <2>1, <2>3 DEF DeleteInKeptn, ProjectJobs
  <2> QED
    BY <2>2, <2>3, JobSteps DEF TypeOK
<1>3. shipyardJob' \in PushJobs \cup {Idle}
  <2>1. CASE StartPush
    <3>1. Cached(shipyard).comp \in Compositions /\ InSync(record) \in BOOLEAN
      BY <2>1 DEF StartPush, Changed, Shipyards, InSync
    <3> QED
      BY <2>1, <3>1 DEF StartPush, PushJobs
  <2>2. CASE PushShipyard
    <3>1. shipyardJob \in PushJobs
      BY <2>2 DEF PushShipyard, Idle
    <3> QED
      BY <2>2, <3>1 DEF PushShipyard, PushJobs
  <2>3. CASE CollectRecord
    <3>1. CASE shipyardJob # Idle
      BY <2>3, <3>1 DEF CollectRecord, PushJobs
    <3> QED
      BY <2>3, <3>1 DEF CollectRecord
  <2> QED
    BY <2>1, <2>2, <2>3, JobSteps DEF TypeOK, NoCredentials, WriteRecord
<1> QED
  BY <1>1, <1>2, <1>3

\* What may happen in Keptn and to the repository in a step.
LEMMA OutsideSteps ==
  ASSUME [Next]_vars
  PROVE  /\ \/ keptn' = keptn \/ CreateInKeptn
            \/ DeleteInKeptn /\ (keptn' = FALSE \/ (keptn' = keptn /\ "refusal" \in Happened'))
            \/ keptn' = FALSE /\ disturbed' # {} /\ (DeletionAnswerLost \/ ExternalDeletion)
         /\ repo' = repo \/ CreateInKeptn \/ PushShipyard
<1>1. CASE ProjectWrites \/ ShipyardWrites \/ RecordWrites
  BY <1>1
     DEF ProjectWrites, AddFinalizer, Forget, Know, Release, CreateProject, DeleteProject,
         ShipyardWrites, StageWrite, ProjectWrite, KnowProject, CollectShipyard,
         RecordWrites, CreateRecord, WriteRecord, CollectRecord, outside
<1>2. CASE NoWrites
  BY <1>2
     DEF NoWrites, StageCompose, ProjectCompose, DeleteInKeptn, DeletionAnswerLost,
         StartPush, PushShipyard, NoCredentials, ExternalDeletion, CallFails, EditSource,
         outside, Disturb
<1>3. CASE Reads \/ UNCHANGED vars
  BY <1>3 DEF Reads, SyncProject, SyncShipyard, SyncRecord, Crash, outside, vars
<1> QED
  BY <1>1, <1>2, <1>3, StepSplit

LEMMA OrphansTyped ==
  ASSUME TypeOK, [Next]_vars
  PROVE  orphans' \subseteq {"shipyard", "record"}
BY StepSplit
   DEF TypeOK, Remove,
       ProjectWrites, AddFinalizer, Forget, Know, Release, CreateProject, DeleteProject,
       ShipyardWrites, StageWrite, ProjectWrite, KnowProject, CollectShipyard,
       RecordWrites, CreateRecord, WriteRecord, CollectRecord,
       NoWrites, StageCompose, CreateInKeptn, ProjectCompose, DeleteInKeptn,
       DeletionAnswerLost, StartPush, PushShipyard, NoCredentials, ExternalDeletion,
       CallFails, EditSource,
       Reads, SyncProject, SyncShipyard, SyncRecord, Crash, cluster, vars

LEMMA CountersTyped ==
  ASSUME TypeOK, [Next]_vars
  PROVE  /\ sources' \in [Inputs -> Versions]
         /\ deletions' \in 0..MaxDeletions
         /\ disturbed' \subseteq Disturbances
<1>1. sources' = sources \/ \E i \in Inputs : EditSource(i)
  BY StepSplit
     DEF ProjectWrites, AddFinalizer, Forget, Know, Release, CreateProject, DeleteProject,
         ShipyardWrites, StageWrite, ProjectWrite, KnowProject, CollectShipyard,
         RecordWrites, CreateRecord, WriteRecord, CollectRecord,
         NoWrites, StageCompose, CreateInKeptn, ProjectCompose, DeleteInKeptn,
         DeletionAnswerLost, StartPush, PushShipyard, NoCredentials, ExternalDeletion,
         CallFails, Reads, SyncProject, SyncShipyard, SyncRecord, Crash, cluster, vars
<1>2. sources' \in [Inputs -> Versions]
  <2>1. ASSUME NEW i \in Inputs, EditSource(i) PROVE sources[i] + 1 \in Versions
    BY <2>1, ProjectAssumption DEF EditSource, TypeOK, Versions
  <2> QED
    BY <1>1, <2>1 DEF EditSource, TypeOK
<1>3. deletions' = deletions \/ (deletions < MaxDeletions /\ deletions' = deletions + 1)
  BY StepSplit
     DEF ProjectWrites, AddFinalizer, Forget, Know, Release, CreateProject, DeleteProject,
         ShipyardWrites, StageWrite, ProjectWrite, KnowProject, CollectShipyard,
         RecordWrites, CreateRecord, WriteRecord, CollectRecord,
         NoWrites, StageCompose, CreateInKeptn, ProjectCompose, DeleteInKeptn,
         DeletionAnswerLost, StartPush, PushShipyard, NoCredentials, ExternalDeletion,
         CallFails, EditSource,
         Reads, SyncProject, SyncShipyard, SyncRecord, Crash, bounds, vars
<1>4. deletions' \in 0..MaxDeletions
  BY <1>3, ProjectAssumption DEF TypeOK
<1>5. disturbed' \subseteq Disturbances
  BY DisturbedSteps DEF Disturb, TypeOK
<1> QED
  BY <1>2, <1>4, <1>5

LEMMA TypeInit == Init => TypeOK
<1> SUFFICES ASSUME Init PROVE TypeOK
  OBVIOUS
<1>1. sources \in [Inputs -> Versions] /\ deletions \in 0..MaxDeletions
  BY ProjectAssumption DEF Init, Versions
<1>2. /\ project \in Seq(Projects \cup {None}) \ {<<>>}
      /\ shipyard \in Seq(Shipyards \cup {None}) \ {<<>>}
      /\ record \in Seq(Compositions \cup {None, NotYet}) \ {<<>>}
  BY DEF Init
<1> QED
  BY <1>1, <1>2 DEF Init, TypeOK

LEMMA TypeNext == TypeOK /\ [Next]_vars => TypeOK'
<1> SUFFICES ASSUME TypeOK, [Next]_vars PROVE TypeOK'
  OBVIOUS
<1>1. keptn' \in BOOLEAN
  BY OutsideSteps DEF TypeOK, CreateInKeptn
<1>2. repo' \in Compositions \cup {None, Initial}
  <2>1. PushShipyard => shipyardJob # Idle /\ repo' = shipyardJob.comp
    BY DEF PushShipyard, Idle
  <2>2. CreateInKeptn => repo' = Initial
    BY DEF CreateInKeptn
  <2> QED
    BY <2>1, <2>2, OutsideSteps, CompFacts DEF TypeOK
<1> QED
  BY <1>1, <1>2, ObjectsTyped, JobsTyped, OrphansTyped, CountersTyped DEF TypeOK

-----------------------------------------------------------------------------
(* The project in Keptn.                                                   *)

\* The object is kept: its project may be created in Keptn.
Kept(v) == v # None /\ v.finalizer /\ ~v.deleting

\* From version a on it is one object with its finalizer: nobody removes it.
Life(s, a) ==
  \A j \in a..Len(s) : /\ s[j] # None /\ s[j].finalizer
                       /\ s[j].deleting => \A k \in j..Len(s) : s[k].deleting

\* The object a cache may show as kept is still there, with its finalizer.
Held(s) == \A i \in 1..Len(s) : Kept(s[i]) => Life(s, i)
KeptIsHeld == Held(project)

\* A project in Keptn has its object, whichever version the cache shows.
KeptnIsHeld == "refusal" \notin Happened /\ keptn => Life(project, 1)

\* What is about to be released is current, and its project is gone.
ReleaseIsFresh ==
  projectJob.pc = "release" /\ projectJob.fresh =>
    /\ Len(project) = 1
    /\ project[1] # None /\ project[1].deleting /\ project[1].finalizer
    /\ "refusal" \notin Happened => ~keptn

ProjectInv == TypeOK /\ KeptIsHeld /\ KeptnIsHeld /\ ReleaseIsFresh

LEMMA LifeLater ==
  ASSUME NEW s, Len(s) \in Nat, NEW a \in Nat, NEW b \in Nat, a <= b, Life(s, a)
  PROVE  Life(s, b)
BY DEF Life

LEMMA LifeRead ==
  ASSUME NEW s, Len(s) \in Nat, NEW t, Len(t) \in Nat, NEW k \in Nat,
         \A i \in 1..Len(t) : i + k \in 1..Len(s) /\ t[i] = s[i + k],
         NEW a \in 1..Len(t), Life(s, a + k)
  PROVE  Life(t, a)
<1> SUFFICES ASSUME NEW j \in a..Len(t)
             PROVE  /\ t[j] # None /\ t[j].finalizer
                    /\ t[j].deleting => \A l \in j..Len(t) : t[l].deleting
  BY DEF Life
<1>1. t[j] = s[j + k] /\ j + k \in (a + k)..Len(s)
  OBVIOUS
<1>2. ASSUME NEW l \in j..Len(t) PROVE t[l] = s[l + k] /\ l + k \in (j + k)..Len(s)
  OBVIOUS
<1> QED
  BY <1>1, <1>2 DEF Life

LEMMA LifeWritten ==
  ASSUME NEW s, Len(s) \in Nat, NEW t, Len(t) \in Nat \ {0}, NEW k \in {0, 1},
         \A i \in 1..Len(t) : i < Len(t) => i + k \in 1..Len(s) /\ t[i] = s[i + k],
         t[Len(t)] # None, t[Len(t)].finalizer,
         t[Len(t)].deleting \/ \A j \in 1..Len(s) : ~s[j].deleting,
         NEW a \in 1..Len(t), a < Len(t) => Life(s, a + k)
  PROVE  Life(t, a)
<1> SUFFICES ASSUME NEW j \in a..Len(t)
             PROVE  /\ t[j] # None /\ t[j].finalizer
                    /\ t[j].deleting => \A l \in j..Len(t) : t[l].deleting
  BY DEF Life
<1>1. CASE j = Len(t)
  BY <1>1
<1>2. CASE j < Len(t)
  <2>1. t[j] = s[j + k] /\ j + k \in (a + k)..Len(s) /\ j + k \in 1..Len(s) /\ a < Len(t)
    BY <1>2
  <2>2. t[j] # None /\ t[j].finalizer
    BY <2>1 DEF Life
  <2>3. ASSUME t[j].deleting, NEW l \in j..Len(t) PROVE t[l].deleting
    <3>1. CASE l = Len(t)
      BY <2>1, <2>3, <3>1
    <3>2. CASE l < Len(t)
      <4>1. t[l] = s[l + k] /\ l + k \in (j + k)..Len(s)
        BY <2>1, <3>2
      <4> QED
        BY <2>1, <2>3, <4>1 DEF Life
    <3> QED
      BY <3>1, <3>2
  <2> QED
    BY <2>2, <2>3
<1> QED
  BY <1>1, <1>2

\* Held objects stay held when their versions are read, or when a version of
\* the same object is written.
LEMMA HeldRead ==
  ASSUME NEW s, Len(s) \in Nat \ {0}, NEW t, Shifted(t, s)
  PROVE  (Held(s) => Held(t)) /\ (Life(s, 1) => Life(t, 1))
<1>1. PICK k \in Nat : \A i \in 1..Len(t) : i + k \in 1..Len(s) /\ t[i] = s[i + k]
  BY DEF Shifted
<1>2. Len(t) \in Nat \ {0}
  BY DEF Shifted
<1>3. ASSUME Held(s), NEW i \in 1..Len(t), Kept(t[i]) PROVE Life(t, i)
  <2>1. Life(s, i + k)
    BY <1>1, <1>3 DEF Held
  <2> QED
    BY <1>1, <1>2, <2>1, LifeRead
<1>4. ASSUME Life(s, 1) PROVE Life(t, 1)
  <2>1. Life(s, 1 + k)
    BY <1>4, LifeLater
  <2> QED
    BY <1>1, <1>2, <2>1, LifeRead
<1> QED
  BY <1>3, <1>4 DEF Held

LEMMA HeldWritten ==
  ASSUME NEW s, Len(s) \in Nat \ {0}, NEW t, NEW x, Written(t, s, x),
         x # None, x.finalizer, x.deleting \/ \A j \in 1..Len(s) : ~s[j].deleting
  PROVE  (Held(s) => Held(t)) /\ (Life(s, 1) => Life(t, 1))
<1>1. PICK k \in {0, 1} : \A i \in 1..Len(t) :
        i < Len(t) => i + k \in 1..Len(s) /\ t[i] = s[i + k]
  BY DEF Written
<1>2. Len(t) \in Nat \ {0} /\ t[Len(t)] = x
  BY DEF Written
<1>3. ASSUME Held(s), NEW i \in 1..Len(t), Kept(t[i]) PROVE Life(t, i)
  <2>1. i < Len(t) => Life(s, i + k)
    BY <1>1, <1>3 DEF Held
  <2> QED
    BY <1>1, <1>2, <2>1, LifeWritten
<1>4. ASSUME Life(s, 1) PROVE Life(t, 1)
  <2>1. Life(s, 1 + k)
    BY <1>4, LifeLater
  <2>2. 1 \in 1..Len(t)
    BY <1>2
  <2> QED
    BY <1>1, <1>2, <2>1, <2>2, LifeWritten
<1> QED
  BY <1>3, <1>4 DEF Held

\* Nothing is held when the stored object has no finalizer or is about to go.
LEMMA HeldEnds ==
  ASSUME NEW s, Len(s) \in Nat \ {0}, NEW t, NEW x, Written(t, s, x), ~Kept(x),
         \A i \in 1..Len(s) : ~Kept(s[i])
  PROVE  Held(t)
<1>1. PICK k \in {0, 1} : \A i \in 1..Len(t) :
        i < Len(t) => i + k \in 1..Len(s) /\ t[i] = s[i + k]
  BY DEF Written
<1>2. Len(t) \in Nat \ {0} /\ t[Len(t)] = x
  BY DEF Written
<1>3. ASSUME NEW i \in 1..Len(t) PROVE ~Kept(t[i])
  BY <1>1, <1>2
<1> QED
  BY <1>3 DEF Held

\* The versions of the project, and how they move.
LEMMA VersionFacts ==
  ASSUME TypeOK, [Next]_vars
  PROVE  /\ Len(project) \in Nat \ {0}
         /\ Cached(project) = project[1] /\ Stored(project) = project[Len(project)]
         /\ Read(project', project) => Shifted(project', project)
         /\ \A x \in Projects \cup {None} :
              project' = Push(project, x, "project") => Written(project', project, x)
<1> DEFINE S == Projects \cup {None}
<1>1. project \in Seq(S) /\ project # <<>> /\ "project" \in Objects
  BY DEF TypeOK, Objects
<1> HIDE DEF S
<1>2. /\ Len(project) \in Nat \ {0}
      /\ Cached(project) = project[1] /\ Stored(project) = project[Len(project)]
  BY <1>1, EndFacts
<1>3. Read(project', project) => Shifted(project', project)
  BY <1>1, ReadFacts
<1>4. \A x \in S :
        project' = Push(project, x, "project") => Written(project', project, x)
  BY <1>1, PushFacts
<1> QED
  BY <1>2, <1>3, <1>4 DEF S

\* A project that is maintained is current and not being deleted.
LEMMA MaintainedFacts ==
  ASSUME TypeOK, NEW x \in Projects, Maintained(x)
  PROVE  Len(project) = 1 /\ project[1] # None /\ ~project[1].deleting
BY EndFacts DEF TypeOK, Maintained, Alive

LEMMA KeptNext ==
  ASSUME ProjectInv, [Next]_vars
  PROVE  KeptIsHeld'
<1> USE VersionFacts DEF ProjectInv, KeptIsHeld
<1>1. CASE Read(project', project)
  BY <1>1, HeldRead
<1>2. ASSUME NEW x \in Projects, Maintained(x) \/ Deleted(x) PROVE Held(project')
  <2>1. x # None /\ x.finalizer /\ Written(project', project, x)
    BY <1>2, ProjectAssumption DEF Maintained, Deleted
  <2>2. x.deleting \/ \A j \in 1..Len(project) : ~project[j].deleting
    BY <1>2, MaintainedFacts DEF Deleted
  <2> QED
    BY <2>1, <2>2, HeldWritten
<1>3. ASSUME NEW x \in Projects, Created(x) PROVE Held(project')
  <2>1. Written(project', project, x) /\ ~Kept(x)
    BY <1>3 DEF Created, Kept
  <2>2. \A i \in 1..Len(project) : ~Kept(project[i])
    BY <1>3 DEF Created, Held, Life
  <2> QED
    BY <2>1, <2>2, HeldEnds
<1>4. CASE Removed
  <2>1. Written(project', project, None) /\ ~Kept(None)
    BY <1>4 DEF Removed, Kept
  <2>2. \A i \in 1..Len(project) : ~Kept(project[i])
    <3>1. CASE Release /\ projectJob.fresh
      <4>1. Len(project) = 1 /\ project[1].deleting
        BY <3>1 DEF Release, ReleaseIsFresh
      <4> QED
        BY <4>1 DEF Kept
    <3>2. CASE Stored(project) # None /\ ~Stored(project).finalizer
      <4> SUFFICES ASSUME NEW i \in 1..Len(project), Kept(project[i]) PROVE FALSE
        OBVIOUS
      <4>1. Life(project, i) /\ Len(project) \in i..Len(project)
        BY DEF Held
      <4>2. project[Len(project)].finalizer
        BY <4>1 DEF Life
      <4> QED
        BY <3>2, <4>2
    <3> QED
      BY <1>4, <3>1, <3>2 DEF Removed
  <2> QED
    BY <2>1, <2>2, HeldEnds
<1> QED
  BY <1>1, <1>2, <1>3, <1>4, ProjectSteps

LEMMA KeptnNext ==
  ASSUME ProjectInv, [Next]_vars
  PROVE  KeptnIsHeld'
<1> SUFFICES ASSUME "refusal" \notin Happened', keptn' PROVE Life(project', 1)
  BY DEF KeptnIsHeld
<1> USE VersionFacts DEF ProjectInv
<1>0. "refusal" \notin Happened
  BY DisturbedGrows
<1>1. CASE CreateInKeptn
  <2>1. project' = project /\ Kept(project[1])
    BY <1>1 DEF CreateInKeptn, Examined, Alive, Kept, cluster
  <2> QED
    BY <2>1 DEF KeptIsHeld, Held
<1>2. CASE keptn
  <2>1. Life(project, 1)
    BY <1>0, <1>2 DEF KeptnIsHeld
  <2>2. Stored(project) # None /\ Stored(project).finalizer
    BY <2>1 DEF Life
  <2>3. CASE Read(project', project)
    BY <2>1, <2>3, HeldRead
  <2>4. ASSUME NEW x \in Projects, Maintained(x) \/ Deleted(x) PROVE Life(project', 1)
    <3>1. x # None /\ x.finalizer /\ Written(project', project, x)
      BY <2>4, ProjectAssumption DEF Maintained, Deleted
    <3>2. x.deleting \/ \A j \in 1..Len(project) : ~project[j].deleting
      BY <2>4, MaintainedFacts DEF Deleted
    <3> QED
      BY <2>1, <3>1, <3>2, HeldWritten
  <2>5. ~Removed /\ \A x \in Projects : ~Created(x)
    BY <1>0, <1>2, <2>2 DEF Removed, Created, Release, ReleaseIsFresh
  <2> QED
    BY <2>3, <2>4, <2>5, ProjectSteps
<1> QED
  BY <1>1, <1>2, OutsideSteps

LEMMA ReleaseNext ==
  ASSUME ProjectInv, [Next]_vars
  PROVE  ReleaseIsFresh'
<1> SUFFICES ASSUME projectJob'.pc = "release", projectJob'.fresh
             PROVE  /\ Len(project') = 1
                    /\ project'[1] # None /\ project'[1].deleting /\ project'[1].finalizer
                    /\ "refusal" \notin Happened' => ~keptn'
  BY DEF ReleaseIsFresh
<1> USE VersionFacts DEF ProjectInv
<1>1. CASE DeleteInKeptn
  <2>1. project' = project /\ InSync(project)
    BY <1>1 DEF DeleteInKeptn, cluster
  <2>2. "refusal" \notin Happened' => ~keptn'
    BY <1>1 DEF DeleteInKeptn, Disturb, Happened
  <2> QED
    BY <1>1, <2>1, <2>2 DEF DeleteInKeptn, InSync
<1>2. CASE projectJob' = projectJob
  <2>1. /\ Len(project) = 1
        /\ project[1] # None /\ project[1].deleting /\ project[1].finalizer
        /\ "refusal" \notin Happened => ~keptn
    BY <1>2 DEF ReleaseIsFresh
  <2>2. projectJob # Idle /\ ~Release
    BY <1>2 DEF Idle, Release
  <2>3. Len(project') = 1 /\ project'[1] = project[1]
    <3>1. ~Removed /\ \A x \in Projects : ~Maintained(x) /\ ~Created(x) /\ ~Deleted(x)
      BY <2>1, <2>2, MaintainedFacts DEF Removed, Created, Deleted
    <3>2. project' = project \/ project' = <<Stored(project)>>
      <4>1. Read(project', project)
        BY <3>1, ProjectSteps
      <4> QED
        BY <2>1, <4>1 DEF Read
    <3> QED
      BY <2>1, <3>2
  <2>4. "refusal" \notin Happened' => ~keptn'
    BY <2>1, <2>2, OutsideSteps, DisturbedGrows DEF CreateInKeptn, Examined, DeleteInKeptn
  <2> QED
    BY <2>1, <2>3, <2>4
<1> QED
  BY <1>1, <1>2, JobSteps DEF ProjectCompose, Idle

LEMMA ProjectInit == Init => ProjectInv
<1> SUFFICES ASSUME Init PROVE ProjectInv
  OBVIOUS
<1>1. TypeOK
  BY TypeInit
<1>2. ~keptn /\ projectJob.pc # "release" /\ \A i \in 1..Len(project) : project[i] = None
  BY DEF Init, Idle
<1> QED
  BY <1>1, <1>2 DEF ProjectInv, KeptIsHeld, Held, Kept, KeptnIsHeld, ReleaseIsFresh

LEMMA ProjectNext == ProjectInv /\ [Next]_vars => ProjectInv'
BY TypeNext, KeptNext, KeptnNext, ReleaseNext DEF ProjectInv

THEOREM ProjectInvariance == Spec => []ProjectInv
<1> QED
  BY ProjectInit, ProjectNext, PTL DEF Spec

\* The types of the objects, the reconciliations and what is outside.
THEOREM TypeCorrect == Spec => []TypeOK
<1>1. ProjectInv => TypeOK
  BY DEF ProjectInv
<1> QED
  BY <1>1, ProjectInvariance, PTL

\* A KeptnProject that is gone has left no project in Keptn unless Keptn has
\* refused to delete it: lost answers, restarts, stale caches and failed
\* lookups of the project controller do no harm.
THEOREM DeletionsReachKeptn == Spec => []DeletedUnlessRefused
<1>1. ProjectInv => DeletedUnlessRefused
  <2> SUFFICES ASSUME ProjectInv, "refusal" \notin Happened, keptn
               PROVE  Stored(project) # None
    BY DEF DeletedUnlessRefused, DeletedMeansGone
  <2>1. Life(project, 1)
    BY DEF ProjectInv, KeptnIsHeld
  <2>2. /\ Len(project) \in Nat \ {0} /\ Stored(project) = project[Len(project)]
    BY EndFacts DEF ProjectInv, TypeOK
  <2> QED
    BY <2>1, <2>2 DEF Life
<1> QED
  BY <1>1, ProjectInvariance, PTL

-----------------------------------------------------------------------------
(* The record and the repository.                                          *)

\* The project is in Keptn, or on its way out of it for good.
Begun == /\ Stored(project) # None
         /\ keptn \/ \A i \in 1..Len(project) : project[i] # None /\ project[i].deleting

\* A composition is written for a project that Keptn has.
WriteIsKnown == disturbed = {} /\ projectJob.pc = "write" => keptn

\* The shipyard belongs to such a project, the record to the shipyard, unless
\* they wait for the collector.
ShipyardIsOwned ==
  disturbed = {} /\ Stored(shipyard) # None => "shipyard" \in orphans \/ Begun
RecordIsOwned ==
  Stored(record) # None => Stored(shipyard) # None \/ "record" \in orphans

\* The record a push started from is there until the push is recorded.
PushHasRecord ==
  shipyardJob # Idle => /\ shipyardJob.fresh => Stored(record) # None
                        /\ disturbed = {} /\ ~shipyardJob.fresh => Stored(record) = None

\* What is about to be recorded is what has been pushed.
PushIsRecorded ==
  disturbed = {} /\ orphans = {} /\ shipyardJob.pc = "record" /\ shipyardJob.fresh
    => repo = shipyardJob.comp

IInv == /\ ProjectInv
        /\ WriteIsKnown /\ ShipyardIsOwned /\ RecordIsOwned
        /\ PushHasRecord /\ PushIsRecorded /\ RecordIsPushed

\* What a step stores.
LEMMA StoredFacts ==
  ASSUME TypeOK, [Next]_vars
  PROVE  /\ Read(project', project) => Stored(project') = Stored(project)
         /\ Read(shipyard', shipyard) => Stored(shipyard') = Stored(shipyard)
         /\ Read(record', record) => Stored(record') = Stored(record)
         /\ \A x \in Shipyards \cup {None} :
              shipyard' = Push(shipyard, x, "shipyard") => Stored(shipyard') = x
         /\ \A x \in Compositions \cup {None, NotYet} :
              record' = Push(record, x, "record") => Stored(record') = x
<1> DEFINE P == Projects \cup {None}
           S == Shipyards \cup {None}
           R == Compositions \cup {None, NotYet}
<1>1. /\ project \in Seq(P) /\ project # <<>>
      /\ shipyard \in Seq(S) /\ shipyard # <<>>
      /\ record \in Seq(R) /\ record # <<>>
      /\ {"shipyard", "record"} \subseteq Objects
  BY DEF TypeOK, Objects
<1> HIDE DEF P, S, R
<1>2. /\ Read(project', project) => Stored(project') = Stored(project)
      /\ Read(shipyard', shipyard) => Stored(shipyard') = Stored(shipyard)
      /\ Read(record', record) => Stored(record') = Stored(record)
  BY <1>1, ReadFacts DEF Shifted
<1>3. \A x \in S : shipyard' = Push(shipyard, x, "shipyard") => Stored(shipyard') = x
  BY <1>1, PushFacts DEF Written
<1>4. \A x \in R : record' = Push(record, x, "record") => Stored(record') = x
  BY <1>1, PushFacts DEF Written
<1> QED
  BY <1>2, <1>3, <1>4 DEF S, R

\* What a step stores of the shipyard and of the record, and who stores it.
LEMMA StoredSteps ==
  ASSUME TypeOK, [Next]_vars
  PROVE  /\ \/ Stored(shipyard') = Stored(shipyard)
            \/ Stored(shipyard') # None /\ (ProjectWrite \/ Stored(shipyard) # None)
            \/ Stored(shipyard') = None /\ CollectShipyard
         /\ \/ Stored(record') = Stored(record)
            \/ Stored(record') = NotYet /\ CreateRecord
            \/ Stored(record') = shipyardJob.comp /\ WriteRecord /\ shipyardJob.fresh
            \/ Stored(record') = None /\ CollectRecord
         /\ WriteRecord /\ shipyardJob.fresh => Stored(record') = shipyardJob.comp
<1> USE StoredFacts, CompFacts
<1>1. None \notin Shipyards
  BY ProjectAssumption
<1>2. WriteRecord => shipyardJob # Idle
  BY DEF WriteRecord, Idle
<1>3. WriteRecord /\ shipyardJob.fresh => Stored(record') = shipyardJob.comp
  BY <1>2 DEF WriteRecord
<1>4. CreateRecord => Stored(record') = NotYet
  BY DEF CreateRecord
<1>5. CollectRecord => Stored(record') = None
  BY DEF CollectRecord
<1> QED
  BY <1>1, <1>3, <1>4, <1>5, ShipyardSteps, RecordSteps

\* Orphans wait for the collector, which passes on what the shipyard owned.
LEMMA OrphanSteps ==
  ASSUME [Next]_vars
  PROVE  /\ "shipyard" \in orphans => "shipyard" \in orphans' \/ CollectShipyard
         /\ "record" \in orphans => "record" \in orphans' \/ CollectRecord
         /\ orphans' = {} /\ orphans # {} =>
              CollectRecord \/ (CollectShipyard /\ Stored(record) = None)
<1>1. CASE ProjectWrites
  BY <1>1 DEF ProjectWrites, AddFinalizer, Forget, Know, Release, CreateProject,
       DeleteProject, Remove
<1>2. CASE ShipyardWrites
  BY <1>2 DEF ShipyardWrites, StageWrite, ProjectWrite, KnowProject, CollectShipyard
<1>3. CASE RecordWrites
  BY <1>3 DEF RecordWrites, CreateRecord, WriteRecord, CollectRecord
<1>4. CASE NoWrites
  BY <1>4 DEF NoWrites, StageCompose, CreateInKeptn, ProjectCompose, DeleteInKeptn,
       DeletionAnswerLost, StartPush, PushShipyard, NoCredentials, ExternalDeletion,
       CallFails, EditSource, cluster
<1>5. CASE Reads \/ UNCHANGED vars
  BY <1>5 DEF Reads, SyncProject, SyncShipyard, SyncRecord, Crash, cluster, vars
<1> QED
  BY <1>1, <1>2, <1>3, <1>4, <1>5, StepSplit

\* A project that has begun ends only with its removal, which orphans the rest.
LEMMA BegunNext ==
  ASSUME ProjectInv, [Next]_vars, disturbed' = {}, Begun, ~Removed
  PROVE  Begun'
<1> USE VersionFacts, DisturbedGrows DEF ProjectInv
<1>1. CASE DeleteInKeptn /\ keptn
  <2>1. project' = project /\ Cached(project).deleting
    BY <1>1 DEF DeleteInKeptn, cluster
  <2>2. Life(project, 1)
    BY <1>1 DEF KeptnIsHeld
  <2>3. \A i \in 1..Len(project) : project[i] # None /\ project[i].deleting
    BY <2>1, <2>2 DEF Life
  <2> QED
    BY <2>1, <2>3 DEF Begun
<1>2. CASE keptn /\ ~DeleteInKeptn
  <2>1. keptn'
    BY <1>2, OutsideSteps DEF CreateInKeptn
  <2>2. Stored(project') # None
    <3>1. CASE Read(project', project)
      BY <3>1, StoredFacts DEF Begun
    <3>2. ASSUME NEW x \in Projects, project' = Push(project, x, "project")
          PROVE  Stored(project') # None
      BY <3>2, ProjectAssumption DEF Written
    <3> QED
      BY <3>1, <3>2, ProjectSteps DEF Maintained, Created, Deleted
  <2> QED
    BY <2>1, <2>2 DEF Begun
<1>3. CASE ~keptn
  <2>1. \A i \in 1..Len(project) : project[i] # None /\ project[i].deleting
    BY <1>3 DEF Begun
  <2>2. 1 \in 1..Len(project) /\ Len(project) \in 1..Len(project)
    OBVIOUS
  <2>3. Read(project', project)
    BY <2>1, <2>2, MaintainedFacts, ProjectSteps DEF Created, Deleted
  <2>4. Stored(project') # None
    BY <2>3, StoredFacts DEF Begun
  <2>5. \A i \in 1..Len(project') : project'[i] # None /\ project'[i].deleting
    BY <2>1, <2>3 DEF Shifted
  <2> QED
    BY <2>4, <2>5 DEF Begun
<1> QED
  BY <1>1, <1>2, <1>3

LEMMA OwnedNext ==
  ASSUME IInv, [Next]_vars
  PROVE  WriteIsKnown' /\ ShipyardIsOwned' /\ RecordIsOwned'
<1> USE DisturbedGrows, StoredSteps DEF IInv, ProjectInv
<1>1. ASSUME disturbed' = {}, projectJob'.pc = "write" PROVE keptn'
  <2>1. projectJob' = projectJob \/ ProjectCompose
    <3>1. projectJob' # Idle
      BY <1>1 DEF Idle
    <3>2. ~DeleteInKeptn
      BY <1>1 DEF DeleteInKeptn
    <3> QED
      BY <3>1, <3>2, JobSteps
  <2>2. keptn
    BY <1>1, <2>1 DEF WriteIsKnown, ProjectCompose
  <2>3. ~DeleteInKeptn
    BY <1>1 DEF DeleteInKeptn
  <2> QED
    BY <1>1, <2>2, <2>3, OutsideSteps DEF CreateInKeptn
<1>2. ASSUME disturbed' = {}, Stored(shipyard') # None
      PROVE  "shipyard" \in orphans' \/ Begun'
  <2>1. CASE Stored(shipyard) # None
    <3>1. "shipyard" \in orphans \/ Begun
      BY <1>2, <2>1 DEF ShipyardIsOwned
    <3>2. CASE "shipyard" \in orphans
      <4>1. ~CollectShipyard
        <5>1. None \in Shipyards \cup {None}
          OBVIOUS
        <5> QED
          BY <1>2, <5>1, StoredFacts DEF CollectShipyard
      <4> QED
        BY <3>2, <4>1, OrphanSteps
    <3>3. CASE Begun /\ ~Removed
      BY <1>2, <3>3, BegunNext
    <3>4. CASE Removed
      BY <2>1, <3>4 DEF Removed
    <3> QED
      BY <3>1, <3>2, <3>3, <3>4
  <2>2. CASE ProjectWrite
    <3>1. keptn /\ keptn' = keptn /\ project' = project
      BY <1>2, <2>2 DEF ProjectWrite, WriteIsKnown, outside
    <3>2. Life(project, 1)
      BY <1>2, <3>1 DEF KeptnIsHeld
    <3>3. Stored(project) # None
      BY <3>2, VersionFacts DEF Life
    <3> QED
      BY <3>1, <3>3 DEF Begun
  <2> QED
    BY <1>2, <2>1, <2>2
<1>3. ASSUME Stored(record') # None
      PROVE  Stored(shipyard') # None \/ "record" \in orphans'
  <2>1. CASE Stored(record) # None
    <3>1. Stored(shipyard) # None \/ "record" \in orphans
      BY <2>1 DEF RecordIsOwned
    <3>2. CASE "record" \in orphans
      <4>1. ~CollectRecord
        <5>1. None \in Compositions \cup {None, NotYet}
          OBVIOUS
        <5> QED
          BY <1>3, <5>1, StoredFacts DEF CollectRecord
      <4> QED
        BY <3>2, <4>1, OrphanSteps
    <3>3. CASE Stored(shipyard) # None /\ CollectShipyard
      BY <2>1, <3>3 DEF CollectShipyard
    <3>4. CASE Stored(shipyard) # None /\ ~CollectShipyard
      BY <3>4
    <3> QED
      BY <3>1, <3>2, <3>3, <3>4
  <2>2. CASE CreateRecord
    BY <2>2 DEF CreateRecord
  <2>3. CASE WriteRecord /\ shipyardJob.fresh
    BY <2>1, <2>3 DEF WriteRecord, PushHasRecord, Idle
  <2> QED
    BY <1>3, <2>1, <2>2, <2>3
<1> QED
  BY <1>1, <1>2, <1>3 DEF WriteIsKnown, ShipyardIsOwned, RecordIsOwned

LEMMA PushHasRecordNext ==
  ASSUME IInv, [Next]_vars
  PROVE  PushHasRecord'
<1> SUFFICES ASSUME shipyardJob' # Idle
             PROVE  /\ shipyardJob'.fresh => Stored(record') # None
                    /\ disturbed' = {} /\ ~shipyardJob'.fresh => Stored(record') = None
  BY DEF PushHasRecord
<1> USE DisturbedGrows, StoredSteps DEF IInv, ProjectInv
<1>1. CASE shipyardJob' = shipyardJob /\ ~CollectRecord
  <2>1. ~CreateRecord /\ ~WriteRecord
    BY <1>1 DEF CreateRecord, WriteRecord
  <2>2. Stored(record') = Stored(record)
    BY <1>1, <2>1
  <2> QED
    BY <1>1, <2>2 DEF PushHasRecord
<1>2. CASE StartPush
  <2>1. /\ record' = record /\ Stored(record') = Stored(record)
        /\ shipyardJob'.fresh = InSync(record)
        /\ Cached(record) # None
    BY <1>2 DEF StartPush, Changed, cluster
  <2>2. InSync(record) => Stored(record) = Cached(record)
    BY EndFacts DEF TypeOK
  <2>3. ~InSync(record) => disturbed' # {}
    BY <1>2 DEF StartPush, Disturb
  <2> QED
    BY <2>1, <2>2, <2>3
<1>3. CASE PushShipyard
  <2>1. shipyardJob \in PushJobs /\ shipyardJob # Idle
    BY <1>3, CompFacts DEF PushShipyard, Idle
  <2>2. record' = record /\ shipyardJob' = [shipyardJob EXCEPT !.pc = "record"]
    BY <1>3 DEF PushShipyard, cluster
  <2>3. shipyardJob'.fresh = shipyardJob.fresh
    BY <2>1, <2>2 DEF PushJobs
  <2> QED
    BY <2>1, <2>2, <2>3 DEF PushHasRecord
<1>4. CASE CollectRecord
  <2>1. Stored(record') = None
    <3>1. None \in Compositions \cup {None, NotYet}
      OBVIOUS
    <3> QED
      BY <1>4, <3>1, StoredFacts DEF CollectRecord
  <2>2. ~shipyardJob'.fresh
    BY <1>4, CompFacts DEF CollectRecord, PushJobs
  <2> QED
    BY <2>1, <2>2
<1> QED
  BY <1>1, <1>2, <1>3, <1>4, JobSteps DEF NoCredentials, WriteRecord

\* Keptn is asked for a project only where no record is left of an older one.
LEMMA CreatedAnew ==
  ASSUME IInv, CreateInKeptn, disturbed = {}, orphans = {}
  PROVE  Stored(record) = None
<1> SUFFICES ASSUME Stored(record) # None PROVE FALSE
  OBVIOUS
<1>1. Begun
  BY DEF IInv, RecordIsOwned, ShipyardIsOwned
<1>2. ~keptn /\ Cached(project) # None /\ ~Cached(project).deleting
  BY DEF CreateInKeptn, Examined, Alive
<1>3. 1 \in 1..Len(project) /\ Cached(project) = project[1]
  BY EndFacts DEF IInv, ProjectInv, TypeOK
<1> QED
  BY <1>1, <1>2, <1>3 DEF Begun

LEMMA PushNext ==
  ASSUME IInv, [Next]_vars
  PROVE  PushIsRecorded'
<1> SUFFICES ASSUME disturbed' = {}, orphans' = {},
                    shipyardJob'.pc = "record", shipyardJob'.fresh
             PROVE  repo' = shipyardJob'.comp
  BY DEF PushIsRecorded
<1> USE DisturbedGrows DEF IInv, ProjectInv
<1>1. CASE PushShipyard
  <2>1. shipyardJob \in PushJobs
    BY <1>1, CompFacts DEF PushShipyard, Idle
  <2> QED
    BY <1>1, <2>1 DEF PushShipyard, PushJobs, Idle
<1>2. CASE CollectRecord
  BY <1>2, CompFacts DEF CollectRecord, PushJobs, Idle
<1>3. CASE shipyardJob' = shipyardJob /\ ~CollectRecord /\ ~PushShipyard
  <2>1. Stored(record) # None
    BY <1>3 DEF PushHasRecord, Idle
  <2>2. orphans = {}
    BY <1>3, <2>1, OrphanSteps
  <2>3. ~CreateInKeptn
    BY <2>1, <2>2, CreatedAnew
  <2>4. repo' = repo
    BY <1>3, <2>3, OutsideSteps
  <2> QED
    BY <1>3, <2>2, <2>4 DEF PushIsRecorded
<1> QED
  BY <1>1, <1>2, <1>3, JobSteps DEF StartPush, NoCredentials, WriteRecord, Idle

LEMMA RecordNext ==
  ASSUME IInv, [Next]_vars
  PROVE  RecordIsPushed'
<1> SUFFICES ASSUME disturbed' = {}, orphans' = {}, Stored(record') \in Compositions
             PROVE  repo' = Stored(record') \/ shipyardJob'.pc = "record"
  BY DEF RecordIsPushed
<1> USE DisturbedGrows, StoredSteps DEF IInv, ProjectInv
<1>0. Stored(record') # None /\ Stored(record') # NotYet
  BY ProjectAssumption
<1>1. ~CollectRecord /\ Stored(record) # None /\ orphans = {}
  <2>1. ~CollectRecord
    <3>1. None \in Compositions \cup {None, NotYet}
      OBVIOUS
    <3> QED
      BY <1>0, <3>1, StoredFacts DEF CollectRecord
  <2>2. Stored(record) # None
    BY <1>0, <2>1 DEF WriteRecord, PushHasRecord, Idle
  <2> QED
    BY <2>1, <2>2, OrphanSteps
<1>2. ~CreateInKeptn
  BY <1>1, CreatedAnew
<1>3. CASE WriteRecord
  <2>1. shipyardJob.fresh
    BY <1>1, <1>3 DEF WriteRecord, PushHasRecord, Idle
  <2>2. repo = shipyardJob.comp /\ repo' = repo
    BY <1>1, <1>3, <2>1 DEF WriteRecord, PushIsRecorded, outside
  <2> QED
    BY <1>3, <2>1, <2>2
<1>4. CASE PushShipyard
  <2>1. shipyardJob \in PushJobs /\ shipyardJob' = [shipyardJob EXCEPT !.pc = "record"]
    BY <1>4, CompFacts DEF PushShipyard, Disturb, Idle
  <2> QED
    BY <2>1 DEF PushJobs
<1>5. CASE ~WriteRecord /\ ~PushShipyard
  <2>1. Stored(record') = Stored(record) /\ repo' = repo
    BY <1>0, <1>1, <1>2, <1>5, OutsideSteps
  <2>2. repo = Stored(record) \/ shipyardJob.pc = "record"
    BY <1>1, <2>1 DEF RecordIsPushed
  <2>3. shipyardJob.pc = "record" => shipyardJob' = shipyardJob
    BY <1>1, <1>5, JobSteps DEF StartPush, Changed, NoCredentials, Idle
  <2> QED
    BY <2>1, <2>2, <2>3
<1> QED
  BY <1>3, <1>4, <1>5

LEMMA IInvInit == Init => IInv
<1> SUFFICES ASSUME Init PROVE IInv
  OBVIOUS
<1>1. Stored(record) = None /\ Stored(shipyard) = None
  BY DEF Init, Stored
<1> QED
  BY <1>1, ProjectInit, ProjectAssumption
     DEF IInv, Init, Idle, WriteIsKnown, ShipyardIsOwned, RecordIsOwned, PushHasRecord,
         PushIsRecorded, RecordIsPushed

THEOREM Invariance == Spec => []IInv
<1>1. IInv /\ [Next]_vars => IInv'
  BY ProjectNext, OwnedNext, PushHasRecordNext, PushNext, RecordNext DEF IInv
<1> QED
  BY <1>1, IInvInit, PTL DEF Spec

\* The recorded hash is that of the shipyard in the repository, except between
\* a push and its record, and while a deleted project is being collected: a
\* project that is made anew, with the shipyard Keptn puts there, finds no
\* record of the one before.
THEOREM RecordsArePushed == Spec => []RecordIsPushed
<1>1. IInv => RecordIsPushed
  BY DEF IInv
<1> QED
  BY <1>1, Invariance, PTL

=============================================================================
