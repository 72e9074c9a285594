-------------------------- MODULE KeptnTasksProofs --------------------------
(***************************************************************************)
(* Theorems about KeptnTasks, for every number of tokens, specs,           *)
(* deletions and disturbances and every lag of the caches: the types, that *)
(* a service whose object is gone is gone from Keptn too, that Keptn is    *)
(* never asked to execute an older spec after a newer one, and how often   *)
(* it is asked at most.                                                    *)
(***************************************************************************)
EXTENDS KeptnTasks, ClusterObjectsProofs

-----------------------------------------------------------------------------
(* The instances share the operators of ClusterObjects.                    *)

\* What the proofs need to know of a disturbance, of whichever instance.
Happens(kind) == \E d \in Disturbances \ disturbed :
                   d[1] = kind /\ disturbed' = disturbed \cup {d}

LEMMA SharedOperators ==
  /\ \A s : Service!Cached(s) = Cached(s) /\ Service!Stored(s) = Stored(s)
            /\ (Service!InSync(s) <=> InSync(s))
  /\ \A s, x : Service!Push(s, x) = Push(s, x)
  /\ \A kind : Service!Disturb(kind) => Happens(kind)
  /\ \A s : Execution!Cached(s) = Cached(s) /\ Execution!Stored(s) = Stored(s)
            /\ (Execution!InSync(s) <=> InSync(s))
  /\ \A s, x : Execution!Push(s, x) = Push(s, x)
  /\ \A kind : Execution!Disturb(kind) => Happens(kind)
  /\ \A kind : Disturb(kind) => Happens(kind)
<1>1. \A s : Service!Cached(s) = Cached(s) /\ Service!Stored(s) = Stored(s)
             /\ (Service!InSync(s) <=> InSync(s))
  BY Zenon DEF Service!Cached, Cached, Service!Stored, Stored, Service!InSync, InSync
<1>2. \A s, x : Service!Push(s, x) = Push(s, x)
  BY <1>1, Zenon DEF Service!Push, Push
<1>3. \A kind : Service!Disturb(kind) => Happens(kind)
  BY Zenon DEF Service!Disturb, Happens
<1>4. \A s : Execution!Cached(s) = Cached(s) /\ Execution!Stored(s) = Stored(s)
             /\ (Execution!InSync(s) <=> InSync(s))
  BY Zenon DEF Execution!Cached, Cached, Execution!Stored, Stored, Execution!InSync, InSync
<1>5. \A s, x : Execution!Push(s, x) = Push(s, x)
  BY <1>4, Zenon DEF Execution!Push, Push
<1>6. \A kind : Execution!Disturb(kind) => Happens(kind)
  BY Zenon DEF Execution!Disturb, Happens
<1>7. \A kind : Disturb(kind) => Happens(kind)
  BY Zenon DEF Disturb, Happens
<1> QED
  BY <1>1, <1>2, <1>3, <1>4, <1>5, <1>6, <1>7

-----------------------------------------------------------------------------
(* Types of the KeptnInstance.                                             *)

InstanceOK == /\ Instance!TypeOK
              /\ project \in Service!Projects
              /\ disturbed \subseteq Disturbances

LEMMA InstanceInit == Init => InstanceOK
BY TasksAssumption
   DEF Init, Instance!Init, Instance!TypeOK, Instance!Tokens, Service!Projects, InstanceOK

\* A step adds one kind of disturbance at most.
LEMMA DisturbedNext ==
  ASSUME [Next]_vars
  PROVE  disturbed' = disturbed \/ \E kind : Happens(kind)
<1> USE SharedOperators
<1>1. CASE InstanceController \/ Secrets \/ DeliverSecret
  BY <1>1 DEF InstanceController, Secrets, DeliverSecret
<1>2. CASE ServiceController
  BY <1>2 DEF ServiceController, Service!Reconcile, Service!AddFinalizer,
       Service!ProjectMissing, Service!ProjectFound, Service!Write,
       Service!CreateService, Service!DeleteInKeptn, Service!Release, Service!bounds
<1>3. CASE ExecutionController
  BY <1>3 DEF ExecutionController, Execution!Reconcile, Execution!ProjectMissing,
       Execution!ProjectFound, Execution!ServiceMissing, Execution!ServiceFound,
       Execution!Trigger, Execution!Decide, Execution!WriteStatus
<1>4. CASE OnlyProject /\ ProjectController
  BY <1>4 DEF ProjectController, KnowProject, ForgetProject
<1>5. CASE LostAnswers \/ Informers
  BY <1>5 DEF LostAnswers, Informers, Service!DeletionFails, Service!Sync,
       Service!bounds, Execution!TriggerAnswerLost, Execution!Sync
<1>6. CASE Users
  BY <1>6 DEF Users, Service!Environment, Service!CreateObject, Service!DeleteObject,
       Service!ExternalDeletion, Service!bounds, Execution!Edit, CreateProject,
       DeleteProject
<1>7. CASE CallFails \/ Crash
  BY <1>7 DEF CallFails, Crash
<1>8. CASE UNCHANGED vars
  BY <1>8 DEF vars
<1> QED
  BY <1>1, <1>2, <1>3, <1>4, <1>5, <1>6, <1>7, <1>8 DEF Next

LEMMA InstanceNext ==
  ASSUME InstanceOK, [Next]_vars
  PROVE  InstanceOK'
<1>1. disturbed' \subseteq Disturbances
  BY DisturbedNext DEF InstanceOK, Happens
<1>2. Instance!TypeOK'
  <2> USE TasksAssumption DEF InstanceOK, Instance!TypeOK, Instance!Tokens
  <2>1. CASE InstanceController \/ Secrets \/ DeliverSecret
    <3>1. CASE Instance!Refresh
      BY <3>1 DEF Instance!Refresh, Instance!GetKeptnCPToken
    <3>2. CASE Instance!Age \/ Instance!LoseSecret \/ Instance!DeliverSecret
      BY <3>2 DEF Instance!Age, Instance!LoseSecret, Instance!DeliverSecret
    <3>3. CASE Instance!Rotate
      BY <3>3 DEF Instance!Rotate
    <3> QED
      BY <2>1, <3>1, <3>2, <3>3
         DEF InstanceController, Instance!Controller, Secrets, DeliverSecret
  <2>2. CASE UNCHANGED instanceVars
    BY <2>2 DEF InstanceOK, Instance!TypeOK, instanceVars
  <2>3. \/ InstanceController \/ Secrets \/ DeliverSecret
        \/ UNCHANGED instanceVars
    BY DEF Next, ServiceController, ExecutionController, LostAnswers, Informers, Users,
         CallFails, Crash, OnlyService, OnlyExecution, OnlyProject, vars
  <2> QED
    BY <2>1, <2>2, <2>3
<1>3. project' \in Service!Projects
  <2>1. CASE ProjectController \/ CreateProject \/ DeleteProject
    BY <2>1 DEF ProjectController, KnowProject, ForgetProject, CreateProject,
         DeleteProject, Service!Projects
  <2>2. \/ ProjectController \/ CreateProject \/ DeleteProject
        \/ UNCHANGED project
    BY DEF Next, InstanceController, Secrets, DeliverSecret, ServiceController,
         ExecutionController, LostAnswers, Informers, Users, CallFails, Crash,
         OnlyInstance, OnlyService, OnlyExecution, vars
  <2> QED
    BY <2>1, <2>2 DEF InstanceOK
<1> QED
  BY <1>1, <1>2, <1>3 DEF InstanceOK

-----------------------------------------------------------------------------
(* Types of the KeptnService.                                              *)

Versions == Service!Objects \cup {None}

LEMMA ServiceFacts ==
  ASSUME Service!TypeOK
  PROVE  /\ service \in Seq(Versions) /\ service # <<>>
         /\ Stored(service) \in Versions /\ Cached(service) \in Versions
         /\ Len(service) \in Nat \ {0}
         /\ Cached(service) = service[1] /\ Stored(service) = service[Len(service)]
         /\ InSync(service) => Stored(service) = Cached(service)
<1>1. service \in Seq(Versions) /\ service # <<>>
  BY DEF Service!TypeOK, Versions
<1> QED
  BY <1>1, EndFacts

LEMMA ServiceInit == Init => Service!TypeOK
<1> SUFFICES ASSUME Init PROVE Service!TypeOK
  OBVIOUS
<1>1. service = <<None>> /\ registered = FALSE /\ deletions = 0
      /\ serviceJob = Service!Idle
  BY DEF Init, Service!Init
<1>2. service \in Seq(Versions) /\ Len(service) = 1
  BY <1>1 DEF Versions
<1>3. service # <<>>
  BY <1>2
<1>4. registered \in BOOLEAN /\ deletions \in 0..MaxDeletions
  <2>1. MaxDeletions \in Nat
    BY TasksAssumption
  <2>2. 0 \in 0..MaxDeletions
    BY <2>1
  <2> QED
    BY <1>1, <2>2
<1>5. serviceJob \in Service!Jobs \cup {Service!Idle}
  BY <1>1
<1> QED
  BY <1>2, <1>3, <1>4, <1>5 DEF Service!TypeOK, Versions

\* The service as one step leaves it: written, cached, listed anew or left alone.
ServiceSteps ==
  \/ \E object \in Versions : service' = Push(service, object)
  \/ Len(service) # 1 /\ service' = Tail(service)
  \/ service' = <<Stored(service)>>
  \/ service' = service

LEMMA ServiceStepTyped ==
  ASSUME Service!TypeOK, ServiceSteps
  PROVE  service' \in Seq(Versions) \ {<<>>}
<1> USE ServiceFacts
<1>1. CASE \E object \in Versions : service' = Push(service, object)
  BY <1>1, PushFacts
<1>2. CASE Len(service) # 1 /\ service' = Tail(service)
  BY <1>2, TailFacts
<1>3. CASE service' = <<Stored(service)>>
  BY <1>3, RelistFacts
<1> QED
  BY <1>1, <1>2, <1>3 DEF ServiceSteps

\* What AddFinalizer, ProjectMissing and ProjectFound write.
LEMMA WriteFacts ==
  ASSUME Service!TypeOK,
         Service!AddFinalizer \/ Service!ProjectMissing \/ Service!ProjectFound
  PROVE  /\ \E object \in Service!Objects :
              /\ object.finalizer
              /\ object.deleting = FALSE
              /\ service' = Push(service, object)
         /\ InSync(service)
         /\ UNCHANGED <<registered, serviceJob, deletions>>
         /\ Cached(service) # None /\ ~Cached(service).deleting
<1> USE ServiceFacts, SharedOperators
<1>1. /\ Cached(service) # None /\ ~Cached(service).deleting
      /\ Cached(service) \in Service!Objects
  BY DEF Service!AddFinalizer, Service!ProjectMissing, Service!ProjectFound,
       Service!Examined, Service!Alive, Versions
<1>2. CASE Service!AddFinalizer
  <2>1. PICK known \in {FALSE, project = "known"} :
          Service!Write([Cached(service) EXCEPT !.finalizer = TRUE, !.known = known])
    BY <1>2 DEF Service!AddFinalizer
  <2> DEFINE object == [Cached(service) EXCEPT !.finalizer = TRUE, !.known = known]
  <2>2. object \in Service!Objects /\ object.finalizer /\ object.deleting = FALSE
    BY <1>1 DEF Service!Objects
  <2> QED
    BY <1>1, <2>1, <2>2 DEF Service!Write, Service!bounds
<1>3. CASE Service!ProjectMissing \/ Service!ProjectFound
  <2>1. PICK known \in BOOLEAN : Service!Write([Cached(service) EXCEPT !.known = known])
    BY <1>3 DEF Service!ProjectMissing, Service!ProjectFound
  <2> DEFINE object == [Cached(service) EXCEPT !.known = known]
  <2>2. Cached(service).finalizer
    BY <1>3 DEF Service!ProjectMissing, Service!ProjectFound, Service!Examined
  <2>3. object \in Service!Objects /\ object.finalizer /\ object.deleting = FALSE
    BY <1>1, <2>2 DEF Service!Objects
  <2> QED
    BY <1>1, <2>1, <2>3 DEF Service!Write, Service!bounds
<1> QED
  BY <1>2, <1>3

\* What the environment, the informer and the removal of the finalizer write.
LEMMA OtherWrites ==
  ASSUME Service!TypeOK
  PROVE  /\ Service!Release => \/ serviceJob.fresh /\ service' = Push(service, None)
                               \/ ~serviceJob.fresh /\ service' = service
         /\ Service!CreateObject =>
              \E object \in Service!Objects :
                /\ ~object.finalizer
                /\ service' = Push(service, object)
         /\ Service!DeleteObject =>
              /\ Stored(service) # None /\ ~Stored(service).deleting
              /\ \/ ~Stored(service).finalizer /\ service' = Push(service, None)
                 \/ /\ Stored(service).finalizer
                    /\ \E object \in Service!Objects :
                         /\ object.finalizer /\ object.deleting
                         /\ service' = Push(service, object)
         /\ Service!Sync => Len(service) # 1 /\ service' = Tail(service)
<1> USE ServiceFacts, SharedOperators
<1>1. Service!Release => \/ serviceJob.fresh /\ service' = Push(service, None)
                         \/ ~serviceJob.fresh /\ service' = service
  BY DEF Service!Release
<1>2. ASSUME Service!CreateObject
      PROVE  \E object \in Service!Objects :
               ~object.finalizer /\ service' = Push(service, object)
  <2> DEFINE object == [finalizer |-> FALSE, deleting |-> FALSE, known |-> FALSE]
  <2>1. object \in Service!Objects /\ ~object.finalizer
    BY DEF Service!Objects
  <2> QED
    BY <1>2, <2>1 DEF Service!CreateObject
<1>3. ASSUME Service!DeleteObject
      PROVE  /\ Stored(service) # None /\ ~Stored(service).deleting
             /\ \/ ~Stored(service).finalizer /\ service' = Push(service, None)
                \/ /\ Stored(service).finalizer
                   /\ \E object \in Service!Objects :
                        /\ object.finalizer /\ object.deleting
                        /\ service' = Push(service, object)
  <2> DEFINE object == [Stored(service) EXCEPT !.deleting = TRUE]
  <2>1. Stored(service) # None /\ ~Stored(service).deleting
    BY <1>3 DEF Service!DeleteObject
  <2>2. Stored(service) \in Service!Objects
    BY <2>1 DEF Versions
  <2>3. CASE Stored(service).finalizer
    <3>1. object \in Service!Objects /\ object.finalizer /\ object.deleting
      BY <2>2, <2>3 DEF Service!Objects
    <3> QED
      BY <1>3, <2>1, <2>3, <3>1 DEF Service!DeleteObject
  <2>4. CASE ~Stored(service).finalizer
    BY <1>3, <2>1, <2>4 DEF Service!DeleteObject
  <2> QED
    BY <2>1, <2>3, <2>4
<1>4. Service!Sync => Len(service) # 1 /\ service' = Tail(service)
  BY DEF Service!Sync, InSync
<1> QED
  BY <1>1, <1>2, <1>3, <1>4

\* The actions that may change the state of the KeptnService.
ServiceActions ==
  \/ Service!AddFinalizer \/ Service!ProjectMissing \/ Service!ProjectFound
  \/ Service!CreateService \/ Service!DeleteInKeptn \/ Service!DeletionFails
  \/ Service!Release \/ Service!CreateObject \/ Service!DeleteObject
  \/ Service!ExternalDeletion \/ Service!Sync
  \/ DeleteProject \/ CallFails \/ Crash

LEMMA ServiceSplit == [Next]_vars => ServiceActions \/ UNCHANGED serviceVars
BY DEF Next, InstanceController, ServiceController, ExecutionController,
     ProjectController, KnowProject, ForgetProject, CreateProject, LostAnswers,
     Informers, Secrets, DeliverSecret, Users, OnlyInstance, OnlyExecution, vars,
     ServiceActions, Service!Reconcile, Service!Environment, serviceVars

LEMMA ServiceNext ==
  ASSUME Service!TypeOK, [Next]_vars
  PROVE  Service!TypeOK'
<1> USE ServiceFacts, SharedOperators
<1>0. /\ registered \in BOOLEAN /\ serviceJob \in Service!Jobs \cup {Service!Idle}
      /\ deletions \in 0..MaxDeletions
  BY DEF Service!TypeOK
<1>1. service' \in Seq(Versions) \ {<<>>}
  <2>1. ServiceSteps
    <3>1. CASE Service!AddFinalizer \/ Service!ProjectMissing \/ Service!ProjectFound
      BY <3>1, WriteFacts DEF ServiceSteps, Versions
    <3>2. CASE Service!Release \/ Service!CreateObject \/ Service!DeleteObject \/ Service!Sync
      BY <3>2, OtherWrites DEF ServiceSteps, Versions
    <3>3. CASE Crash
      BY <3>3 DEF Crash, ServiceSteps
    <3>4. CASE Service!CreateService \/ Service!DeleteInKeptn \/ Service!DeletionFails
               \/ Service!ExternalDeletion \/ DeleteProject \/ CallFails
               \/ UNCHANGED serviceVars
      <4>1. service' = service
        BY <3>4 DEF Service!CreateService, Service!DeleteInKeptn, Service!DeletionFails,
             Service!ExternalDeletion, DeleteProject, CallFails, serviceVars
      <4> QED
        BY <4>1 DEF ServiceSteps
    <3> QED
      BY <3>1, <3>2, <3>3, <3>4, ServiceSplit DEF ServiceActions
  <2> QED
    BY <2>1, ServiceStepTyped
<1>2. registered' \in BOOLEAN
  <2>1. CASE Service!AddFinalizer \/ Service!ProjectMissing \/ Service!ProjectFound
    BY <1>0, <2>1, WriteFacts
  <2>2. CASE \/ Service!CreateService \/ Service!DeleteInKeptn \/ Service!DeletionFails
             \/ Service!Release \/ Service!CreateObject \/ Service!DeleteObject
             \/ Service!ExternalDeletion \/ Service!Sync
             \/ DeleteProject \/ CallFails \/ Crash \/ UNCHANGED serviceVars
    BY <1>0, <2>2 DEF Service!CreateService, Service!DeleteInKeptn,
         Service!DeletionFails, Service!Release, Service!CreateObject,
         Service!DeleteObject, Service!ExternalDeletion, Service!Sync, DeleteProject,
         CallFails, Crash, serviceVars
  <2> QED
    BY <2>1, <2>2, ServiceSplit DEF ServiceActions
<1>3. serviceJob' \in Service!Jobs \cup {Service!Idle}
  <2>1. CASE Service!AddFinalizer \/ Service!ProjectMissing \/ Service!ProjectFound
    BY <1>0, <2>1, WriteFacts
  <2>2. CASE Service!DeleteInKeptn
    <3>1. serviceJob' = [pc |-> "release", fresh |-> Len(service) = 1]
      BY <2>2 DEF Service!DeleteInKeptn, Service!Released, Service!InSync
    <3> QED
      BY <3>1 DEF Service!Jobs
  <2>3. CASE \/ Service!CreateService \/ Service!DeletionFails
             \/ Service!Release \/ Service!CreateObject \/ Service!DeleteObject
             \/ Service!ExternalDeletion \/ Service!Sync
             \/ DeleteProject \/ CallFails \/ Crash \/ UNCHANGED serviceVars
    BY <1>0, <2>3 DEF Service!CreateService,
         Service!DeletionFails, Service!Release, Service!CreateObject,
         Service!DeleteObject, Service!ExternalDeletion, Service!Sync, DeleteProject,
         CallFails, Crash, serviceVars
  <2> QED
    BY <2>1, <2>2, <2>3, ServiceSplit DEF ServiceActions
<1>4. deletions' \in 0..MaxDeletions
  <2>1. CASE Service!AddFinalizer \/ Service!ProjectMissing \/ Service!ProjectFound
    BY <1>0, <2>1, WriteFacts
  <2>2. CASE Service!DeleteObject
    BY <1>0, <2>2, TasksAssumption DEF Service!DeleteObject
  <2>3. CASE \/ Service!CreateService \/ Service!DeleteInKeptn \/ Service!DeletionFails
             \/ Service!Release \/ Service!CreateObject
             \/ Service!ExternalDeletion \/ Service!Sync
             \/ DeleteProject \/ CallFails \/ Crash \/ UNCHANGED serviceVars
    BY <1>0, <2>3 DEF Service!CreateService, Service!DeleteInKeptn,
         Service!DeletionFails, Service!Release, Service!CreateObject,
         Service!ExternalDeletion, Service!Sync, Service!bounds, DeleteProject,
         CallFails, Crash, serviceVars
  <2> QED
    BY <2>1, <2>2, <2>3, ServiceSplit DEF ServiceActions
<1> QED
  BY <1>1, <1>2, <1>3, <1>4 DEF Service!TypeOK, Versions

-----------------------------------------------------------------------------
(* Types of the KeptnSequenceExecution.                                    *)

Executions == Execution!Objects

LEMMA ExecutionFacts ==
  ASSUME Execution!TypeOK
  PROVE  /\ execution \in Seq(Executions) /\ execution # <<>>
         /\ Stored(execution) \in Executions /\ Cached(execution) \in Executions
<1>1. execution \in Seq(Executions) /\ execution # <<>>
  BY DEF Execution!TypeOK, Executions
<1> QED
  BY <1>1, EndFacts

LEMMA ExecutionInit == Init => Execution!TypeOK
<1> SUFFICES ASSUME Init PROVE Execution!TypeOK
  OBVIOUS
<1> DEFINE first == [gen |-> 1, projectExists |-> FALSE, serviceExists |-> FALSE,
                     updatePending |-> FALSE, lastApplied |-> NoHash]
<1>1. /\ execution = <<first>> /\ executionJob = Execution!Idle
      /\ sent = 0 /\ triggers = 0
  BY DEF Init, Execution!Init
<1>2. 1 \in 1..Len(Plan)
  <2>1. Len(Plan) \in Nat \ {0}
    BY TasksAssumption
  <2> QED
    BY <2>1
<1>3. first \in Executions
  BY <1>2 DEF Executions, Execution!Objects, Execution!Generations
<1> HIDE DEF first
<1>4. execution \in Seq(Executions) /\ Len(execution) = 1
  BY <1>1, <1>3
<1>5. execution # <<>>
  BY <1>4
<1> QED
  BY <1>1, <1>4, <1>5 DEF Execution!TypeOK, Executions

\* What the controller and an edit write, and the generation of it.
LEMMA ExecutionWrites ==
  ASSUME Execution!TypeOK,
         \/ Execution!ProjectMissing \/ Execution!ProjectFound
         \/ Execution!ServiceMissing \/ Execution!ServiceFound
         \/ Execution!WriteStatus \/ Execution!Edit
  PROVE  \/ \E object \in Executions :
              /\ execution' = Push(execution, object)
              /\ \/ InSync(execution) /\ object.gen = Cached(execution).gen
                 \/ /\ executionJob # Execution!Idle /\ executionJob.fresh
                    /\ object.gen = executionJob.copy.gen
                 \/ Execution!Edit /\ object.gen = Stored(execution).gen + 1
         \/ execution' = execution
<1> USE ExecutionFacts, SharedOperators
<1>0. /\ Cached(execution) \in Execution!Objects
      /\ Stored(execution) \in Execution!Objects
  BY DEF Executions
<1>1. CASE \/ Execution!ProjectMissing \/ Execution!ProjectFound
           \/ Execution!ServiceMissing \/ Execution!ServiceFound
  <2>1. ASSUME NEW object \in Executions, Execution!Write(object),
               object.gen = Cached(execution).gen
        PROVE  \E o \in Executions :
                 /\ execution' = Push(execution, o)
                 /\ InSync(execution) /\ o.gen = Cached(execution).gen
    BY <2>1 DEF Execution!Write
  <2> DEFINE a == [Cached(execution) EXCEPT !.projectExists = FALSE, !.updatePending = TRUE]
             b == [Cached(execution) EXCEPT !.projectExists = TRUE]
             c == [Cached(execution) EXCEPT !.serviceExists = FALSE, !.updatePending = TRUE]
             d == [Cached(execution) EXCEPT !.serviceExists = TRUE]
  <2>2. \A o \in {a, b, c, d} : o \in Executions /\ o.gen = Cached(execution).gen
    BY <1>0 DEF Executions, Execution!Objects
  <2>3. \E o \in {a, b, c, d} : Execution!Write(o)
    BY <1>1
       DEF Execution!ProjectMissing, Execution!ProjectFound, Execution!ServiceMissing,
         Execution!ServiceFound
  <2> HIDE DEF a, b, c, d
  <2> QED
    BY <2>1, <2>2, <2>3
<1>2. CASE Execution!WriteStatus
  <2>1. executionJob \in Execution!Jobs /\ executionJob # Execution!Idle
    BY <1>2 DEF Execution!WriteStatus, Execution!TypeOK
  <2> DEFINE object == [executionJob.copy EXCEPT
                          !.updatePending = FALSE,
                          !.lastApplied = Execution!SpecOf(executionJob.copy)]
  <2>2. executionJob.copy \in Execution!Objects
    BY <2>1 DEF Execution!Jobs
  <2>3. Execution!SpecOf(executionJob.copy) \in Execution!Specs
    BY <2>2 DEF Execution!SpecOf, Execution!Specs, Execution!Objects,
         Execution!Generations
  <2>4. object \in Executions /\ object.gen = executionJob.copy.gen
    BY <2>2, <2>3 DEF Executions, Execution!Objects
  <2>5. \/ executionJob.fresh /\ execution' = Push(execution, object)
        \/ ~executionJob.fresh /\ execution' = execution
    BY <1>2 DEF Execution!WriteStatus
  <2> QED
    BY <2>1, <2>4, <2>5
<1>3. CASE Execution!Edit
  <2> DEFINE object == [Stored(execution) EXCEPT !.gen = @ + 1]
  <2>1. Stored(execution).gen + 1 \in Execution!Generations
    <3>1. Len(Plan) \in Nat \ {0}
      BY TasksAssumption
    <3>2. Stored(execution).gen \in 1..Len(Plan) /\ Stored(execution).gen < Len(Plan)
      BY <1>0, <1>3 DEF Execution!Edit, Execution!Objects, Execution!Generations
    <3> QED
      BY <3>1, <3>2 DEF Execution!Generations
  <2>2. object \in Executions /\ object.gen = Stored(execution).gen + 1
    BY <1>0, <2>1 DEF Executions, Execution!Objects
  <2>3. execution' = Push(execution, object)
    BY <1>3 DEF Execution!Edit
  <2> QED
    BY <1>3, <2>2, <2>3
<1> QED
  BY <1>1, <1>2, <1>3

\* The actions that may change the state of the KeptnSequenceExecution.
ExecutionActions ==
  \/ Execution!ProjectMissing \/ Execution!ProjectFound
  \/ Execution!ServiceMissing \/ Execution!ServiceFound
  \/ Execution!Trigger \/ Execution!TriggerAnswerLost \/ Execution!WriteStatus
  \/ Execution!Edit \/ Execution!Sync \/ CallFails \/ Crash

LEMMA ExecutionSplit == [Next]_vars => ExecutionActions \/ UNCHANGED executionVars
BY DEF Next, InstanceController, ServiceController, ExecutionController, LostAnswers,
     Informers, Secrets, DeliverSecret, Users, OnlyInstance, OnlyService, OnlyProject,
     vars, ExecutionActions, Execution!Reconcile, executionVars

LEMMA ExecutionNext ==
  ASSUME Execution!TypeOK, [Next]_vars
  PROVE  Execution!TypeOK'
<1> USE ExecutionFacts, SharedOperators
<1>0. /\ executionJob \in Execution!Jobs \cup {Execution!Idle}
      /\ sent \in {0} \cup Execution!Generations /\ triggers \in Nat
  BY DEF Execution!TypeOK
<1>1. execution' \in Seq(Executions) \ {<<>>}
  <2>1. CASE \E object \in Executions : execution' = Push(execution, object)
    BY <2>1, PushFacts
  <2>2. CASE Execution!Sync
    <3>1. Len(execution) # 1 /\ execution' = Tail(execution)
      BY <2>2 DEF Execution!Sync, Execution!InSync
    <3> QED
      BY <3>1, TailFacts
  <2>3. CASE Crash
    <3>1. execution' = <<Stored(execution)>>
      BY <2>3 DEF Crash
    <3> QED
      BY <3>1, RelistFacts
  <2>4. CASE \/ Execution!Trigger \/ Execution!TriggerAnswerLost \/ CallFails
             \/ UNCHANGED executionVars
    BY <2>4 DEF Execution!Trigger, Execution!TriggerAnswerLost, CallFails, executionVars
  <2>5. CASE execution' = execution
    BY <2>5
  <2> QED
    BY <2>1, <2>2, <2>3, <2>4, <2>5, ExecutionWrites, ExecutionSplit DEF ExecutionActions
<1>2. sent' \in {0} \cup Execution!Generations /\ triggers' \in Nat
  <2>1. CASE Execution!Trigger \/ Execution!TriggerAnswerLost
    <3>1. Cached(execution).gen \in Execution!Generations
      BY DEF Executions, Execution!Objects
    <3> QED
      BY <1>0, <2>1, <3>1 DEF Execution!Trigger, Execution!TriggerAnswerLost, Execution!Accept
  <2>2. CASE \/ Execution!ProjectMissing \/ Execution!ProjectFound
             \/ Execution!ServiceMissing \/ Execution!ServiceFound
             \/ Execution!WriteStatus \/ Execution!Edit \/ Execution!Sync
             \/ CallFails \/ Crash \/ UNCHANGED executionVars
    BY <1>0, <2>2 DEF Execution!ProjectMissing, Execution!ProjectFound,
         Execution!ServiceMissing, Execution!ServiceFound, Execution!Write,
         Execution!WriteStatus, Execution!Edit, Execution!Sync, Execution!history,
         CallFails, Crash, executionVars
  <2> QED
    BY <2>1, <2>2, ExecutionSplit DEF ExecutionActions
<1>3. executionJob' \in Execution!Jobs \cup {Execution!Idle}
  <2>1. CASE Execution!Trigger
    <3>1. executionJob' = [pc |-> "status", copy |-> Cached(execution),
                           fresh |-> Len(execution) = 1]
      BY <2>1 DEF Execution!Trigger, Execution!InSync
    <3> QED
      BY <3>1 DEF Execution!Jobs, Executions
  <2>2. CASE Execution!Edit
    BY <1>0, <2>2 DEF Execution!Edit, Execution!Jobs
  <2>3. CASE \/ Execution!ProjectMissing \/ Execution!ProjectFound
             \/ Execution!ServiceMissing \/ Execution!ServiceFound
             \/ Execution!TriggerAnswerLost \/ Execution!WriteStatus
             \/ Execution!Sync \/ CallFails \/ Crash \/ UNCHANGED executionVars
    BY <1>0, <2>3 DEF Execution!ProjectMissing, Execution!ProjectFound,
         Execution!ServiceMissing, Execution!ServiceFound, Execution!Write,
         Execution!TriggerAnswerLost, Execution!WriteStatus, Execution!Sync,
         CallFails, Crash, executionVars
  <2> QED
    BY <2>1, <2>2, <2>3, ExecutionSplit DEF ExecutionActions
<1> QED
  BY <1>1, <1>2, <1>3 DEF Execution!TypeOK, Executions

-----------------------------------------------------------------------------
(* All types together.                                                     *)

LEMMA TypeInit == Init => TypeOK
BY InstanceInit, ServiceInit, ExecutionInit DEF TypeOK, InstanceOK

LEMMA TypeNext == TypeOK /\ [Next]_vars => TypeOK'
BY InstanceNext, ServiceNext, ExecutionNext DEF TypeOK, InstanceOK

-----------------------------------------------------------------------------
(* The inductive invariant: while Keptn has refused nothing, a service in  *)
(* Keptn has an object with a finalizer.                                   *)

Quiet == Happened \cap Refusals = {}

\* The token is good or not there yet, and good if a service has been created.
GoodToken ==
  /\ token = accepted => secret = accepted
  /\ registered => token = accepted

\* An object that is neither deleted nor without finalizer.
Kept(object) == /\ object # None
                /\ ~object.deleting
                /\ object.finalizer

Holds(object) == object # None /\ object.finalizer

\* Whatever a cache may show as kept still has its finalizer.
KeptIsHeld ==
  \A i \in 1..Len(service) : Kept(service[i]) => Holds(Stored(service))

\* A release that is not outdated comes after the deletion, and nobody has
\* touched the object since.
Releasing == serviceJob # Service!Idle /\ serviceJob.fresh

ReleaseIsDue == /\ Len(service) = 1
                /\ Stored(service) # None
                /\ Stored(service).deleting

IInv ==
  /\ TypeOK
  /\ KeptIsHeld
  /\ Releasing => ReleaseIsDue
  /\ Quiet => /\ GoodToken
              /\ registered => Holds(Stored(service))
              /\ Releasing => ~registered

\* A quiet future has a quiet past, and no refusal in between.
LEMMA QuietPast ==
  ASSUME [Next]_vars, Quiet'
  PROVE  /\ Quiet
         /\ \A kind \in Refusals : ~Happens(kind)
<1>1. Happened \subseteq Happened'
  BY DisturbedNext, HappenedGrows DEF Happens
<1>2. \A kind : Happens(kind) => kind \in Happened'
  BY DEF Happens, Happened
<1> QED
  BY <1>1, <1>2 DEF Quiet

-----------------------------------------------------------------------------
(* Versions of the service.                                                *)

\* The stored version after each kind of step.
LEMMA ServiceStored ==
  ASSUME Service!TypeOK
  PROVE  /\ \A object \in Versions :
              service' = Push(service, object) => Stored(service)' = object
         /\ Len(service) # 1 /\ service' = Tail(service) =>
              Stored(service)' = Stored(service)
         /\ service' = <<Stored(service)>> => Stored(service)' = Stored(service)
         /\ service' = service => Stored(service)' = Stored(service)
<1> USE ServiceFacts
<1>1. ASSUME NEW object \in Versions, service' = Push(service, object)
      PROVE  Stored(service)' = object
  BY <1>1, PushFacts
<1>2. ASSUME Len(service) # 1, service' = Tail(service)
      PROVE  Stored(service)' = Stored(service)
  BY <1>2, TailFacts
<1>3. ASSUME service' = <<Stored(service)>>
      PROVE  Stored(service)' = Stored(service)
  BY <1>3, RelistFacts
<1> QED
  BY <1>1, <1>2, <1>3

\* A write that keeps or sets the finalizer, or that finds nothing kept, or a
\* step that writes nothing.
LEMMA KeptAfter ==
  ASSUME Service!TypeOK, KeptIsHeld,
         \/ \E object \in Versions :
              /\ service' = Push(service, object)
              /\ \/ Holds(object)
                 \/ ~Kept(object) /\ \A i \in 1..Len(service) : ~Kept(service[i])
         \/ Len(service) # 1 /\ service' = Tail(service)
         \/ service' = <<Stored(service)>>
         \/ service' = service
  PROVE  KeptIsHeld'
<1> SUFFICES ASSUME NEW i \in 1..Len(service'), Kept(service'[i])
             PROVE  Holds(Stored(service)')
  BY DEF KeptIsHeld, Holds, Kept
<1> USE ServiceFacts
<1>1. ASSUME NEW object \in Versions, service' = Push(service, object),
             \/ Holds(object)
             \/ ~Kept(object) /\ \A j \in 1..Len(service) : ~Kept(service[j])
      PROVE  Holds(Stored(service)')
  <2>1. Stored(service)' = object
    BY <1>1, ServiceStored
  <2>2. service'[i] = object \/ \E j \in 1..Len(service) : service'[i] = service[j]
    BY <1>1, PushElements
  <2> QED
    BY <1>1, <2>1, <2>2
<1>2. CASE Len(service) # 1 /\ service' = Tail(service)
  <2>1. Stored(service)' = Stored(service)
    BY <1>2, ServiceStored
  <2>2. PICK j \in 1..Len(service) : service'[i] = service[j]
    BY <1>2, TailFacts
  <2> QED
    BY <2>1, <2>2 DEF KeptIsHeld
<1>3. CASE service' = <<Stored(service)>>
  <2>1. Stored(service)' = Stored(service) /\ service'[i] = Stored(service)
    BY <1>3, ServiceStored
  <2> QED
    BY <2>1 DEF Kept, Holds
<1>4. CASE service' = service
  BY <1>4, ServiceStored DEF KeptIsHeld
<1> QED
  BY <1>1, <1>2, <1>3, <1>4

\* Nothing is kept that is not held.
LEMMA NothingKept ==
  ASSUME KeptIsHeld, ~Holds(Stored(service))
  PROVE  \A i \in 1..Len(service) : ~Kept(service[i])
BY DEF KeptIsHeld

LEMMA KeptNext ==
  ASSUME Service!TypeOK, KeptIsHeld, Releasing => ReleaseIsDue, [Next]_vars
  PROVE  KeptIsHeld'
<1> USE ServiceFacts
<1>0. \A object \in Service!Objects : object # None
  BY TasksAssumption DEF Service!Objects
<1>1. CASE Service!AddFinalizer \/ Service!ProjectMissing \/ Service!ProjectFound
  <2>1. PICK object \in Service!Objects :
          object.finalizer /\ service' = Push(service, object)
    BY <1>1, WriteFacts
  <2> QED
    BY <1>0, <2>1, KeptAfter DEF Holds, Versions
<1>2. CASE Service!Release
  <2>1. CASE serviceJob.fresh /\ service' = Push(service, None)
    <3>1. serviceJob # Service!Idle
      BY <1>2 DEF Service!Release
    <3>2. Len(service) = 1 /\ Stored(service).deleting
      BY <2>1, <3>1 DEF Releasing, ReleaseIsDue
    <3>3. \A i \in 1..Len(service) : ~Kept(service[i])
      BY <3>2 DEF Kept
    <3> QED
      BY <2>1, <3>3, KeptAfter DEF Kept, Versions
  <2>2. CASE service' = service
    BY <2>2, KeptAfter
  <2> QED
    BY <1>2, <2>1, <2>2, OtherWrites
<1>3. CASE Service!CreateObject
  <2>1. PICK object \in Service!Objects :
          ~object.finalizer /\ service' = Push(service, object)
    BY <1>3, OtherWrites
  <2>2. ~Holds(Stored(service))
    BY <1>3, SharedOperators DEF Service!CreateObject, Holds
  <2> QED
    BY <2>1, <2>2, NothingKept, KeptAfter DEF Kept, Versions
<1>4. CASE Service!DeleteObject
  <2>1. CASE ~Stored(service).finalizer /\ service' = Push(service, None)
    <3>1. ~Holds(Stored(service))
      BY <2>1 DEF Holds
    <3> QED
      BY <2>1, <3>1, NothingKept, KeptAfter DEF Kept, Versions
  <2>2. CASE \E object \in Service!Objects :
               /\ object.finalizer /\ object.deleting
               /\ service' = Push(service, object)
    BY <1>0, <2>2, KeptAfter DEF Holds, Versions
  <2> QED
    BY <1>4, <2>1, <2>2, OtherWrites
<1>5. CASE Service!Sync
  BY <1>5, OtherWrites, KeptAfter
<1>6. CASE Crash
  BY <1>6, KeptAfter DEF Crash
<1>7. CASE Service!CreateService \/ Service!DeleteInKeptn \/ Service!DeletionFails
           \/ Service!ExternalDeletion \/ DeleteProject \/ CallFails
           \/ UNCHANGED serviceVars
  <2>1. service' = service
    BY <1>7 DEF Service!CreateService, Service!DeleteInKeptn, Service!DeletionFails,
         Service!ExternalDeletion, DeleteProject, CallFails, serviceVars
  <2> QED
    BY <2>1, KeptAfter
<1> QED
  BY <1>1, <1>2, <1>3, <1>4, <1>5, <1>6, <1>7, ServiceSplit DEF ServiceActions

-----------------------------------------------------------------------------
(* The deletion and the token.                                             *)

LEMMA ReleaseNext ==
  ASSUME Service!TypeOK, Releasing => ReleaseIsDue, [Next]_vars
  PROVE  Releasing' => ReleaseIsDue'
<1> USE ServiceFacts, SharedOperators
<1>1. CASE Service!DeleteInKeptn
  <2>1. /\ serviceJob' = [pc |-> "release", fresh |-> Len(service) = 1]
        /\ Cached(service) # None /\ Cached(service).deleting
        /\ service' = service
    BY <1>1 DEF Service!DeleteInKeptn, Service!Released, Service!Deleting, Service!InSync
  <2> QED
    BY <2>1 DEF Releasing, ReleaseIsDue, InSync, Stored
<1>2. CASE Service!Release \/ CallFails \/ Crash
  <2>1. serviceJob' = Service!Idle \/ UNCHANGED <<serviceJob, service>>
    BY <1>2 DEF Service!Release, CallFails, Crash
  <2> QED
    BY <2>1 DEF Releasing, ReleaseIsDue, Stored
<1>3. CASE \/ Service!AddFinalizer \/ Service!ProjectMissing \/ Service!ProjectFound
           \/ Service!CreateService \/ Service!DeletionFails
  <2>1. serviceJob = Service!Idle
    BY <1>3 DEF Service!AddFinalizer, Service!ProjectMissing, Service!ProjectFound,
         Service!CreateService, Service!DeletionFails, Service!Examined,
         Service!Alive, Service!Deleting
  <2>2. serviceJob' = serviceJob
    <3>1. CASE Service!CreateService \/ Service!DeletionFails
      BY <3>1 DEF Service!CreateService, Service!DeletionFails
    <3> QED
      BY <1>3, <3>1, WriteFacts
  <2> QED
    BY <2>1, <2>2 DEF Releasing
<1>4. CASE Service!CreateObject \/ Service!DeleteObject \/ Service!Sync
  <2>1. ~ReleaseIsDue
    BY <1>4 DEF Service!CreateObject, Service!DeleteObject, Service!Sync,
         Service!InSync, ReleaseIsDue
  <2>2. serviceJob' = serviceJob
    BY <1>4 DEF Service!CreateObject, Service!DeleteObject, Service!Sync
  <2> QED
    BY <2>1, <2>2 DEF Releasing
<1>5. CASE Service!ExternalDeletion \/ DeleteProject \/ UNCHANGED serviceVars
  BY <1>5 DEF Service!ExternalDeletion, DeleteProject, serviceVars, Releasing,
       ReleaseIsDue, Stored
<1> QED
  BY <1>1, <1>2, <1>3, <1>4, <1>5, ServiceSplit DEF ServiceActions

\* Who changes whether Keptn has the service.
LEMMA RegisteredAfter ==
  ASSUME Service!TypeOK, [Next]_vars, registered'
  PROVE  \/ /\ Service!CreateService /\ service' = service
            /\ serviceJob' = Service!Idle
            /\ token = accepted /\ UNCHANGED instanceVars
            /\ Kept(Cached(service))
         \/ registered
<1>0. registered \in BOOLEAN
  BY DEF Service!TypeOK
<1> USE SharedOperators
<1>1. CASE Service!CreateService
  <2>1. /\ service' = service /\ serviceJob' = Service!Idle /\ Kept(Cached(service))
        /\ token = accepted
    BY <1>1 DEF Service!CreateService, Service!Examined, Service!Alive, Kept,
         Instance!Serves
  <2>2. UNCHANGED instanceVars \/ registered' = registered
    BY DEF Next, InstanceController, ServiceController, ExecutionController,
         ProjectController, KnowProject, ForgetProject, CreateProject, DeleteProject,
         LostAnswers, Informers, Secrets, DeliverSecret, Users, CallFails, Crash,
         OnlyInstance, OnlyService, OnlyExecution, OnlyProject, serviceVars, vars
  <2> QED
    BY <1>1, <2>1, <2>2
<1>2. CASE Service!AddFinalizer \/ Service!ProjectMissing \/ Service!ProjectFound
  BY <1>2, WriteFacts
<1>3. CASE \/ Service!DeleteInKeptn \/ Service!DeletionFails \/ Service!Release
           \/ Service!CreateObject \/ Service!DeleteObject
           \/ Service!ExternalDeletion \/ Service!Sync \/ DeleteProject
           \/ CallFails \/ Crash \/ UNCHANGED serviceVars
  BY <1>0, <1>3 DEF Service!DeleteInKeptn, Service!DeletionFails, Service!Release,
       Service!CreateObject, Service!DeleteObject, Service!ExternalDeletion,
       Service!Sync, DeleteProject, CallFails, Crash, serviceVars
<1> QED
  BY <1>1, <1>2, <1>3, ServiceSplit DEF ServiceActions

LEMMA TokenNext ==
  ASSUME TypeOK, GoodToken, [Next]_vars, Quiet'
  PROVE  GoodToken'
<1>0. /\ accepted \in 1..MaxToken /\ Empty \notin 1..MaxToken
      /\ Unreadable \notin 1..MaxToken /\ Service!TypeOK
  BY TasksAssumption DEF TypeOK, Instance!TypeOK, Instance!Tokens
<1>1. ~Happens("rotation") /\ ~Happens("secret")
  BY QuietPast DEF Refusals
<1>2. CASE InstanceController \/ DeliverSecret
  <2>1. UNCHANGED <<accepted, registered>>
    BY <1>2 DEF InstanceController, DeliverSecret, OnlyInstance, serviceVars,
         Instance!Controller, Instance!Refresh, Instance!Age, Instance!DeliverSecret
  <2>2. CASE Instance!Refresh
    BY <1>0, <2>1, <2>2 DEF GoodToken, Instance!Refresh, Instance!GetKeptnCPToken
  <2>3. CASE Instance!Age \/ Instance!DeliverSecret
    BY <2>1, <2>3 DEF GoodToken, Instance!Age, Instance!DeliverSecret
  <2> QED
    BY <1>2, <2>2, <2>3 DEF InstanceController, DeliverSecret, Instance!Controller
<1>3. ~Secrets
  BY <1>1, SharedOperators DEF Secrets
<1>4. CASE UNCHANGED instanceVars
  <2>1. UNCHANGED <<accepted, secret, token>>
    BY <1>4 DEF instanceVars
  <2>2. registered' => token = accepted
    BY <1>0, RegisteredAfter DEF GoodToken
  <2> QED
    BY <2>1, <2>2 DEF GoodToken
<1> QED
  BY <1>2, <1>3, <1>4
     DEF Next, ServiceController, ExecutionController, LostAnswers, Informers, Users,
       CallFails, Crash, OnlyService, OnlyExecution, OnlyProject, vars

LEMMA HeldNext ==
  ASSUME Service!TypeOK, KeptIsHeld, Releasing => ReleaseIsDue,
         Releasing => ~registered, registered => Holds(Stored(service)),
         [Next]_vars, registered'
  PROVE  Holds(Stored(service)')
<1> USE ServiceFacts
<1>0. \A object \in Service!Objects : object # None
  BY TasksAssumption DEF Service!Objects
<1>1. CASE Service!CreateService /\ service' = service /\ Kept(Cached(service))
  BY <1>1, ServiceStored DEF KeptIsHeld
<1>2. CASE registered
  <2>1. CASE Service!AddFinalizer \/ Service!ProjectMissing \/ Service!ProjectFound
    <3>1. PICK object \in Service!Objects :
            object.finalizer /\ service' = Push(service, object)
      BY <2>1, WriteFacts
    <3> QED
      BY <1>0, <3>1, ServiceStored DEF Holds, Versions
  <2>2. CASE Service!Release
    <3>1. serviceJob # Service!Idle
      BY <2>2 DEF Service!Release
    <3>2. ~serviceJob.fresh
      BY <1>2, <3>1 DEF Releasing
    <3>3. service' = service
      BY <2>2, <3>2, OtherWrites
    <3> QED
      BY <1>2, <3>3, ServiceStored
  <2>3. ~Service!CreateObject
    BY <1>2, SharedOperators DEF Service!CreateObject, Holds
  <2>4. CASE Service!DeleteObject
    <3>1. PICK object \in Service!Objects :
            object.finalizer /\ service' = Push(service, object)
      BY <1>2, <2>4, OtherWrites DEF Holds
    <3> QED
      BY <1>0, <3>1, ServiceStored DEF Holds, Versions
  <2>5. CASE Service!Sync
    BY <1>2, <2>5, OtherWrites, ServiceStored
  <2>6. CASE Crash
    BY <1>2, <2>6, ServiceStored DEF Crash
  <2>7. CASE \/ Service!CreateService \/ Service!DeleteInKeptn \/ Service!DeletionFails
             \/ Service!ExternalDeletion \/ DeleteProject \/ CallFails
             \/ UNCHANGED serviceVars
    <3>1. service' = service
      BY <2>7 DEF Service!CreateService, Service!DeleteInKeptn,
           Service!DeletionFails, Service!ExternalDeletion, DeleteProject, CallFails,
           serviceVars
    <3> QED
      BY <1>2, <3>1, ServiceStored
  <2> QED
    BY <2>1, <2>2, <2>3, <2>4, <2>5, <2>6, <2>7, ServiceSplit DEF ServiceActions
<1> QED
  BY <1>1, <1>2, RegisteredAfter

\* A request that Keptn serves deletes the service, and while Keptn has a
\* service it serves every request.
LEMMA ReleasedNext ==
  ASSUME Service!TypeOK, GoodToken, Releasing => ~registered, [Next]_vars, Quiet',
         Releasing'
  PROVE  ~registered'
<1> SUFFICES ASSUME registered' PROVE FALSE
  OBVIOUS
<1>1. CASE Service!CreateService /\ serviceJob' = Service!Idle
  BY <1>1 DEF Releasing
<1>2. CASE registered
  <2>1. CASE Service!DeleteInKeptn
    <3>1. ~Happens("refusal")
      BY QuietPast DEF Refusals
    <3>2. Instance!Serves
      BY <1>2 DEF GoodToken, Instance!Serves
    <3> QED
      BY <2>1, <3>1, <3>2, SharedOperators DEF Service!DeleteInKeptn
  <2>2. CASE \/ Service!AddFinalizer \/ Service!ProjectMissing \/ Service!ProjectFound
    BY <1>2, <2>2, WriteFacts DEF Releasing
  <2>3. CASE \/ Service!CreateService \/ Service!DeletionFails \/ Service!Release
             \/ Service!CreateObject \/ Service!DeleteObject
             \/ Service!ExternalDeletion \/ Service!Sync \/ DeleteProject
             \/ CallFails \/ Crash \/ UNCHANGED serviceVars
    <3>1. serviceJob' = serviceJob \/ serviceJob' = Service!Idle
      BY <2>3 DEF Service!CreateService, Service!DeletionFails, Service!Release,
           Service!CreateObject, Service!DeleteObject, Service!ExternalDeletion,
           Service!Sync, DeleteProject, CallFails, Crash, serviceVars
    <3> QED
      BY <1>2, <3>1 DEF Releasing
  <2> QED
    BY <2>1, <2>2, <2>3, ServiceSplit DEF ServiceActions
<1> QED
  BY <1>1, <1>2, RegisteredAfter

-----------------------------------------------------------------------------
(* Generations: a newer version never has an older spec, and Keptn was     *)
(* never asked for a spec newer than what the cache shows.                 *)

Ordered ==
  \A i, j \in 1..Len(execution) : i <= j => execution[i].gen <= execution[j].gen

Covered == \A i \in 1..Len(execution) : sent <= execution[i].gen

\* A copy that has not been outdated has the spec of the stored version.
FreshCopy == executionJob # Execution!Idle /\ executionJob.fresh =>
               executionJob.copy.gen = Stored(execution).gen

GenerationsOK == Ordered /\ Covered /\ FreshCopy

LEMMA ExecutionStored ==
  ASSUME Execution!TypeOK
  PROVE  /\ \A object \in Executions :
              execution' = Push(execution, object) => Stored(execution)' = object
         /\ Len(execution) # 1 /\ execution' = Tail(execution) =>
              Stored(execution)' = Stored(execution)
         /\ execution' = <<Stored(execution)>> => Stored(execution)' = Stored(execution)
         /\ execution' = execution => Stored(execution)' = Stored(execution)
         /\ InSync(execution) => Cached(execution) = Stored(execution)
         /\ Len(execution) \in Nat \ {0} /\ Cached(execution) = execution[1]
         /\ Stored(execution) = execution[Len(execution)]
<1> USE ExecutionFacts
<1>1. ASSUME NEW object \in Executions, execution' = Push(execution, object)
      PROVE  Stored(execution)' = object
  BY <1>1, PushFacts
<1>2. ASSUME Len(execution) # 1, execution' = Tail(execution)
      PROVE  Stored(execution)' = Stored(execution)
  BY <1>2, TailFacts
<1>3. ASSUME execution' = <<Stored(execution)>>
      PROVE  Stored(execution)' = Stored(execution)
  BY <1>3, RelistFacts
<1>4. /\ InSync(execution) => Cached(execution) = Stored(execution)
      /\ Len(execution) \in Nat \ {0} /\ Cached(execution) = execution[1]
      /\ Stored(execution) = execution[Len(execution)]
  BY EndFacts
<1> QED
  BY <1>1, <1>2, <1>3, <1>4

\* A step writes the spec the object has or the next one, or sends the spec the
\* cache shows, or makes the cache follow.
LEMMA GenerationSteps ==
  ASSUME Execution!TypeOK, FreshCopy, [Next]_vars
  PROVE  \/ /\ sent' = sent
            /\ \E object \in Executions :
                 /\ execution' = Push(execution, object)
                 /\ \/ object.gen = Stored(execution).gen
                    \/ /\ object.gen = Stored(execution).gen + 1
                       /\ Stored(execution).gen < Len(Plan)
         \/ sent' = Cached(execution).gen /\ execution' = execution
         \/ sent' = sent /\ Len(execution) # 1 /\ execution' = Tail(execution)
         \/ sent' = sent /\ execution' = <<Stored(execution)>>
         \/ sent' = sent /\ execution' = execution
<1> USE SharedOperators
<1>1. CASE \/ Execution!ProjectMissing \/ Execution!ProjectFound
           \/ Execution!ServiceMissing \/ Execution!ServiceFound
           \/ Execution!WriteStatus \/ Execution!Edit
  <2>1. sent' = sent
    BY <1>1 DEF Execution!ProjectMissing, Execution!ProjectFound,
         Execution!ServiceMissing, Execution!ServiceFound, Execution!Write,
         Execution!WriteStatus, Execution!Edit, Execution!history
  <2>2. Execution!Edit => Stored(execution).gen < Len(Plan)
    BY DEF Execution!Edit
  <2>3. InSync(execution) => Cached(execution) = Stored(execution)
    BY ExecutionStored
  <2> QED
    BY <1>1, <2>1, <2>2, <2>3, ExecutionWrites DEF FreshCopy
<1>2. CASE Execution!Trigger \/ Execution!TriggerAnswerLost
  BY <1>2 DEF Execution!Trigger, Execution!TriggerAnswerLost, Execution!Accept
<1>3. CASE Execution!Sync
  BY <1>3 DEF Execution!Sync, Execution!InSync, Execution!history
<1>4. CASE CallFails \/ Crash \/ UNCHANGED executionVars
  BY <1>4 DEF CallFails, Crash, executionVars
<1> QED
  BY <1>1, <1>2, <1>3, <1>4, ExecutionSplit DEF ExecutionActions

LEMMA FreshNext ==
  ASSUME Execution!TypeOK, FreshCopy, [Next]_vars
  PROVE  FreshCopy'
<1> USE ExecutionFacts, ExecutionStored, SharedOperators
<1>1. CASE Execution!Trigger
  <2>1. /\ executionJob' = [pc |-> "status", copy |-> Cached(execution),
                            fresh |-> Execution!InSync(execution)]
        /\ execution' = execution
    BY <1>1 DEF Execution!Trigger
  <2> QED
    BY <2>1 DEF FreshCopy
<1>2. CASE Execution!Edit
  <2>1. executionJob' = Execution!Idle \/ ~executionJob'.fresh
    BY <1>2 DEF Execution!Edit, Execution!TypeOK, Execution!Jobs
  <2> QED
    BY <2>1 DEF FreshCopy
<1>3. CASE \/ Execution!ProjectMissing \/ Execution!ProjectFound
           \/ Execution!ServiceMissing \/ Execution!ServiceFound
           \/ Execution!WriteStatus \/ Crash
  <2>1. executionJob' = Execution!Idle
    BY <1>3 DEF Execution!ProjectMissing, Execution!ProjectFound,
         Execution!ServiceMissing, Execution!ServiceFound, Execution!Write,
         Execution!WriteStatus, Crash
  <2> QED
    BY <2>1 DEF FreshCopy
<1>4. CASE Execution!Sync
  BY <1>4 DEF Execution!Sync, Execution!InSync, FreshCopy
<1>5. CASE Execution!TriggerAnswerLost \/ CallFails \/ UNCHANGED executionVars
  <2>1. /\ execution' = execution
        /\ executionJob' = executionJob \/ executionJob' = Execution!Idle
    BY <1>5 DEF Execution!TriggerAnswerLost, CallFails, executionVars
  <2> QED
    BY <2>1 DEF FreshCopy
<1> QED
  BY <1>1, <1>2, <1>3, <1>4, <1>5, ExecutionSplit DEF ExecutionActions

LEMMA OrderedNext ==
  ASSUME Execution!TypeOK, Execution!TypeOK', GenerationsOK, [Next]_vars
  PROVE  Ordered' /\ Covered'
<1>s. /\ execution \in Seq(Executions) /\ execution # <<>>
      /\ Len(execution) \in Nat \ {0}
      /\ Cached(execution) = execution[1] /\ Stored(execution) = execution[Len(execution)]
  BY ExecutionFacts, ExecutionStored
<1>g. \A object \in Executions : object.gen \in Nat
  <2>1. Len(Plan) \in Nat
    BY TasksAssumption
  <2> QED
    BY <2>1 DEF Executions, Execution!Objects, Execution!Generations
<1>0. /\ \A i \in 1..Len(execution) : execution[i].gen \in Nat
      /\ sent \in Nat
  <2>1. \A i \in 1..Len(execution) : execution[i] \in Executions
    BY <1>s
  <2>2. sent \in Nat
    BY TasksAssumption DEF Execution!TypeOK, Execution!Generations
  <2> QED
    BY <1>g, <2>1, <2>2
<1>a. Ordered /\ Covered /\ FreshCopy
  BY DEF GenerationsOK
<1>1. ASSUME NEW object \in Executions, execution' = Push(execution, object),
             sent' = sent,
             \/ object.gen = Stored(execution).gen
             \/ object.gen = Stored(execution).gen + 1
      PROVE  Ordered' /\ Covered'
  <2>1. /\ Len(execution') \in Nat \ {0} /\ execution'[Len(execution')] = object
        /\ \E k \in {0, 1} : \A i \in 1..Len(execution') :
             i < Len(execution') =>
               i + k \in 1..Len(execution) /\ execution'[i] = execution[i + k]
    <3>1. ASSUME NEW t, t = Push(execution, object)
          PROVE  /\ Len(t) \in Nat \ {0} /\ t[Len(t)] = object
                 /\ \E k \in {0, 1} : \A i \in 1..Len(t) :
                      i < Len(t) => i + k \in 1..Len(execution) /\ t[i] = execution[i + k]
      BY <1>1, <1>s, <3>1, PushIndices
    <3> QED
      BY <1>1, <3>1
  <2>2. PICK k \in {0, 1} : \A i \in 1..Len(execution') :
          i < Len(execution') =>
            i + k \in 1..Len(execution) /\ execution'[i] = execution[i + k]
    BY <2>1
  <2>3. \A i \in 1..Len(execution) : execution[i].gen <= object.gen
    BY <1>0, <1>1, <1>a, <1>g, <1>s DEF Ordered
  <2>4. object.gen \in Nat /\ sent <= object.gen
    BY <1>0, <1>1, <1>a, <1>g, <1>s DEF Covered
  <2>5. ASSUME NEW i \in 1..Len(execution'), NEW j \in 1..Len(execution'), i <= j
        PROVE  execution'[i].gen <= execution'[j].gen
    <3>1. CASE j < Len(execution')
      <4>1. /\ i + k \in 1..Len(execution) /\ execution'[i] = execution[i + k]
            /\ j + k \in 1..Len(execution) /\ execution'[j] = execution[j + k]
            /\ i + k <= j + k
        BY <2>2, <2>5, <3>1
      <4> QED
        BY <1>a, <4>1 DEF Ordered
    <3>2. CASE j = Len(execution') /\ i < j
      BY <2>1, <2>2, <2>3, <3>2
    <3>3. CASE i = j /\ j = Len(execution')
      BY <2>1, <2>4, <3>3
    <3> QED
      BY <2>1, <2>5, <3>1, <3>2, <3>3
  <2>6. ASSUME NEW i \in 1..Len(execution') PROVE sent' <= execution'[i].gen
    <3>1. CASE i < Len(execution')
      BY <1>1, <1>a, <2>2, <3>1 DEF Covered
    <3>2. CASE i = Len(execution')
      BY <1>1, <2>1, <2>4, <3>2
    <3> QED
      BY <2>1, <3>1, <3>2
  <2> QED
    BY <2>5, <2>6 DEF Ordered, Covered
<1>2. CASE sent' = Cached(execution).gen /\ execution' = execution
  BY <1>0, <1>a, <1>s, <1>2 DEF Ordered, Covered
<1>3. CASE sent' = sent /\ Len(execution) # 1 /\ execution' = Tail(execution)
  <2>1. /\ Len(execution') = Len(execution) - 1
        /\ \A i \in 1..Len(execution') :
             i + 1 \in 1..Len(execution) /\ execution'[i] = execution[i + 1]
    BY <1>3, <1>s
  <2> QED
    BY <1>0, <1>3, <1>a, <1>s, <2>1 DEF Ordered, Covered
<1>4. CASE sent' = sent /\ execution' = <<Stored(execution)>>
  <2>1. Len(execution') = 1 /\ execution'[1] = Stored(execution)
    BY <1>4
  <2> QED
    BY <1>0, <1>4, <1>a, <1>s, <2>1 DEF Ordered, Covered
<1>5. CASE sent' = sent /\ execution' = execution
  BY <1>5, <1>a DEF Ordered, Covered
<1>6. \/ /\ sent' = sent
         /\ \E object \in Executions :
              /\ execution' = Push(execution, object)
              /\ \/ object.gen = Stored(execution).gen
                 \/ object.gen = Stored(execution).gen + 1
      \/ sent' = Cached(execution).gen /\ execution' = execution
      \/ sent' = sent /\ Len(execution) # 1 /\ execution' = Tail(execution)
      \/ sent' = sent /\ execution' = <<Stored(execution)>>
      \/ sent' = sent /\ execution' = execution
  BY <1>a, GenerationSteps
<1> QED
  BY <1>1, <1>2, <1>3, <1>4, <1>5, <1>6

\* Every step is one of DeploymentTrigger or changes nothing there.
LEMMA AbstractStep ==
  ASSUME Execution!TypeOK, GenerationsOK, [Next]_vars
  PROVE  [Abstract!Next]_(Abstract!vars)
<1> USE ExecutionFacts, ExecutionStored DEF GenerationsOK
<1>0. /\ Stored(execution).gen \in Nat /\ Cached(execution).gen \in Nat \ {0}
      /\ sent \in Nat
  BY DEF Executions, Execution!Objects, Execution!Generations, Execution!TypeOK
<1>1. ASSUME NEW object \in Executions, execution' = Push(execution, object),
             sent' = sent, object.gen = Stored(execution).gen + 1,
             Stored(execution).gen < Len(Plan)
      PROVE  Abstract!Want("execution")
  BY <1>1 DEF Abstract!Want
<1>2. ASSUME sent' = Cached(execution).gen, execution' = execution
      PROVE  Abstract!Send("execution")
  <2>1. sent <= Cached(execution).gen /\ Cached(execution).gen <= Stored(execution).gen
    BY DEF Ordered, Covered
  <2>2. Cached(execution).gen \in sent..Stored(execution).gen /\ Cached(execution).gen # 0
    BY <1>0, <2>1
  <2> QED
    BY <1>2, <2>2 DEF Abstract!Send
<1>3. ASSUME sent' = sent, Stored(execution)'.gen = Stored(execution).gen
      PROVE  UNCHANGED Abstract!vars
  BY <1>3 DEF Abstract!vars
<1> QED
  BY <1>1, <1>2, <1>3, GenerationSteps DEF Abstract!Next

-----------------------------------------------------------------------------
(* The theorems.                                                           *)

LEMMA IInvInit == Init => IInv
<1> SUFFICES ASSUME Init PROVE IInv
  OBVIOUS
<1>1. TypeOK
  BY TypeInit
<1>2. /\ service = <<None>> /\ registered = FALSE /\ serviceJob = Service!Idle
      /\ accepted = 1 /\ token = Unset
  BY DEF Init, Instance!Init, Service!Init
<1>3. token # accepted
  <2>1. MaxToken \in Nat \ {0} /\ Unset \notin 1..MaxToken
    BY TasksAssumption
  <2>2. 1 \in 1..MaxToken
    BY <2>1
  <2> QED
    BY <1>2, <2>1, <2>2
<1>4. KeptIsHeld
  BY <1>2 DEF KeptIsHeld, Kept
<1> QED
  BY <1>1, <1>2, <1>3, <1>4 DEF IInv, Releasing, GoodToken

LEMMA IInvNext == IInv /\ [Next]_vars => IInv'
<1> SUFFICES ASSUME IInv, [Next]_vars PROVE IInv'
  OBVIOUS
<1>0. Service!TypeOK
  BY DEF IInv, TypeOK
<1>1. TypeOK'
  BY TypeNext DEF IInv
<1>2. KeptIsHeld'
  BY <1>0, KeptNext DEF IInv
<1>3. Releasing' => ReleaseIsDue'
  BY <1>0, ReleaseNext DEF IInv
<1>4. ASSUME Quiet'
      PROVE  /\ GoodToken'
             /\ registered' => Holds(Stored(service)')
             /\ Releasing' => ~registered'
  <2>1. Quiet
    BY <1>4, QuietPast
  <2>2. GoodToken'
    BY <1>4, <2>1, TokenNext DEF IInv
  <2>3. registered' => Holds(Stored(service)')
    BY <1>0, <2>1, HeldNext DEF IInv
  <2>4. Releasing' => ~registered'
    BY <1>0, <1>4, <2>1, ReleasedNext DEF IInv
  <2> QED
    BY <2>2, <2>3, <2>4
<1>5. (Holds(Stored(service)))' <=> Holds(Stored(service)')
  BY DEF Holds, Stored
<1> QED
  BY <1>1, <1>2, <1>3, <1>4, <1>5 DEF IInv

LEMMA Invariance == Spec => []IInv
BY IInvInit, IInvNext, PTL DEF Spec

\* The three controllers and what they share keep their types.
THEOREM TypeCorrect == Spec => []TypeOK
<1>1. IInv => TypeOK
  BY DEF IInv
<1> QED
  BY <1>1, Invariance, PTL

\* A KeptnService that is gone has left no service behind in Keptn unless Keptn
\* refused: its finalizer goes after the deletion only, a service is created for
\* an object that has one, and no outdated cache lets a controller forget either.
THEOREM DeletionsReachKeptn == Spec => []DeletedUnlessRefused
<1>1. IInv => DeletedUnlessRefused
  BY DEF IInv, Quiet, Holds, DeletedUnlessRefused
<1> QED
  BY <1>1, Invariance, PTL

LEMMA GenerationsInit == Init => GenerationsOK
<1> SUFFICES ASSUME Init PROVE GenerationsOK
  OBVIOUS
<1>1. /\ Len(execution) = 1 /\ execution[1].gen = 1
      /\ executionJob = Execution!Idle /\ sent = 0
  BY DEF Init, Execution!Init
<1> QED
  BY <1>1 DEF GenerationsOK, Ordered, Covered, FreshCopy

LEMMA GenerationsInvariance == Spec => []GenerationsOK
<1>1. ASSUME TypeOK, TypeOK', GenerationsOK, [Next]_vars PROVE GenerationsOK'
  <2>1. Execution!TypeOK /\ Execution!TypeOK'
    BY <1>1 DEF TypeOK
  <2>2. FreshCopy'
    BY <1>1, <2>1, FreshNext DEF GenerationsOK
  <2>3. Ordered' /\ Covered'
    BY <1>1, <2>1, OrderedNext
  <2> QED
    BY <2>2, <2>3 DEF GenerationsOK
<1> QED
  BY <1>1, GenerationsInit, TypeCorrect, PTL DEF Spec

\* What Keptn is asked to execute is never older than what it was asked for
\* before, and was in the spec of the object: the controller implements
\* DeploymentTrigger, through stale caches, restarts and lost answers.
THEOREM Refinement == Spec => ImplementsTrigger
<1>1. Init => Abstract!Init
  <2> SUFFICES ASSUME Init PROVE Abstract!Init
    OBVIOUS
  <2>1. Stored(execution).gen = 1 /\ sent = 0
    BY DEF Init, Execution!Init, Stored
  <2> QED
    BY <2>1 DEF Abstract!Init
<1>2. ASSUME TypeOK, GenerationsOK, [Next]_vars
      PROVE  [Abstract!Next]_(Abstract!vars)
  <2>1. Execution!TypeOK
    BY <1>2 DEF TypeOK
  <2> QED
    BY <1>2, <2>1, AbstractStep
<1> QED
  BY <1>1, <1>2, TypeCorrect, GenerationsInvariance, PTL
     DEF Spec, ImplementsTrigger, Abstract!Spec

-----------------------------------------------------------------------------
(* How often Keptn is asked to execute a sequence: an account of the       *)
(* edits, deletions and disturbances so far, which pay for events, and of  *)
(* the events that have been sent or may have to be.                       *)

\* The stored spec is to be executed: no reconciliation is about to note that it
\* has been.
Owed == /\ ~(executionJob # Execution!Idle /\ executionJob.fresh)
        /\ Execution!Needed(Stored(execution))

\* The controller finds the project or the service missing, and will execute the
\* spec again when it is back.
Down == project = "absent" \/ ~registered \/ token # accepted

\* The token Keptn accepts is going to be replaced by none.
TokenIsLeaving == token = accepted /\ secret # accepted

\* The service is going to be deleted in Keptn, now or once it is created for an
\* object that the cache still shows as it was.
ServiceIsLeaving == \E i \in 1..Len(service) :
  /\ service[i] # None /\ service[i].deleting
  /\ i > 1 \/ registered

Count(claim) == IF claim THEN 1 ELSE 0

\* The events that may have to be sent without another edit, deletion or
\* disturbance.
Debt   == Count(Owed \/ Down) + Count(TokenIsLeaving) + Count(ServiceIsLeaving)
Budget == Stored(execution).gen + Cardinality(disturbed) + deletions

Accounted == triggers + Debt <= Budget

\* A step leaves the account in order.
Balanced == triggers' + Debt' + Budget <= triggers + Debt + Budget'

\* After a deleted version there is none with a finalizer: what the cache may still
\* show leads to one deletion in Keptn.
DeletedOnce == \A i, j \in 1..Len(service) :
  i < j /\ service[i] # None /\ service[i].deleting /\ service[j] # None
    => ~service[j].finalizer /\ ~service[j].deleting

AccountOK == Accounted /\ DeletedOnce

\* What the account counts.
Counted == /\ triggers \in Nat /\ Stored(execution).gen \in Nat
           /\ Cardinality(disturbed) \in Nat /\ deletions \in Nat
           /\ Budget \in Nat /\ Debt \in Nat

LEMMA AccountTypes == TypeOK => Counted
<1> SUFFICES ASSUME TypeOK PROVE Counted
  OBVIOUS
<1>1. triggers \in Nat
  BY DEF TypeOK, Execution!TypeOK
<1>2. Stored(execution).gen \in Nat
  <2>1. Stored(execution) \in Executions
    BY ExecutionFacts DEF TypeOK
  <2>2. Len(Plan) \in Nat
    BY TasksAssumption
  <2> QED
    BY <2>1, <2>2 DEF Executions, Execution!Objects, Execution!Generations
<1>3. Cardinality(disturbed) \in Nat
  BY ClusterAssumption, FS_Subset, FS_CardinalityType DEF TypeOK
<1>4. deletions \in Nat
  <2>1. MaxDeletions \in Nat
    BY TasksAssumption
  <2> QED
    BY <2>1 DEF TypeOK, Service!TypeOK
<1>5. Debt \in Nat
  BY DEF Debt, Count
<1> QED
  BY <1>1, <1>2, <1>3, <1>4, <1>5 DEF Budget, Counted

\* A disturbance pays for one event.
LEMMA DisturbancePays ==
  ASSUME TypeOK, NEW kind,
         Disturb(kind) \/ Service!Disturb(kind) \/ Execution!Disturb(kind),
         UNCHANGED deletions, Stored(execution)'.gen = Stored(execution).gen
  PROVE  Budget' = Budget + 1
<1>1. PICK d \in Disturbances \ disturbed : disturbed' = disturbed \cup {d}
  BY SharedOperators DEF Happens
<1>2. IsFiniteSet(disturbed)
  BY ClusterAssumption, FS_Subset DEF TypeOK
<1>3. Cardinality(disturbed') = Cardinality(disturbed) + 1
  BY <1>1, <1>2, FS_AddElement
<1> QED
  BY <1>3, AccountTypes DEF Counted, Budget

\* A step without one costs nothing.
LEMMA NothingPaid ==
  ASSUME UNCHANGED <<disturbed, deletions>>,
         Stored(execution)'.gen = Stored(execution).gen
  PROVE  Budget' = Budget
BY DEF Budget

\* What a step may cost that is paid for, and what it may that is not.
LEMMA Settle ==
  ASSUME TypeOK,
         NEW spent \in {0, 1}, triggers' = triggers + spent,
         NEW paid \in {0, 1}, Budget' = Budget + paid,
         Count(Owed \/ Down)' + Count(TokenIsLeaving)' + Count(ServiceIsLeaving)' + spent
           <= Count(Owed \/ Down) + Count(TokenIsLeaving) + Count(ServiceIsLeaving) + paid
  PROVE  Balanced
<1>1. triggers \in Nat /\ Budget \in Nat
  BY AccountTypes DEF Counted
<1> QED
  BY <1>1 DEF Balanced, Debt, Count

-----------------------------------------------------------------------------
(* The KeptnInstance.                                                      *)

\* An empty or unreadable token is none that Keptn accepts.
LEMMA TokenFacts ==
  ASSUME TypeOK
  PROVE  accepted \in Nat /\ accepted # Empty /\ accepted # Unset /\ accepted # Unreadable
<1>1. accepted \in 1..MaxToken
  BY DEF TypeOK, Instance!TypeOK, Instance!Tokens
<1>2. MaxToken \in Nat /\ {Unreadable, Empty, Unset} \cap (1..MaxToken) = {}
  BY TasksAssumption
<1> QED
  BY <1>1, <1>2

LEMMA InstanceBalanced ==
  ASSUME TypeOK, OnlyInstance,
         \/ Instance!Controller /\ UNCHANGED disturbed
         \/ DeliverSecret
         \/ Secrets
  PROVE  Balanced
<1>1. UNCHANGED <<project, service, registered, deletions, execution, executionJob, triggers>>
  BY DEF OnlyInstance, serviceVars, executionVars
<1>2. /\ Stored(execution)'.gen = Stored(execution).gen
      /\ Owed' <=> Owed
      /\ ServiceIsLeaving' <=> ServiceIsLeaving
  BY <1>1, Zenon DEF Owed, ServiceIsLeaving, Stored
<1>3. triggers' = triggers + 0
  BY <1>1, AccountTypes DEF Counted
<1>4. CASE UNCHANGED disturbed /\ (Instance!Controller \/ DeliverSecret)
  <2>1. Budget' = Budget + 0
    BY <1>1, <1>2, <1>4, NothingPaid, AccountTypes DEF Counted
  <2>2. CASE Instance!Refresh
    <3>1. token' = Instance!GetKeptnCPToken /\ UNCHANGED <<accepted, secret>>
      BY <2>2 DEF Instance!Refresh
    <3>2. token' = accepted <=> secret = accepted
      BY <3>1, TokenFacts DEF Instance!GetKeptnCPToken
    <3>3. ~TokenIsLeaving' /\ (Down' /\ ~Down => TokenIsLeaving)
      BY <1>1, <3>1, <3>2 DEF Down, TokenIsLeaving
    <3> QED
      BY <1>2, <1>3, <2>1, <3>3, Settle DEF Count
  <2>3. CASE Instance!Age
    <3>1. (Down' <=> Down) /\ (TokenIsLeaving' <=> TokenIsLeaving)
      BY <1>1, <2>3 DEF Instance!Age, Down, TokenIsLeaving
    <3> QED
      BY <1>2, <1>3, <2>1, <3>1, Settle DEF Count
  <2>4. CASE DeliverSecret
    <3>1. (Down' <=> Down) /\ ~TokenIsLeaving'
      BY <1>1, <2>4 DEF DeliverSecret, Instance!DeliverSecret, Down, TokenIsLeaving
    <3> QED
      BY <1>2, <1>3, <2>1, <3>1, Settle DEF Count
  <2> QED
    BY <1>4, <2>2, <2>3, <2>4 DEF Instance!Controller
<1>5. CASE Secrets
  <2>1. Budget' = Budget + 1
    BY <1>1, <1>2, <1>5, DisturbancePays DEF Secrets
  <2>2. CASE Instance!Rotate
    <3>1. accepted' = accepted + 1 /\ token' = token
      BY <2>2 DEF Instance!Rotate
    <3>2. TokenIsLeaving' => Down
      BY <3>1, TokenFacts DEF TokenIsLeaving, Down
    <3> QED
      BY <1>2, <1>3, <2>1, <3>2, Settle DEF Count
  <2>3. CASE Instance!LoseSecret
    <3>1. Down' <=> Down
      BY <1>1, <2>3 DEF Instance!LoseSecret, Down
    <3> QED
      BY <1>2, <1>3, <2>1, <3>1, Settle DEF Count
  <2> QED
    BY <1>5, <2>2, <2>3 DEF Secrets
<1> QED
  BY <1>4, <1>5 DEF DeliverSecret

-----------------------------------------------------------------------------
(* The KeptnProject.                                                       *)

LEMMA ProjectBalanced ==
  ASSUME TypeOK, OnlyProject, ProjectController \/ CreateProject \/ DeleteProject
  PROVE  Balanced
<1>1. UNCHANGED <<accepted, secret, token, service, deletions, execution, executionJob,
                  triggers>>
  BY DEF OnlyProject, instanceVars, executionVars, ProjectController, KnowProject,
       ForgetProject, CreateProject, DeleteProject, serviceVars
<1>2. /\ Stored(execution)'.gen = Stored(execution).gen
      /\ Owed' <=> Owed
      /\ TokenIsLeaving' <=> TokenIsLeaving
  BY <1>1, Zenon DEF Owed, TokenIsLeaving, Stored
<1>3. triggers' = triggers + 0
  BY <1>1, AccountTypes DEF Counted
<1>4. ServiceIsLeaving' => ServiceIsLeaving
  <2>1. registered' => registered
    BY DEF ProjectController, KnowProject, ForgetProject, CreateProject, DeleteProject,
         serviceVars
  <2> QED
    BY <1>1, <2>1 DEF ServiceIsLeaving
<1>5. CASE ProjectController \/ CreateProject
  <2>1. registered' = registered /\ (project' = "absent" => project = "absent")
    BY <1>5 DEF ProjectController, KnowProject, ForgetProject, CreateProject, serviceVars
  <2>2. Down' => Down
    BY <1>1, <2>1 DEF Down
  <2>3. UNCHANGED disturbed \/ Disturb("forget")
    BY <1>5 DEF ProjectController, KnowProject, ForgetProject, CreateProject
  <2>4. CASE UNCHANGED disturbed
    <3>1. Budget' = Budget + 0
      BY <1>1, <1>2, <2>4, NothingPaid, AccountTypes DEF Counted
    <3> QED
      BY <1>2, <1>3, <1>4, <2>2, <3>1, Settle DEF Count
  <2>5. CASE Disturb("forget")
    <3>1. Budget' = Budget + 1
      BY <1>1, <1>2, <2>5, DisturbancePays
    <3> QED
      BY <1>2, <1>3, <1>4, <2>2, <3>1, Settle DEF Count
  <2> QED
    BY <2>3, <2>4, <2>5
<1>6. CASE DeleteProject
  <2>1. Budget' = Budget + 1
    BY <1>1, <1>2, <1>6, DisturbancePays DEF DeleteProject
  <2> QED
    BY <1>2, <1>3, <1>4, <2>1, Settle DEF Count
<1> QED
  BY <1>5, <1>6

-----------------------------------------------------------------------------
(* The KeptnService.                                                       *)

\* The cache takes in a version: the others move down by one.
LEMMA TailIndices ==
  ASSUME NEW S, NEW s \in Seq(S), s # <<>>, Len(s) # 1, NEW t, t = Tail(s),
         NEW n \in 1..Len(t)
  PROVE  n + 1 \in 1..Len(s) /\ t[n] = s[n + 1]
<1>1. Len(s) \in Nat /\ Len(s) > 1
  <2>1. Len(s) \in Nat /\ Len(s) # 0
    OBVIOUS
  <2>2. \A m \in Nat : m # 0 /\ m # 1 => m > 1
    OBVIOUS
  <2> QED
    BY <2>1, <2>2, Zenon
<1>2. Len(Tail(s)) = Len(s) - 1
  BY <1>1
<1> QED
  BY <1>1, <1>2

\* A written version comes last, the others stay in place or move down by one.
LEMMA ServicePushed ==
  ASSUME Service!TypeOK, NEW object \in Versions, service' = Push(service, object)
  PROVE  /\ Len(service') \in Nat \ {0} /\ service'[Len(service')] = object
         /\ \E k \in {0, 1} : \A n \in 1..Len(service') :
              n < Len(service') => n + k \in 1..Len(service) /\ service'[n] = service[n + k]
<1>1. service \in Seq(Versions) /\ service # <<>>
  BY ServiceFacts
<1>2. ASSUME NEW t, t = Push(service, object)
      PROVE  /\ Len(t) \in Nat \ {0} /\ t[Len(t)] = object
             /\ \E k \in {0, 1} : \A n \in 1..Len(t) :
                  n < Len(t) => n + k \in 1..Len(service) /\ t[n] = service[n + k]
  BY <1>1, <1>2, PushIndices, SMTT(30)
<1> QED
  BY <1>2

\* A step that writes no deleted version and creates no service leaves no service
\* on its way out that was not.
LEMMA LeavingNext ==
  ASSUME Service!TypeOK,
         \/ \E object \in Versions :
              /\ service' = Push(service, object)
              /\ object = None \/ ~object.deleting
         \/ Len(service) # 1 /\ service' = Tail(service)
         \/ service' = <<Stored(service)>>
         \/ service' = service,
         registered' => registered
  PROVE  ServiceIsLeaving' => ServiceIsLeaving
<1> SUFFICES ASSUME NEW i \in 1..Len(service'),
                    service'[i] # None, service'[i].deleting, i > 1 \/ registered'
             PROVE  ServiceIsLeaving
  BY DEF ServiceIsLeaving
<1> USE ServiceFacts
<1>1. ASSUME NEW object \in Versions, service' = Push(service, object),
             object = None \/ ~object.deleting
      PROVE  ServiceIsLeaving
  <2>2. Len(service') \in Nat \ {0} /\ i # Len(service')
    BY <1>1, ServicePushed
  <2>3. PICK k \in {0, 1} : i + k \in 1..Len(service) /\ service'[i] = service[i + k]
    BY <1>1, <2>2, ServicePushed
  <2> QED
    BY <2>3 DEF ServiceIsLeaving
<1>2. CASE Len(service) # 1 /\ service' = Tail(service)
  <2>1. i + 1 \in 1..Len(service) /\ service'[i] = service[i + 1] /\ i + 1 > 1
    BY <1>2, TailIndices
  <2> QED
    BY <2>1 DEF ServiceIsLeaving
<1>3. CASE service' = <<Stored(service)>>
  <2>1. i = 1 /\ service'[i] = service[Len(service)]
    BY <1>3
  <2> QED
    BY <2>1 DEF ServiceIsLeaving
<1>4. CASE service' = service
  BY <1>4 DEF ServiceIsLeaving
<1> QED
  BY <1>1, <1>2, <1>3, <1>4

\* A step writes a deleted version only when it is the first.
LEMMA DeletedOnceAfter ==
  ASSUME Service!TypeOK, DeletedOnce,
         \/ \E object \in Versions :
              /\ service' = Push(service, object)
              /\ \/ object = None
                 \/ ~object.finalizer /\ ~object.deleting
                 \/ \A i \in 1..Len(service) : service[i] # None => ~service[i].deleting
         \/ Len(service) # 1 /\ service' = Tail(service)
         \/ service' = <<Stored(service)>>
         \/ service' = service
  PROVE  DeletedOnce'
<1> SUFFICES ASSUME NEW i \in 1..Len(service'), NEW j \in 1..Len(service'), i < j,
                    service'[i] # None, service'[i].deleting, service'[j] # None
             PROVE  ~service'[j].finalizer /\ ~service'[j].deleting
  BY DEF DeletedOnce
<1> USE ServiceFacts
<1>1. ASSUME NEW object \in Versions, service' = Push(service, object),
             \/ object = None
             \/ ~object.finalizer /\ ~object.deleting
             \/ \A n \in 1..Len(service) : service[n] # None => ~service[n].deleting
      PROVE  ~service'[j].finalizer /\ ~service'[j].deleting
  <2>2. PICK k \in {0, 1} : \A n \in 1..Len(service') :
          n < Len(service') => n + k \in 1..Len(service) /\ service'[n] = service[n + k]
    BY <1>1, ServicePushed
  <2>3. Len(service') \in Nat \ {0} /\ service'[Len(service')] = object
    BY <1>1, ServicePushed
  <2>4. i + k \in 1..Len(service) /\ service'[i] = service[i + k]
    BY <2>2, <2>3
  <2>5. CASE j < Len(service')
    <3>1. j + k \in 1..Len(service) /\ service'[j] = service[j + k] /\ i + k < j + k
      BY <2>2, <2>5
    <3> QED
      BY <2>4, <3>1 DEF DeletedOnce
  <2>6. CASE j = Len(service')
    BY <1>1, <2>3, <2>4, <2>6
  <2> QED
    BY <2>3, <2>5, <2>6
<1>2. CASE Len(service) # 1 /\ service' = Tail(service)
  <2>1. /\ i + 1 \in 1..Len(service) /\ service'[i] = service[i + 1]
        /\ j + 1 \in 1..Len(service) /\ service'[j] = service[j + 1]
        /\ i + 1 < j + 1
    BY <1>2, TailIndices
  <2> QED
    BY <2>1 DEF DeletedOnce
<1>3. CASE service' = <<Stored(service)>>
  BY <1>3
<1>4. CASE service' = service
  BY <1>4 DEF DeletedOnce
<1> QED
  BY <1>1, <1>2, <1>3, <1>4

\* What CreateObject writes.
LEMMA CreatedFacts ==
  ASSUME Service!CreateObject
  PROVE  \E object \in Service!Objects :
           /\ ~object.finalizer /\ ~object.deleting
           /\ service' = Push(service, object)
<1> DEFINE object == [finalizer |-> FALSE, deleting |-> FALSE, known |-> FALSE]
<1>1. object \in Service!Objects /\ ~object.finalizer /\ ~object.deleting
  BY DEF Service!Objects
<1> QED
  BY <1>1, SharedOperators DEF Service!CreateObject

LEMMA DeletedOnceNext ==
  ASSUME Service!TypeOK, DeletedOnce, [Next]_vars
  PROVE  DeletedOnce'
<1> USE ServiceFacts
<1>1. CASE Service!AddFinalizer \/ Service!ProjectMissing \/ Service!ProjectFound
  <2>1. PICK object \in Service!Objects : service' = Push(service, object)
    BY <1>1, WriteFacts
  <2>2. Len(service) = 1 /\ ~service[1].deleting
    BY <1>1, WriteFacts DEF InSync
  <2>3. \A i \in 1..Len(service) : service[i] # None => ~service[i].deleting
    BY <2>2
  <2> QED
    BY <2>1, <2>3, DeletedOnceAfter DEF Versions
<1>2. CASE Service!CreateObject
  BY <1>2, CreatedFacts, DeletedOnceAfter DEF Versions
<1>3. CASE Service!DeleteObject
  <2>1. CASE service' = Push(service, None)
    BY <2>1, DeletedOnceAfter DEF Versions
  <2>2. CASE /\ Stored(service).finalizer
             /\ \E object \in Service!Objects : service' = Push(service, object)
    <3>1. Stored(service) # None /\ ~Stored(service).deleting
      BY <1>3, OtherWrites
    <3>2. ASSUME NEW i \in 1..Len(service), service[i] # None, service[i].deleting
          PROVE  FALSE
      <4>1. i # Len(service)
        BY <3>1, <3>2
      <4>2. i < Len(service) /\ Len(service) \in 1..Len(service)
        BY <4>1
      <4> QED
        BY <2>2, <3>1, <3>2, <4>2 DEF DeletedOnce
    <3> QED
      BY <2>2, <3>2, DeletedOnceAfter DEF Versions
  <2> QED
    BY <1>3, <2>1, <2>2, OtherWrites
<1>4. CASE Service!Release
  BY <1>4, OtherWrites, DeletedOnceAfter DEF Versions
<1>5. CASE Service!Sync
  BY <1>5, OtherWrites, DeletedOnceAfter
<1>6. CASE Crash
  BY <1>6, DeletedOnceAfter DEF Crash
<1>7. CASE Service!CreateService \/ Service!DeleteInKeptn \/ Service!DeletionFails
           \/ Service!ExternalDeletion \/ DeleteProject \/ CallFails
           \/ UNCHANGED serviceVars
  <2>1. service' = service
    BY <1>7 DEF Service!CreateService, Service!DeleteInKeptn, Service!DeletionFails,
         Service!ExternalDeletion, DeleteProject, CallFails, serviceVars
  <2> QED
    BY <2>1, DeletedOnceAfter
<1> QED
  BY <1>1, <1>2, <1>3, <1>4, <1>5, <1>6, <1>7, ServiceSplit DEF ServiceActions

\* A step of the KeptnService that leaves Keptn alone and deletes nothing.
LEMMA WritesBalanced ==
  ASSUME TypeOK, OnlyService, UNCHANGED <<registered, deletions, disturbed>>,
         \/ \E object \in Versions :
              /\ service' = Push(service, object)
              /\ object = None \/ ~object.deleting
         \/ Len(service) # 1 /\ service' = Tail(service)
         \/ service' = service
  PROVE  Balanced
<1>1. UNCHANGED <<accepted, secret, token, project, execution, executionJob, triggers>>
  BY DEF OnlyService, instanceVars, executionVars
<1>2. /\ Stored(execution)'.gen = Stored(execution).gen
      /\ Owed' <=> Owed
      /\ TokenIsLeaving' <=> TokenIsLeaving
      /\ Down' <=> Down
  BY <1>1, Zenon DEF Owed, TokenIsLeaving, Stored, Down
<1>3. triggers' = triggers + 0 /\ Budget' = Budget + 0
  BY <1>1, <1>2, NothingPaid, AccountTypes DEF Counted
<1>4. ServiceIsLeaving' => ServiceIsLeaving
  BY LeavingNext DEF TypeOK
<1> QED
  BY <1>2, <1>3, <1>4, Settle DEF Count

\* A step of the KeptnService that is paid for.
LEMMA PaidBalanced ==
  ASSUME TypeOK, OnlyService, Budget' = Budget + 1,
         \/ registered' = registered
         \/ service' = service /\ (registered' => registered)
  PROVE  Balanced
<1>1. UNCHANGED <<accepted, secret, token, project, execution, executionJob, triggers>>
  BY DEF OnlyService, instanceVars, executionVars
<1>2. /\ Owed' <=> Owed
      /\ TokenIsLeaving' <=> TokenIsLeaving
  BY <1>1, Zenon DEF Owed, TokenIsLeaving, Stored
<1>3. triggers' = triggers + 0
  BY <1>1, AccountTypes DEF Counted
<1>4. CASE registered' = registered
  <2>1. Down' <=> Down
    BY <1>1, <1>4 DEF Down
  <2> QED
    BY <1>2, <1>3, <2>1, Settle DEF Count
<1>5. CASE service' = service /\ (registered' => registered)
  <2>1. ServiceIsLeaving' => ServiceIsLeaving
    BY <1>5, LeavingNext DEF TypeOK
  <2> QED
    BY <1>2, <1>3, <2>1, Settle DEF Count
<1> QED
  BY <1>4, <1>5

\* The service comes back, or goes as its deleted object says.
LEMMA KeptnBalanced ==
  ASSUME TypeOK, DeletedOnce, OnlyService, UNCHANGED <<deletions, disturbed>>,
         service' = service,
         \/ /\ registered' = TRUE
            /\ Cached(service) # None /\ ~Cached(service).deleting
         \/ /\ registered' = FALSE
            /\ Cached(service) # None /\ Cached(service).deleting
  PROVE  Balanced
<1> USE ServiceFacts DEF TypeOK
<1>1. UNCHANGED <<accepted, secret, token, project, execution, executionJob, triggers>>
  BY DEF OnlyService, instanceVars, executionVars
<1>2. /\ Stored(execution)'.gen = Stored(execution).gen
      /\ Owed' <=> Owed
      /\ TokenIsLeaving' <=> TokenIsLeaving
  BY <1>1, Zenon DEF Owed, TokenIsLeaving, Stored
<1>3. triggers' = triggers + 0 /\ Budget' = Budget + 0
  BY <1>1, <1>2, NothingPaid, AccountTypes DEF Counted
<1>4. CASE registered' = TRUE /\ ~Cached(service).deleting
  <2>1. Down' => Down
    BY <1>1, <1>4 DEF Down
  <2>2. ServiceIsLeaving' => ServiceIsLeaving
    <3>1. Cached(service) = service[1]
      OBVIOUS
    <3>2. \A i \in 1..Len(service) : service[i].deleting => i > 1
      BY <1>4, <3>1
    <3> QED
      BY <3>2 DEF ServiceIsLeaving
  <2> QED
    BY <1>2, <1>3, <2>1, <2>2, Settle DEF Count
<1>5. CASE registered' = FALSE /\ Cached(service) # None /\ Cached(service).deleting
  <2>1. /\ 1 \in 1..Len(service)
        /\ service[1] # None /\ service[1].deleting
    BY <1>5
  <2>2. CASE registered
    <3>1. ServiceIsLeaving
      BY <2>1, <2>2 DEF ServiceIsLeaving
    <3>2. ~ServiceIsLeaving'
      <4>1. ASSUME NEW i \in 1..Len(service), service[i] # None, service[i].deleting,
                   i > 1
            PROVE  FALSE
        BY <2>1, <4>1 DEF DeletedOnce
      <4> QED
        BY <1>5, <4>1 DEF ServiceIsLeaving
    <3> QED
      BY <1>2, <1>3, <3>1, <3>2, Settle DEF Count
  <2>3. CASE ~registered
    <3>1. (Down' => Down) /\ (ServiceIsLeaving' => ServiceIsLeaving)
      BY <1>1, <1>5, <2>3 DEF Down, ServiceIsLeaving
    <3> QED
      BY <1>2, <1>3, <3>1, Settle DEF Count
  <2> QED
    BY <2>2, <2>3
<1> QED
  BY <1>4, <1>5

LEMMA ServiceBalanced ==
  ASSUME TypeOK, DeletedOnce, OnlyService,
         \/ Service!Reconcile \/ Service!DeletionFails
         \/ Service!Sync \/ Service!Environment
  PROVE  Balanced
<1> USE SharedOperators
<1>0. Stored(execution)'.gen = Stored(execution).gen
  BY Zenon DEF OnlyService, executionVars, Stored
<1>1. CASE Service!AddFinalizer \/ Service!ProjectMissing \/ Service!ProjectFound
  <2>1. PICK object \in Service!Objects :
          object.deleting = FALSE /\ service' = Push(service, object)
    BY <1>1, WriteFacts DEF TypeOK
  <2>2. UNCHANGED <<registered, deletions, disturbed>>
    BY <1>1 DEF Service!AddFinalizer, Service!ProjectMissing, Service!ProjectFound,
         Service!Write, Service!bounds
  <2> QED
    BY <2>1, <2>2, WritesBalanced DEF Versions
<1>2. CASE Service!Release \/ Service!CreateObject \/ Service!Sync
  <2>1. UNCHANGED <<registered, deletions, disturbed>>
    BY <1>2 DEF Service!Release, Service!CreateObject, Service!Sync, Service!bounds
  <2> QED
    BY <1>2, <2>1, OtherWrites, CreatedFacts, WritesBalanced DEF TypeOK, Versions
<1>3. CASE Service!CreateService
  BY <1>3, KeptnBalanced DEF Service!CreateService, Service!Examined, Service!Alive,
       Service!bounds
<1>4. CASE Service!DeleteInKeptn
  <2>1. /\ Cached(service) # None /\ Cached(service).deleting
        /\ UNCHANGED <<service, deletions>>
    BY <1>4 DEF Service!DeleteInKeptn, Service!Deleting
  <2>2. \/ registered' = FALSE /\ UNCHANGED disturbed
        \/ UNCHANGED <<registered, disturbed>>
        \/ Service!Disturb("refusal") /\ UNCHANGED registered
    BY <1>4 DEF Service!DeleteInKeptn
  <2>3. CASE registered' = FALSE /\ UNCHANGED disturbed
    BY <2>1, <2>3, KeptnBalanced
  <2>4. CASE UNCHANGED <<registered, disturbed>>
    BY <2>1, <2>4, WritesBalanced
  <2>5. CASE Service!Disturb("refusal") /\ UNCHANGED registered
    <3>1. Budget' = Budget + 1
      BY <1>0, <2>1, <2>5, DisturbancePays
    <3> QED
      BY <2>5, <3>1, PaidBalanced
  <2> QED
    BY <2>2, <2>3, <2>4, <2>5
<1>5. CASE Service!DeletionFails
  <2>1. Budget' = Budget + 1
    BY <1>0, <1>5, DisturbancePays DEF Service!DeletionFails
  <2>2. service' = service /\ (registered' => registered)
    BY <1>5 DEF Service!DeletionFails
  <2> QED
    BY <2>1, <2>2, PaidBalanced
<1>6. CASE Service!ExternalDeletion
  <2>1. Budget' = Budget + 1
    BY <1>0, <1>6, DisturbancePays DEF Service!ExternalDeletion
  <2>2. service' = service /\ (registered' => registered)
    BY <1>6 DEF Service!ExternalDeletion
  <2> QED
    BY <2>1, <2>2, PaidBalanced
<1>7. CASE Service!DeleteObject
  <2>1. deletions' = deletions + 1 /\ UNCHANGED <<registered, disturbed>>
    BY <1>7 DEF Service!DeleteObject
  <2>2. Budget' = Budget + 1
    BY <1>0, <2>1, AccountTypes DEF Counted, Budget
  <2> QED
    BY <2>1, <2>2, PaidBalanced
<1> QED
  BY <1>1, <1>2, <1>3, <1>4, <1>5, <1>6, <1>7
     DEF Service!Reconcile, Service!Environment

-----------------------------------------------------------------------------
(* The KeptnSequenceExecution.                                             *)

\* A write of the controller that finds the execution as it is stored, and nothing
\* in flight.
LEMMA IdleWrites ==
  ASSUME Execution!TypeOK, NEW object, Execution!Write(object), object \in Executions
  PROVE  /\ executionJob = Execution!Idle /\ executionJob' = Execution!Idle
         /\ Cached(execution) = Stored(execution)
         /\ Stored(execution)' = object
         /\ triggers' = triggers
<1>1. /\ executionJob = Execution!Idle /\ executionJob' = executionJob
      /\ InSync(execution) /\ execution' = Push(execution, object)
      /\ triggers' = triggers
  BY SharedOperators DEF Execution!Write, Execution!history
<1> QED
  BY <1>1, ExecutionStored

\* A write that leaves what is owed, or that finds something missing.
LEMMA ExecutionWritesBalanced ==
  ASSUME TypeOK, OnlyExecution,
         \/ Execution!ProjectMissing \/ Execution!ProjectFound
         \/ Execution!ServiceMissing \/ Execution!ServiceFound
  PROVE  Balanced
<1> USE SharedOperators DEF TypeOK
<1>1. UNCHANGED <<accepted, secret, token, project, service, registered, deletions>>
  BY DEF OnlyExecution, instanceVars, serviceVars
<1>2. /\ TokenIsLeaving' <=> TokenIsLeaving
      /\ ServiceIsLeaving' <=> ServiceIsLeaving
      /\ Down' <=> Down
  BY <1>1, Zenon DEF TokenIsLeaving, ServiceIsLeaving, Down
<1>c. Cached(execution) \in Execution!Objects
  BY ExecutionFacts DEF Executions
<1>3. CASE Execution!ProjectMissing \/ Execution!ServiceMissing
  <2> DEFINE a == [Cached(execution) EXCEPT !.projectExists = FALSE, !.updatePending = TRUE]
             b == [Cached(execution) EXCEPT !.serviceExists = FALSE, !.updatePending = TRUE]
  <2>1. /\ a \in Executions /\ a.gen = Cached(execution).gen
        /\ b \in Executions /\ b.gen = Cached(execution).gen
    BY <1>c DEF Executions, Execution!Objects
  <2>2. Execution!Write(a) \/ Execution!Write(b)
    BY <1>3 DEF Execution!ProjectMissing, Execution!ServiceMissing
  <2> HIDE DEF a, b
  <2>3. Stored(execution)'.gen = Stored(execution).gen /\ triggers' = triggers + 0
    BY <2>1, <2>2, IdleWrites, AccountTypes DEF Counted
  <2>4. \/ UNCHANGED disturbed /\ Down
        \/ Execution!Disturb("outage")
    BY <1>3 DEF Execution!ProjectMissing, Execution!ServiceMissing,
         Execution!ProjectExists, Execution!ServiceExists, Instance!Serves, Down
  <2>5. CASE UNCHANGED disturbed /\ Down
    <3>1. Budget' = Budget + 0
      BY <1>1, <2>3, <2>5, NothingPaid, AccountTypes DEF Counted
    <3> QED
      BY <1>2, <2>3, <2>5, <3>1, Settle DEF Count
  <2>6. CASE Execution!Disturb("outage")
    <3>1. Budget' = Budget + 1
      BY <1>1, <2>3, <2>6, DisturbancePays
    <3> QED
      BY <1>2, <2>3, <3>1, Settle DEF Count
  <2> QED
    BY <2>4, <2>5, <2>6
<1>4. CASE Execution!ProjectFound \/ Execution!ServiceFound
  <2> DEFINE a == [Cached(execution) EXCEPT !.projectExists = TRUE]
             b == [Cached(execution) EXCEPT !.serviceExists = TRUE]
  <2>1. \A o \in {a, b} : /\ o \in Executions /\ o.gen = Cached(execution).gen
                          /\ Execution!Needed(o) <=> Execution!Needed(Cached(execution))
    BY <1>c DEF Executions, Execution!Objects, Execution!Needed, Execution!SpecOf
  <2>2. \E o \in {a, b} : Execution!Write(o)
    BY <1>4 DEF Execution!ProjectFound, Execution!ServiceFound
  <2> HIDE DEF a, b
  <2>3. PICK o \in {a, b} : Execution!Write(o)
    BY <2>2
  <2>4. /\ executionJob = Execution!Idle /\ executionJob' = Execution!Idle
        /\ Cached(execution) = Stored(execution)
        /\ Stored(execution)' = o
        /\ triggers' = triggers + 0
    BY <2>1, <2>3, IdleWrites, AccountTypes DEF Counted
  <2>5. Stored(execution)'.gen = Stored(execution).gen /\ (Owed' <=> Owed)
    BY <2>1, <2>4 DEF Owed, Execution!Needed, Execution!SpecOf
  <2>6. UNCHANGED disturbed
    BY <1>4 DEF Execution!ProjectFound, Execution!ServiceFound
  <2>7. Budget' = Budget + 0
    BY <1>1, <2>5, <2>6, NothingPaid, AccountTypes DEF Counted
  <2> QED
    BY <1>2, <2>4, <2>5, <2>7, Settle DEF Count
<1> QED
  BY <1>3, <1>4

LEMMA TriggerBalanced ==
  ASSUME TypeOK, OnlyExecution, Execution!Trigger \/ Execution!TriggerAnswerLost
  PROVE  Balanced
<1> USE SharedOperators DEF TypeOK
<1>1. UNCHANGED <<accepted, secret, token, project, service, registered, deletions,
                  execution>>
  BY DEF OnlyExecution, instanceVars, serviceVars, Execution!Trigger,
       Execution!TriggerAnswerLost
<1>2. /\ TokenIsLeaving' <=> TokenIsLeaving
      /\ ServiceIsLeaving' <=> ServiceIsLeaving
      /\ Down' <=> Down
      /\ Stored(execution)' = Stored(execution)
  BY <1>1, Zenon DEF TokenIsLeaving, ServiceIsLeaving, Down, Stored
<1>3. /\ executionJob = Execution!Idle
      /\ Execution!Needed(Cached(execution))
      /\ ~Down
      /\ triggers' = triggers + 1
  BY DEF Execution!Trigger, Execution!TriggerAnswerLost, Execution!Decided,
       Execution!ProjectKnown, Execution!ProjectExists, Execution!ServiceExists,
       Instance!Serves, Execution!Accept, Down
<1>4. CASE Execution!Trigger /\ InSync(execution)
  <2>1. UNCHANGED disturbed
    BY <1>4 DEF Execution!Trigger, Execution!Decide
  <2>2. Budget' = Budget + 0
    BY <1>1, <1>2, <2>1, NothingPaid, AccountTypes DEF Counted
  <2>3. executionJob' # Execution!Idle /\ executionJob'.fresh
    <3>1. executionJob' = [pc |-> "status", copy |-> Cached(execution),
                           fresh |-> Execution!InSync(execution)]
      BY <1>4 DEF Execution!Trigger
    <3>2. executionJob'.fresh /\ executionJob'.pc = "status"
      BY <1>4, <3>1
    <3> QED
      BY <3>2 DEF Execution!Idle
  <2>4. ~Owed' /\ ~Down'
    BY <1>2, <1>3, <2>3 DEF Owed
  <2>5. Owed
    BY <1>3, <1>4, ExecutionStored DEF Owed
  <2> QED
    BY <1>2, <1>3, <2>2, <2>4, <2>5, Settle DEF Count
<1>5. CASE Execution!TriggerAnswerLost \/ ~InSync(execution)
  <2>1. Execution!Disturb("answer") \/ Execution!Disturb("stale")
    BY <1>5 DEF Execution!Trigger, Execution!TriggerAnswerLost, Execution!Decide
  <2>2. Budget' = Budget + 1
    BY <1>1, <1>2, <2>1, DisturbancePays
  <2>3. executionJob' = Execution!Idle \/ ~executionJob'.fresh
    <3>1. CASE Execution!TriggerAnswerLost
      BY <1>3, <3>1 DEF Execution!TriggerAnswerLost
    <3>2. CASE Execution!Trigger /\ ~InSync(execution)
      <4>1. executionJob' = [pc |-> "status", copy |-> Cached(execution),
                             fresh |-> Execution!InSync(execution)]
        BY <3>2 DEF Execution!Trigger
      <4> QED
        BY <3>2, <4>1
    <3> QED
      BY <1>5, <3>1, <3>2
  <2>4. Owed' <=> Owed
    BY <1>2, <1>3, <2>3 DEF Owed, Execution!Needed, Execution!SpecOf
  <2> QED
    BY <1>2, <1>3, <2>2, <2>4, Settle DEF Count
<1> QED
  BY <1>4, <1>5

\* The status write after an event leaves nothing to execute.
LEMMA StatusBalanced ==
  ASSUME TypeOK, FreshCopy, OnlyExecution, Execution!WriteStatus
  PROVE  Balanced
<1> USE SharedOperators DEF TypeOK
<1>1. UNCHANGED <<accepted, secret, token, project, service, registered, deletions,
                  disturbed, triggers>>
  BY DEF OnlyExecution, instanceVars, serviceVars, Execution!WriteStatus,
       Execution!history
<1>2. /\ TokenIsLeaving' <=> TokenIsLeaving
      /\ ServiceIsLeaving' <=> ServiceIsLeaving
      /\ Down' <=> Down
  BY <1>1, Zenon DEF TokenIsLeaving, ServiceIsLeaving, Down
<1>3. executionJob \in Execution!Jobs /\ executionJob # Execution!Idle
      /\ executionJob' = Execution!Idle
  BY DEF Execution!WriteStatus, Execution!TypeOK
<1>4. Stored(execution)'.gen = Stored(execution).gen /\ (Owed' => Owed)
  <2>1. CASE executionJob.fresh
    <3> DEFINE object == [executionJob.copy EXCEPT
                            !.updatePending = FALSE,
                            !.lastApplied = Execution!SpecOf(executionJob.copy)]
    <3>1. executionJob.copy \in Execution!Objects
      BY <1>3 DEF Execution!Jobs
    <3>2. Execution!SpecOf(executionJob.copy) \in Execution!Specs
      BY <3>1 DEF Execution!SpecOf, Execution!Specs, Execution!Objects,
           Execution!Generations
    <3>3. /\ object \in Executions /\ object.gen = executionJob.copy.gen
          /\ object.updatePending = FALSE
          /\ object.lastApplied = Plan[object.gen]
      BY <3>1, <3>2 DEF Executions, Execution!Objects, Execution!SpecOf
    <3>4. execution' = Push(execution, object)
      BY <2>1 DEF Execution!WriteStatus
    <3> HIDE DEF object
    <3>5. Stored(execution)' = object
      BY <3>3, <3>4, ExecutionStored
    <3>6. Stored(execution)'.gen = Stored(execution).gen
      BY <1>3, <2>1, <3>3, <3>5 DEF FreshCopy
    <3>7. ~Owed'
      BY <3>3, <3>5 DEF Owed, Execution!Needed, Execution!SpecOf
    <3> QED
      BY <3>6, <3>7
  <2>2. CASE ~executionJob.fresh
    <3>1. Stored(execution)' = Stored(execution)
      BY <2>2, ExecutionStored DEF Execution!WriteStatus
    <3> QED
      BY <2>2, <3>1 DEF Owed, Execution!Needed, Execution!SpecOf
  <2> QED
    BY <2>1, <2>2
<1>5. triggers' = triggers + 0 /\ Budget' = Budget + 0
  BY <1>1, <1>4, NothingPaid, AccountTypes DEF Counted
<1> QED
  BY <1>2, <1>4, <1>5, Settle DEF Count

\* Edits pay, and an informer changes nothing that is stored.
LEMMA EditBalanced ==
  ASSUME TypeOK, OnlyExecution, Execution!Edit \/ Execution!Sync
  PROVE  Balanced
<1> USE SharedOperators DEF TypeOK
<1>1. UNCHANGED <<accepted, secret, token, project, service, registered, deletions,
                  disturbed, triggers>>
  BY DEF OnlyExecution, instanceVars, serviceVars, Execution!Edit, Execution!Sync,
       Execution!history
<1>2. /\ TokenIsLeaving' <=> TokenIsLeaving
      /\ ServiceIsLeaving' <=> ServiceIsLeaving
      /\ Down' <=> Down
  BY <1>1, Zenon DEF TokenIsLeaving, ServiceIsLeaving, Down
<1>3. triggers' = triggers + 0
  BY <1>1, AccountTypes DEF Counted
<1>4. CASE Execution!Edit
  <2> DEFINE object == [Stored(execution) EXCEPT !.gen = @ + 1]
  <2>1. Stored(execution) \in Execution!Objects
    BY ExecutionFacts DEF Executions
  <2>2. Stored(execution).gen + 1 \in Execution!Generations
    <3>1. Len(Plan) \in Nat \ {0}
      BY TasksAssumption
    <3> QED
      BY <1>4, <2>1, <3>1 DEF Execution!Edit, Execution!Objects, Execution!Generations
  <2>3. object \in Executions /\ object.gen = Stored(execution).gen + 1
    BY <2>1, <2>2 DEF Executions, Execution!Objects
  <2>4. execution' = Push(execution, object)
    BY <1>4 DEF Execution!Edit
  <2> HIDE DEF object
  <2>5. Stored(execution)'.gen = Stored(execution).gen + 1
    BY <2>3, <2>4, ExecutionStored
  <2>6. Budget' = Budget + 1
    BY <1>1, <2>5, AccountTypes DEF Counted, Budget
  <2> QED
    BY <1>2, <1>3, <2>6, Settle DEF Count
<1>5. CASE Execution!Sync
  <2>1. Stored(execution)' = Stored(execution) /\ executionJob' = executionJob
    BY <1>5, ExecutionStored DEF Execution!Sync, Execution!InSync
  <2>2. Owed' <=> Owed
    BY <2>1, Zenon DEF Owed
  <2>3. Budget' = Budget + 0
    BY <1>1, <2>1, NothingPaid, AccountTypes DEF Counted
  <2> QED
    BY <1>2, <1>3, <2>2, <2>3, Settle DEF Count
<1> QED
  BY <1>4, <1>5

-----------------------------------------------------------------------------
(* Failed calls and restarts.                                              *)

LEMMA FaultBalanced ==
  ASSUME TypeOK, CallFails \/ Crash
  PROVE  Balanced
<1> USE DEF TypeOK
<1>1. UNCHANGED <<accepted, secret, token, project, registered, deletions, triggers>>
  BY DEF CallFails, Crash, instanceVars
<1>2. (TokenIsLeaving' <=> TokenIsLeaving) /\ (Down' <=> Down)
  BY <1>1, Zenon DEF TokenIsLeaving, Down
<1>3. service' = service \/ service' = <<Stored(service)>>
  BY DEF CallFails, Crash
<1>4. ServiceIsLeaving' => ServiceIsLeaving
  BY <1>1, <1>3, LeavingNext
<1>5. Stored(execution)' = Stored(execution)
  BY ExecutionStored DEF CallFails, Crash
<1>6. triggers' = triggers + 0
  BY <1>1, AccountTypes DEF Counted
<1>7. Budget' = Budget + 1
  BY <1>1, <1>5, DisturbancePays DEF CallFails, Crash
<1> QED
  BY <1>2, <1>4, <1>6, <1>7, Settle DEF Count

LEMMA StutterBalanced ==
  ASSUME TypeOK, UNCHANGED vars
  PROVE  Balanced
<1>1. Debt' = Debt /\ Budget' = Budget /\ triggers' = triggers
  BY Zenon DEF vars, instanceVars, serviceVars, executionVars, Debt, Budget, Count, Owed,
       Down, TokenIsLeaving, ServiceIsLeaving, Stored
<1> QED
  BY <1>1, AccountTypes DEF Counted, Balanced

-----------------------------------------------------------------------------
(* The theorem.                                                            *)

LEMMA StepBalanced ==
  ASSUME TypeOK, DeletedOnce, FreshCopy, [Next]_vars
  PROVE  Balanced
<1>1. CASE InstanceController \/ Secrets \/ DeliverSecret
  BY <1>1, InstanceBalanced DEF InstanceController, Secrets, DeliverSecret
<1>2. CASE ServiceController
  BY <1>2, ServiceBalanced DEF ServiceController
<1>3. CASE ExecutionController
  BY <1>3, ExecutionWritesBalanced, TriggerBalanced, StatusBalanced
     DEF ExecutionController, Execution!Reconcile
<1>4. CASE OnlyProject /\ ProjectController
  BY <1>4, ProjectBalanced
<1>5. CASE LostAnswers \/ Informers
  BY <1>5, ServiceBalanced, TriggerBalanced, EditBalanced DEF LostAnswers, Informers
<1>6. CASE Users
  BY <1>6, ServiceBalanced, EditBalanced, ProjectBalanced DEF Users
<1>7. CASE CallFails \/ Crash
  BY <1>7, FaultBalanced
<1>8. CASE UNCHANGED vars
  BY <1>8, StutterBalanced
<1> QED
  BY <1>1, <1>2, <1>3, <1>4, <1>5, <1>6, <1>7, <1>8 DEF Next

LEMMA AccountInit == Init => AccountOK
<1> SUFFICES ASSUME Init PROVE AccountOK
  OBVIOUS
<1>1. /\ service = <<None>> /\ deletions = 0 /\ triggers = 0 /\ disturbed = {}
      /\ Stored(execution).gen = 1 /\ accepted = 1 /\ token = Unset
  BY DEF Init, Instance!Init, Service!Init, Execution!Init, Stored
<1>2. TypeOK
  BY TypeInit
<1>3. ~TokenIsLeaving
  BY <1>1, <1>2, TokenFacts DEF TokenIsLeaving
<1>4. ~ServiceIsLeaving /\ DeletedOnce
  BY <1>1 DEF ServiceIsLeaving, DeletedOnce
<1>5. Cardinality(disturbed) = 0
  BY <1>1, FS_EmptySet
<1> QED
  BY <1>1, <1>3, <1>4, <1>5 DEF AccountOK, Accounted, Debt, Budget, Count

LEMMA AccountNext ==
  ASSUME TypeOK, Counted', FreshCopy, AccountOK, [Next]_vars
  PROVE  AccountOK'
<1>1. DeletedOnce'
  BY DeletedOnceNext DEF AccountOK, TypeOK
<1>2. Balanced
  BY StepBalanced DEF AccountOK
<1>3. Counted
  BY AccountTypes
<1>4. Accounted'
  <2>1. \A t1, d1, b1, t2, d2, b2 \in Nat :
          t1 + d1 <= b1 /\ t2 + d2 + b1 <= t1 + d1 + b2 => t2 + d2 <= b2
    OBVIOUS
  <2>2. /\ triggers \in Nat /\ Debt \in Nat /\ Budget \in Nat
        /\ triggers' \in Nat /\ Debt' \in Nat /\ Budget' \in Nat
    BY <1>3 DEF Counted
  <2>3. triggers + Debt <= Budget /\ triggers' + Debt' + Budget <= triggers + Debt + Budget'
    BY <1>2 DEF AccountOK, Accounted, Balanced
  <2>4. triggers' + Debt' <= Budget'
    BY <2>1, <2>2, <2>3
  <2> QED
    BY <2>4 DEF Accounted
<1> QED
  BY <1>1, <1>4 DEF AccountOK

\* Edits, deletions and disturbances pay for what is sent and for what may have to
\* be sent because of them.
THEOREM AccountInvariance == Spec => []AccountOK
<1>1. TypeOK /\ Counted' /\ GenerationsOK /\ AccountOK /\ [Next]_vars => AccountOK'
  BY AccountNext DEF GenerationsOK
<1> QED
  BY <1>1, AccountInit, AccountTypes, TypeCorrect, GenerationsInvariance, PTL DEF Spec

\* The sequence of an unchanged execution is triggered once for each edit and once
\* more at most for each deletion of the service and each disturbance: stale
\* caches, tokens and services that come and go never start it over and over.
THEOREM TriggersArePaid == Spec => []TriggersAreBounded
<1>1. TypeOK /\ AccountOK => TriggersAreBounded
  BY AccountTypes DEF Counted, AccountOK, Accounted, Budget, TriggersAreBounded
<1> QED
  BY <1>1, TypeCorrect, AccountInvariance, PTL
=============================================================================
