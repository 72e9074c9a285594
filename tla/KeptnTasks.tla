----------------------------- MODULE KeptnTasks -----------------------------
(***************************************************************************)
(* keptn-operator: how a sequence execution gets to Keptn.  The controller *)
(* of the KeptnInstance supplies the API token, that of the KeptnService   *)
(* creates and deletes the service in Keptn, and that of the               *)
(* KeptnSequenceExecution waits for the project and the service and then   *)
(* sends the event.  A bad token looks like a missing service to one and   *)
(* like a successful deletion to the other.                                *)
(***************************************************************************)
EXTENDS ClusterObjects

CONSTANTS
  MaxToken, Unreadable, Empty, Unset,         \* see KeptnInstance
  None, MaxDeletions,                         \* see KeptnService
  Plan, NoHash                                \* see KeptnSequenceExecution

Kinds == {"crash", "network", "answer", "outage", "refusal", "external",
          "stale", "rotation", "secret", "project", "forget"}

ASSUME TasksAssumption ==
  /\ MaxToken \in Nat \ {0}
  /\ {Unreadable, Empty, Unset} \cap (1..MaxToken) = {}
  /\ Empty # Unset
  /\ None \notin [finalizer : BOOLEAN, deleting : BOOLEAN, known : BOOLEAN]
  /\ MaxDeletions \in Nat
  /\ Len(Plan) \in Nat \ {0}
  /\ NoHash \notin {Plan[g] : g \in 1..Len(Plan)}
  /\ \A d \in Disturbances : d[1] \in Kinds

VARIABLES
  accepted, secret, token, due,                \* the KeptnInstance
  project,                                     \* the KeptnProject
  service, registered, serviceJob, deletions,  \* the KeptnService
  execution, executionJob, sent, triggers      \* the KeptnSequenceExecution

instanceVars  == <<accepted, secret, token, due>>
serviceVars   == <<service, registered, serviceJob, deletions>>
executionVars == <<execution, executionJob, sent, triggers>>
vars == <<instanceVars, project, serviceVars, executionVars, disturbed>>

Instance == INSTANCE KeptnInstance

Service == INSTANCE KeptnService
  WITH answers <- Instance!Answers, serves <- Instance!Serves, job <- serviceJob

Execution == INSTANCE KeptnSequenceExecution
  WITH serves <- Instance!Serves, job <- executionJob

Init ==
  /\ Instance!Init
  /\ project = "absent"
  /\ Service!Init
  /\ Execution!Init
  /\ disturbed = {}

-----------------------------------------------------------------------------
(* Each controller on its own: it leaves what the others keep alone.       *)

OnlyInstance  == UNCHANGED <<project, serviceVars, executionVars>>
OnlyService   == UNCHANGED <<instanceVars, project, executionVars>>
OnlyExecution == UNCHANGED <<instanceVars, project, serviceVars>>

InstanceController  == OnlyInstance /\ Instance!Controller /\ UNCHANGED disturbed
ServiceController   == OnlyService /\ Service!Reconcile
ExecutionController == OnlyExecution /\ Execution!Reconcile

\* Keptn did what it was asked to and the operator does not learn of it.
LostAnswers == \/ OnlyService /\ Service!DeletionFails
               \/ OnlyExecution /\ Execution!TriggerAnswerLost

Informers == \/ OnlyService /\ Service!Sync
             \/ OnlyExecution /\ Execution!Sync

-----------------------------------------------------------------------------
(* The KeptnProject, as ProjectShipyard models it in full.                 *)

OnlyProject == UNCHANGED <<instanceVars, executionVars>>

CreateProject ==
  /\ project = "absent"
  /\ project' = "unknown"
  /\ UNCHANGED <<serviceVars, disturbed>>

\* The project controller finds the project in Keptn, after creating it.
KnowProject ==
  /\ project = "unknown"
  /\ Instance!Serves
  /\ project' = "known"
  /\ UNCHANGED <<serviceVars, disturbed>>

\* Its lookup fails, which counts as a missing project.
ForgetProject ==
  /\ project = "known"
  /\ \/ Instance!Serves /\ Disturb("forget")
     \/ ~Instance!Serves /\ UNCHANGED disturbed
  /\ project' = "unknown"
  /\ UNCHANGED serviceVars

\* The services of a project go with it.
DeleteProject ==
  /\ project # "absent"
  /\ Disturb("project")
  /\ project' = "absent"
  /\ registered' = FALSE
  /\ UNCHANGED <<service, serviceJob, deletions>>

ProjectController == KnowProject \/ ForgetProject

-----------------------------------------------------------------------------
(* The rest of the environment.                                            *)

Secrets ==
  /\ OnlyInstance
  /\ \/ Instance!Rotate /\ Disturb("rotation")
     \/ Instance!LoseSecret /\ Disturb("secret")

DeliverSecret == OnlyInstance /\ Instance!DeliverSecret /\ UNCHANGED disturbed

Users == \/ OnlyService /\ Service!Environment
         \/ OnlyExecution /\ Execution!Edit
         \/ OnlyProject /\ (CreateProject \/ DeleteProject)

\* A call of one reconciliation fails, and ends it.
CallFails ==
  /\ Disturb("network")
  /\ UNCHANGED <<instanceVars, project, service, registered, deletions,
                 execution, sent, triggers>>
  /\ \/ serviceJob # Service!Idle /\ serviceJob' = Service!Idle
        /\ UNCHANGED executionJob
     \/ executionJob # Execution!Idle /\ executionJob' = Execution!Idle
        /\ UNCHANGED serviceJob

\* The operator restarts and lists everything anew.
Crash ==
  /\ Disturb("crash")
  /\ serviceJob' = Service!Idle /\ executionJob' = Execution!Idle
  /\ service' = <<Stored(service)>> /\ execution' = <<Stored(execution)>>
  /\ UNCHANGED <<instanceVars, project, registered, deletions, sent, triggers>>

-----------------------------------------------------------------------------
Next ==
  \/ InstanceController \/ ServiceController \/ ExecutionController
  \/ OnlyProject /\ ProjectController
  \/ LostAnswers \/ Informers \/ Secrets \/ DeliverSecret \/ Users
  \/ CallFails \/ Crash

Spec == Init /\ [][Next]_vars

\* Every path of each Reconcile asks for another one, time passes, informers
\* deliver, and the secret gets the token Keptn accepts.
Fairness ==
  /\ WF_vars(OnlyInstance /\ Instance!Refresh /\ UNCHANGED disturbed)
  /\ WF_vars(OnlyInstance /\ Instance!Age /\ UNCHANGED disturbed)
  /\ WF_vars(ServiceController)
  /\ WF_vars(ExecutionController)
  /\ WF_vars(OnlyProject /\ KnowProject)
  /\ WF_vars(OnlyService /\ Service!Sync)
  /\ WF_vars(OnlyExecution /\ Execution!Sync)
  /\ WF_vars(DeliverSecret)

FairSpec == Spec /\ Fairness

-----------------------------------------------------------------------------
(* Properties. *)

\* Type invariant.
TypeOK ==
  /\ Instance!TypeOK
  /\ project \in Service!Projects
  /\ Service!TypeOK
  /\ Execution!TypeOK
  /\ disturbed \subseteq Disturbances

\* keptnservice_controller.go:114 of the repository: "if fail to delete the
\* external dependency here, return with error so that it can be retried".  A
\* KeptnService that is gone has left no service behind in Keptn, through lost
\* answers, restarts, stale caches and projects that come and go, unless Keptn
\* refused the deletion, if only because of the token.
Refusals == {"refusal", "rotation", "secret"}
DeletedUnlessRefused ==
  Stored(service) = None /\ Happened \cap Refusals = {} => ~registered

\* One disturbance costs one event more at most: what looks like a missing
\* project or service, a token that is not accepted for a while or a record
\* that gets lost never starts an unchanged execution over and over.
TriggersAreBounded ==
  triggers <= Stored(execution).gen + Cardinality(disturbed) + deletions

\* What the controller promises: see DeploymentTrigger.
Abstract == INSTANCE DeploymentTrigger
  WITH Deployments <- {"execution"}, Plan <- [d \in {"execution"} |-> Plan],
       wanted <- [d \in {"execution"} |-> Stored(execution).gen],
       sent <- [d \in {"execution"} |-> sent]
ImplementsTrigger == Abstract!Spec

Wanted == /\ Stored(service) # None
          /\ ~Stored(service).deleting
          /\ project # "absent"

\* Once a service and its project stay, the service is in Keptn in the end,
\* and Keptn was last asked to execute the spec as it is now, and is not asked
\* any more.
ServiceIsKept == <>[]Wanted => <>[]registered
Converges ==
  <>[]Wanted => <>[](/\ executionJob = Execution!Idle
                     /\ sent # 0 /\ Plan[sent] = Plan[Stored(execution).gen])

\* A token that is replaced, or lost for a while, is followed.
TokenIsFollowed == <>[](token = accepted)
=============================================================================
