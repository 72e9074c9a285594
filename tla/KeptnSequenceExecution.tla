----------------------- MODULE KeptnSequenceExecution -----------------------
(***************************************************************************)
(* The KeptnSequenceExecution controller of keptn-operator: it turns the   *)
(* spec of a KeptnSequenceExecution into an event sent to the Keptn API,   *)
(* and remembers it in the status of the object.  One worker; every path   *)
(* of Reconcile that neither writes nor sends is a stuttering step.        *)
(***************************************************************************)
EXTENDS ClusterObjects

CONSTANTS
  Plan,    \* Plan[g] is the spec at metadata.generation g
  NoHash   \* the empty string: nothing was applied

\* The hash of a spec stands for the spec: hashstructure is taken as injective.
Specs       == {Plan[g] : g \in 1..Len(Plan)}
Generations == 1..Len(Plan)

VARIABLES
  project,     \* the KeptnProject object, as the cache shows it
  serves,      \* the Keptn API answers and accepts the token
  registered,  \* the service exists in Keptn
  execution,   \* versions of the KeptnSequenceExecution object
  job,         \* the reconciliation in flight after an event was sent
  sent,        \* generation of the last event Keptn accepted, 0 if none
  triggers     \* number of events Keptn accepted

inputs  == <<project, serves, registered>>
history == <<sent, triggers>>

\* status.keptnContext is empty as long as status.lastAppliedHash is.
Objects == [gen : Generations, projectExists : BOOLEAN, serviceExists : BOOLEAN,
            updatePending : BOOLEAN, lastApplied : Specs \cup {NoHash}]

Idle == [pc |-> "idle"]
Jobs == [pc : {"status"}, copy : Objects, fresh : BOOLEAN]

Init ==
  /\ execution = <<[gen |-> 1, projectExists |-> FALSE, serviceExists |-> FALSE,
                    updatePending |-> FALSE, lastApplied |-> NoHash]>>
  /\ job = Idle
  /\ sent = 0
  /\ triggers = 0

-----------------------------------------------------------------------------
\* A write from an outdated copy is refused, which is only logged.
Write(object) ==
  /\ job = Idle
  /\ InSync(execution)
  /\ object # Cached(execution)
  /\ execution' = Push(execution, object)
  /\ UNCHANGED <<inputs, job, history>>

\* checkKeptnProject: the object exists, whatever its status says.
ProjectExists == project # "absent"
ProjectKnown  == ProjectExists /\ Cached(execution).projectExists

ProjectMissing ==
  /\ ~ProjectExists
  /\ Write([Cached(execution) EXCEPT !.projectExists = FALSE, !.updatePending = TRUE])
  /\ UNCHANGED disturbed

ProjectFound ==
  /\ ProjectExists
  /\ Write([Cached(execution) EXCEPT !.projectExists = TRUE])
  /\ UNCHANGED disturbed

ServiceExists == serves /\ registered

\* A lookup that fails counts as one that finds nothing.
ServiceMissing ==
  /\ ProjectKnown
  /\ Write([Cached(execution) EXCEPT !.serviceExists = FALSE, !.updatePending = TRUE])
  /\ \/ ~ServiceExists /\ UNCHANGED disturbed
     \/ ServiceExists /\ Disturb("outage")

ServiceFound ==
  /\ ProjectKnown
  /\ ServiceExists
  /\ Write([Cached(execution) EXCEPT !.serviceExists = TRUE])
  /\ UNCHANGED disturbed

-----------------------------------------------------------------------------
SpecOf(object) == Plan[object.gen]

\* Mutant: a spec that has been applied before is not compared again.
Needed_Once(object) == object.lastApplied = NoHash \/ object.updatePending

Needed(object) == object.lastApplied # SpecOf(object) \/ object.updatePending

Decided == /\ job = Idle
           /\ ProjectKnown
           /\ ServiceExists
           /\ Cached(execution).serviceExists
           /\ Needed(Cached(execution))

\* POST /v1/event.
Accept == /\ sent' = Cached(execution).gen
          /\ triggers' = triggers + 1

\* A service deleted between the lookup and the POST is one deleted after it.
Trigger ==
  /\ Decided
  /\ Decide(execution)
  /\ Accept
  /\ job' = [pc |-> "status", copy |-> Cached(execution), fresh |-> InSync(execution)]
  /\ UNCHANGED <<inputs, execution>>

\* Keptn accepts the event and the answer is lost: nothing is kept.
TriggerAnswerLost ==
  /\ Decided
  /\ Disturb("answer")
  /\ Accept
  /\ UNCHANGED <<inputs, execution, job>>

\* Mutant: updatePending is not taken back.
WriteStatus_StillPending ==
  /\ job # Idle
  /\ job' = Idle
  /\ execution' =
       IF job.fresh
         THEN Push(execution, [job.copy EXCEPT !.lastApplied = SpecOf(job.copy)])
         ELSE execution
  /\ UNCHANGED <<inputs, history, disturbed>>

\* Mutant: the copy is written with its spec, whatever the version.
WriteStatus_Unversioned ==
  /\ job # Idle
  /\ job' = Idle
  /\ execution' = Push(execution, [job.copy EXCEPT !.updatePending = FALSE,
                                                   !.lastApplied = SpecOf(job.copy)])
  /\ UNCHANGED <<inputs, history, disturbed>>

WriteStatus ==
  /\ job # Idle
  /\ job' = Idle
  /\ execution' =
       IF job.fresh
         THEN Push(execution, [job.copy EXCEPT !.updatePending = FALSE,
                                               !.lastApplied = SpecOf(job.copy)])
         ELSE execution
  /\ UNCHANGED <<inputs, history, disturbed>>

-----------------------------------------------------------------------------
(* The environment. *)

\* The spec is edited; the copy of a reconciliation in flight is outdated.
Edit ==
  /\ Stored(execution).gen < Len(Plan)
  /\ execution' = Push(execution, [Stored(execution) EXCEPT !.gen = @ + 1])
  /\ job' = IF job = Idle THEN Idle ELSE [job EXCEPT !.fresh = FALSE]
  /\ UNCHANGED <<inputs, history, disturbed>>

Sync ==
  /\ ~InSync(execution)
  /\ execution' = Tail(execution)
  /\ UNCHANGED <<inputs, job, history, disturbed>>

-----------------------------------------------------------------------------
Reconcile == \/ ProjectMissing \/ ProjectFound \/ ServiceMissing \/ ServiceFound
             \/ Trigger \/ WriteStatus

TypeOK ==
  /\ execution \in Seq(Objects) \ {<<>>}
  /\ job \in Jobs \cup {Idle}
  /\ sent \in {0} \cup Generations
  /\ triggers \in Nat
=============================================================================
