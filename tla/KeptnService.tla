---------------------------- MODULE KeptnService ----------------------------
(***************************************************************************)
(* The KeptnService controller of keptn-operator: the life of one          *)
(* KeptnService object, which the controller creates in Keptn once the     *)
(* project is known and deletes there before its finalizer goes.  One      *)
(* worker; every path of Reconcile that neither writes nor changes Keptn   *)
(* is a stuttering step and has no action.                                 *)
(***************************************************************************)
EXTENDS ClusterObjects

CONSTANTS
  None,          \* no object
  MaxDeletions   \* bound on the deletions of the object

VARIABLES
  project,     \* the KeptnProject object, as the cache shows it
  answers,     \* the Keptn API answers the requests of the operator
  serves,      \* it accepts their token
  service,     \* versions of the KeptnService object, or None
  registered,  \* the service exists in Keptn
  job,         \* the reconciliation in flight
  deletions    \* deletions of the object so far

inputs == <<project, answers, serves>>
bounds == <<deletions, disturbed>>

\* There is none; its status says that Keptn has no such project, or has it.
Projects == {"absent", "unknown", "known"}
Objects  == [finalizer : BOOLEAN, deleting : BOOLEAN, known : BOOLEAN]
Idle     == [pc |-> "idle"]
Jobs     == [pc : {"release"}, fresh : BOOLEAN]

Init ==
  /\ service = <<None>>
  /\ registered = FALSE
  /\ job = Idle
  /\ deletions = 0

-----------------------------------------------------------------------------
Alive == /\ job = Idle
         /\ Cached(service) # None
         /\ ~Cached(service).deleting

\* A write from an outdated copy is refused, which changes nothing.
Write(object) ==
  /\ InSync(service)
  /\ object # Cached(service)
  /\ service' = Push(service, object)
  /\ UNCHANGED <<inputs, registered, job, bounds>>

\* The same reconciliation goes on to the project and writes its status, which
\* may fail: then, and between the two writes, the project is not known.
AddFinalizer ==
  /\ Alive
  /\ ~Cached(service).finalizer
  /\ \E known \in {FALSE, project = "known"} :
       Write([Cached(service) EXCEPT !.finalizer = TRUE, !.known = known])

Examined == Alive /\ Cached(service).finalizer

ProjectMissing ==
  /\ Examined
  /\ project # "known"
  /\ Write([Cached(service) EXCEPT !.known = FALSE])

ProjectFound ==
  /\ Examined
  /\ project = "known"
  /\ Write([Cached(service) EXCEPT !.known = TRUE])

\* Mutant: the service is created before the finalizer is stored.
CreateService_Unguarded ==
  /\ Alive
  /\ project = "known"
  /\ serves
  /\ ~registered
  /\ registered' = TRUE
  /\ UNCHANGED <<inputs, service, job, bounds>>

\* Mutant: the service is created when it is seen for the first time only.
CreateService_Once ==
  /\ Examined
  /\ ~Cached(service).known
  /\ project = "known"
  /\ serves
  /\ ~registered
  /\ registered' = TRUE
  /\ UNCHANGED <<inputs, service, job, bounds>>

\* A lookup that finds nothing, or fails, is followed by a creation, which
\* Keptn refuses if the service is there.
CreateService ==
  /\ Examined
  /\ project = "known"
  /\ Cached(service).known
  /\ serves
  /\ ~registered
  /\ registered' = TRUE
  /\ UNCHANGED <<inputs, service, job, bounds>>

-----------------------------------------------------------------------------
Deleting == /\ job = Idle
            /\ Cached(service) # None
            /\ Cached(service).deleting
            /\ Cached(service).finalizer
            /\ answers

Released == job' = [pc |-> "release", fresh |-> InSync(service)]

\* The status of the answer is not read: a request with a wrong token, or one
\* that Keptn refuses, counts as done.
DeleteInKeptn ==
  /\ Deleting
  /\ Released
  /\ \/ serves /\ registered' = FALSE /\ UNCHANGED disturbed
     \/ ~serves /\ UNCHANGED <<registered, disturbed>>
     \/ serves /\ Disturb("refusal") /\ UNCHANGED registered
  /\ UNCHANGED <<inputs, service, deletions>>

\* Mutant: a request without an answer counts as done.
DeletionFails_Released ==
  /\ Deleting
  /\ Disturb("answer")
  /\ Released
  /\ UNCHANGED <<inputs, service, registered, deletions>>

\* No answer: Keptn may have deleted the service, and the finalizer stays.
DeletionFails ==
  /\ Deleting
  /\ Disturb("answer")
  /\ registered' = (registered /\ ~serves)
  /\ UNCHANGED <<inputs, service, job, deletions>>

Release ==
  /\ job # Idle
  /\ job' = Idle
  /\ service' = IF job.fresh THEN Push(service, None) ELSE service
  /\ UNCHANGED <<inputs, registered, bounds>>

-----------------------------------------------------------------------------
(* The environment. *)

CreateObject ==
  /\ Stored(service) = None
  /\ service' = Push(service, [finalizer |-> FALSE, deleting |-> FALSE,
                               known |-> FALSE])
  /\ UNCHANGED <<inputs, registered, job, bounds>>

\* Without a finalizer the object goes at once.
DeleteObject ==
  /\ Stored(service) # None
  /\ ~Stored(service).deleting
  /\ deletions < MaxDeletions
  /\ deletions' = deletions + 1
  /\ service' = Push(service, IF Stored(service).finalizer
                                THEN [Stored(service) EXCEPT !.deleting = TRUE]
                                ELSE None)
  /\ UNCHANGED <<inputs, registered, job, disturbed>>

\* Somebody else deletes the service in Keptn.
ExternalDeletion ==
  /\ registered
  /\ Disturb("external")
  /\ registered' = FALSE
  /\ UNCHANGED <<inputs, service, job, deletions>>

Sync ==
  /\ ~InSync(service)
  /\ service' = Tail(service)
  /\ UNCHANGED <<inputs, registered, job, bounds>>

-----------------------------------------------------------------------------
Reconcile == \/ AddFinalizer \/ ProjectMissing \/ ProjectFound
             \/ CreateService \/ DeleteInKeptn \/ Release

Environment == CreateObject \/ DeleteObject \/ ExternalDeletion

TypeOK ==
  /\ service \in Seq(Objects \cup {None}) \ {<<>>}
  /\ registered \in BOOLEAN
  /\ job \in Jobs \cup {Idle}
  /\ deletions \in 0..MaxDeletions
=============================================================================
