------------------------- MODULE DeploymentTrigger -------------------------
(***************************************************************************)
(* What the KeptnServiceDeployment controller promises its users, without  *)
(* caches, contexts or faults: users raise the generation they want, and   *)
(* the controller triggers deployments of generations that are wanted or   *)
(* were wanted, never an older one after a newer one.  Triggering the same *)
(* generation again is allowed.                                            *)
(***************************************************************************)
EXTENDS Integers, Sequences

CONSTANTS Deployments, Plan

VARIABLES
  wanted,   \* wanted[d]: the newest generation of d's spec
  sent      \* sent[d]: the generation triggered last, 0 if none

vars == <<wanted, sent>>

Init ==
  /\ wanted = [d \in Deployments |-> 1]
  /\ sent = [d \in Deployments |-> 0]

Want(d) ==
  /\ wanted[d] < Len(Plan[d])
  /\ wanted' = [wanted EXCEPT ![d] = @ + 1]
  /\ sent' = sent

Send(d) ==
  /\ \E gen \in sent[d]..wanted[d] : gen # 0 /\ sent' = [sent EXCEPT ![d] = gen]
  /\ wanted' = wanted

Next == \E d \in Deployments : Want(d) \/ Send(d)

Spec == Init /\ [][Next]_vars
=============================================================================
