---------------------------- MODULE TaskProtocol ----------------------------
(***************************************************************************)
(* What Keptn expects of a service that executes tasks: for every task it  *)
(* triggers, one started event and then one finished event, whose result   *)
(* is pass only if the task has done its work.                             *)
(***************************************************************************)
EXTENDS Sequences

CONSTANT Tasks

VARIABLES
  reports,   \* reports[t]: the events Keptn has received for t, in order
  worked     \* the tasks whose work has been done

vars == <<reports, worked>>

Init == /\ reports = [t \in Tasks |-> <<>>]
        /\ worked = {}

Start(t) == /\ reports[t] = <<>>
            /\ reports' = [reports EXCEPT ![t] = <<"started">>]
            /\ UNCHANGED worked

\* Work may be done again: the effect is the same.
Work(t) == /\ reports[t] = <<"started">>
           /\ worked' = worked \cup {t}
           /\ UNCHANGED reports

Pass(t) == /\ reports[t] = <<"started">>
           /\ t \in worked
           /\ reports' = [reports EXCEPT ![t] = <<"started", "pass">>]
           /\ UNCHANGED worked

Fail(t) == /\ reports[t] = <<"started">>
           /\ reports' = [reports EXCEPT ![t] = <<"started", "fail">>]
           /\ UNCHANGED worked

Next == \E t \in Tasks : Start(t) \/ Work(t) \/ Pass(t) \/ Fail(t)

Spec == Init /\ [][Next]_vars
=============================================================================
