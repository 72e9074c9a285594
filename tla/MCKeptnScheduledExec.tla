------------------------ MODULE MCKeptnScheduledExec ------------------------
(***************************************************************************)
(* An instance of KeptnScheduledExec for TLC, with every disturbance, two  *)
(* restarts and two decisions on an outdated copy.                         *)
(***************************************************************************)
EXTENDS KeptnScheduledExec

Occurrences == {<<kind, 1>> : kind \in Kinds}
                 \cup {<<"crash", 2>>, <<"stale", 2>>}
=============================================================================
