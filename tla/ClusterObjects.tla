--------------------------- MODULE ClusterObjects ---------------------------
(***************************************************************************)
(* What the controllers of keptn-operator have in common: objects that are *)
(* read from an informer cache and written to the API server, and an       *)
(* environment that disturbs them a bounded number of times.               *)
(*                                                                         *)
(* An object is the sequence of its versions from the cached one (head) to *)
(* the stored one (last).                                                  *)
(***************************************************************************)
EXTENDS Integers, Sequences, FiniteSets

CONSTANTS
  Lag,             \* versions a cache may be behind
  Disturbances,    \* what may disturb the controllers: <<kind, 1>>, <<kind, 2>>, ...
  MaxDisturbances  \* bound on how much of it happens

ASSUME ClusterAssumption ==
  /\ Lag \in Nat
  /\ IsFiniteSet(Disturbances)
  /\ MaxDisturbances \in Nat

VARIABLE disturbed \* the disturbances that have happened

Cached(versions) == Head(versions)
Stored(versions) == versions[Len(versions)]
InSync(versions) == Len(versions) = 1

\* A write that changes nothing makes no version.
Push(versions, version) ==
  IF version = Stored(versions) THEN versions
  ELSE IF Len(versions) <= Lag THEN Append(versions, version)
                               ELSE Append(Tail(versions), version)

Disturb(kind) ==
  /\ Cardinality(disturbed) < MaxDisturbances
  /\ \E d \in Disturbances \ disturbed :
       d[1] = kind /\ disturbed' = disturbed \cup {d}

\* The kinds of disturbance that have happened.
Happened == {d[1] : d \in disturbed}

\* A decision on what a cache shows; one on an outdated copy is a disturbance.
Decide(versions) == IF InSync(versions) THEN UNCHANGED disturbed
                                        ELSE Disturb("stale")
=============================================================================
