------------------------- MODULE MCGitRepositorySync ------------------------
(***************************************************************************)
(* Instances of GitRepositorySync for TLC: a project that is applied       *)
(* before the artifacts and a deployment that is applied after them.       *)
(***************************************************************************)
EXTENDS GitRepositorySync, TLC

CONSTANTS project, deployment, a, b, x, y, z, a1, a2, b1

TwoObjects  == {project, deployment}
OrderOfTwo  == <<project, Delivery, deployment>>
TwoServices == {a, b}
NoObjects   == {}
NoKinds     == {}

Keep(tag)    == [tag |-> tag, overwrite |-> FALSE]
Replace(tag) == [tag |-> tag, overwrite |-> TRUE]

Manifests(p, d) == (project :> p) @@ (deployment :> d)
Versions(v, w)  == (a :> v) @@ (b :> w)

\* The second commit replaces the version of a, the third brings a new one.
\* The deployment and service b come with the second or with the third commit.
PlanMixed(d2, b2) ==
  << [spec |-> Manifests(x, NoSpec), artifact |-> Versions(Keep(a1), NoArtifact)],
     [spec |-> Manifests(y, d2),     artifact |-> Versions(Replace(a1), b2)],
     [spec |-> Manifests(z, x),      artifact |-> Versions(Keep(a2), Keep(b1))] >>

PlanTogether   == PlanMixed(x, Keep(b1))
PlanSeparate   == PlanMixed(NoSpec, NoArtifact)
PlanNewService == SubSeq(PlanTogether, 1, 2)

ASSUME PlansGoForward == NoSpecReturns

OnlyCrashes == {"crash"}
AllKinds    == Kinds
Bares       == {project}
=============================================================================
