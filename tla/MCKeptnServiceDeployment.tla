---------------------- MODULE MCKeptnServiceDeployment ----------------------
(***************************************************************************)
(* Instances of KeptnServiceDeployment for TLC: one service, one or two    *)
(* stages, specs that differ in version or only in configVersion.          *)
(***************************************************************************)
EXTENDS KeptnServiceDeployment, TLC

CONSTANTS dev, prod

Spec1 == [version |-> "v1", config |-> "c1"]
Spec2 == [version |-> "v2", config |-> "c1"]
Spec3 == [version |-> "v1", config |-> "c2"]

OneDeployment  == {dev}
TwoDeployments == {dev, prod}

StageOfOne == [d \in {dev} |-> d]
StageOfTwo == [d \in {dev, prod} |-> d]

\* dev moves to a new version; prod gets a new configuration of its version.
PlanTwo      == (dev :> <<Spec1, Spec2>>) @@ (prod :> <<Spec1, Spec3>>)
\* one stage: a new configuration, then a new version.
PlanOne      == dev :> <<Spec1, Spec3, Spec2>>
\* one stage: the new version is rolled back.
PlanRollback == dev :> <<Spec1, Spec2, Spec1>>
=============================================================================
