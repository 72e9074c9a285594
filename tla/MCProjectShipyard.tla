-------------------------- MODULE MCProjectShipyard --------------------------
(***************************************************************************)
(* Instances of ProjectShipyard for TLC: two lists of two versions each;   *)
(* the second version of the stages names a sequence that only the second  *)
(* version of the sequences has.                                           *)
(***************************************************************************)
EXTENDS ProjectShipyard, TLC

CONSTANTS stages, sequences, first, second

TwoInputs == {stages, sequences}
Both(i, j) == (stages :> i) @@ (sequences :> j)
Fitting    == {Both(1, 1), Both(2, 2)}
OneOrder   == {first}
TwoOrders  == {first, second}

Behind(n, kinds) == [k \in Objects |-> IF k \in kinds THEN n ELSE 0]
LagOfAll    == Behind(1, Objects)
Fresh       == Behind(0, {})

OneRefusal == {<<"refusal", 1>>}
AllOnce    == {<<kind, 1>> : kind \in Kinds}
=============================================================================
