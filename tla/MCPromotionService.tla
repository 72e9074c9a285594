------------------------- MODULE MCPromotionService -------------------------
(***************************************************************************)
(* Instances of PromotionService for TLC: two services are promoted to one *)
(* stage, one of them to a second stage, and the event of a fourth cannot  *)
(* be parsed.                                                              *)
(***************************************************************************)
EXTENDS PromotionService, TLC

CONSTANTS p1, p2, p3, p4, dev, prod, t1, t2

TwoPromotions  == {p1, p2}
FourPromotions == {p1, p2, p3, p4}

StageOfTwo   == (p1 :> dev) @@ (p2 :> dev)
TagOfTwo     == (p1 :> t1) @@ (p2 :> t2)
DefectOfTwo  == (p1 :> "none") @@ (p2 :> "none")

StageOfFour  == (p1 :> dev) @@ (p2 :> dev) @@ (p3 :> prod) @@ (p4 :> dev)
TagOfFour    == (p1 :> t1) @@ (p2 :> t2) @@ (p3 :> t1) @@ (p4 :> t2)
DefectOfFour == (p1 :> "none") @@ (p2 :> "credentials") @@ (p3 :> "none")
                @@ (p4 :> "payload")

-----------------------------------------------------------------------------
(* Files: values up to three levels deep, and all of them that base and    *)
(* the stage may have of a service.                                        *)

CONSTANTS atomOfBase, atomOfStage

\* Maps with one of the values at k and one of the others at l, or nothing.
MapsOf(values, others) ==
  {Map(entries) : entries \in {<<>>} \cup {[k |-> v] : v \in values}
                              \cup {[l |-> w] : w \in others}
                              \cup {[k |-> v, l |-> w] : v \in values, w \in others}}

Leaves(atom) == {Scalar(atom), Null, List(<<atom>>)}
Inner(atom)  == MapsOf(Leaves(atom), Leaves(atom))
Middle(atom) == MapsOf(Inner(atom), Leaves(atom))
Outer(atom)  == MapsOf(Leaves(atom) \cup Inner(atom) \cup Middle(atom), {})

ValuesOfBase  == Outer(atomOfBase)
ValuesOfStage == Outer(atomOfStage)

TreesOf(atom) == Leaves(atom) \cup Inner(atom) \cup Middle(atom) \cup Outer(atom)
SmallTrees    == TreesOf(atomOfBase) \cup TreesOf(atomOfStage)

DepthOfTrees ==
  LET atoms  == {atomOfBase, atomOfStage}
      leaves == UNION {Leaves(atom) : atom \in atoms}
      inner  == UNION {Inner(atom) : atom \in atoms}
      middle == UNION {Middle(atom) : atom \in atoms}
  IN  [v \in SmallTrees |-> IF v \in leaves THEN 0 ELSE IF v \in inner THEN 1
                            ELSE IF v \in middle THEN 2 ELSE 3]

AllNames == STRING
KeyPaths == UNION {[1..n -> {"k", "l"}] : n \in 1..3}

\* Two names contain that of the service.
Svc       == "svc"
Dev       == "dev"
RestOfSvc == ("svc" :> <<>>) @@ ("svc-eu" :> <<"-eu">>)

\* A file of a directory, or none.
File(path, content) == IF content = NoValue THEN <<>> ELSE path :> content

Contents(atom) ==
  {NoValue, Invalid, Map([k |-> Scalar(atom)]), Map([l |-> Scalar(atom)]),
   Map([k |-> Map([l |-> Scalar(atom)])])}

\* Values and a chart of the service under base and under the stage.
TagClones ==
  LET values == Helm \o <<"values.yaml">>
      chart  == Helm \o <<"svc-eu", "Chart.yaml">>
      b == BaseDirectory
      s == StageDirectory
  IN  {File(b \o values, bv) @@ File(b \o chart, bc)
         @@ File(s \o values, sv) @@ File(s \o chart, sc) :
         bv \in Contents(atomOfBase), bc \in {NoValue, Scalar(atomOfBase)},
         sv \in Contents(atomOfStage), sc \in {NoValue, Scalar(atomOfStage)}}

\* An earlier promotion, and another service.
StageClones ==
  {<<>>, (<<"svc", "helm", "old.yaml">> :> Scalar(atomOfStage))
         @@ (<<"other">> :> Scalar(atomOfBase))}

-----------------------------------------------------------------------------
AllKinds   == Kinds
OnlyPushes == {"push"}
=============================================================================
