------------------------ MODULE PromotedFilesProofs ------------------------
(***************************************************************************)
(* Theorems about PromotedFiles, for values files of any depth and         *)
(* directories of any files.                                               *)
(***************************************************************************)
EXTENDS PromotedFiles, WellFoundedInduction, SequenceTheorems, TLAPS

\* Induction without an operator: a set of naturals has a least element.
LEMMA LeastNumber ==
  ASSUME NEW T, T \subseteq Nat, T # {}
  PROVE  \E n \in T : \A m \in T : n <= m
<1> DEFINE R == {ss \in Nat \X Nat : ss[1] < ss[2]}
<1>1. OpToRel(<, Nat) = R
  BY DEF OpToRel
<1>2. IsWellFoundedOn(R, Nat)
  BY <1>1, NatLessThanWellFounded
<1> HIDE DEF R
<1>3. PICK n \in T : \A m \in T : ~(<<m, n>> \in R)
  BY <1>2, WFMin
<1>4. ASSUME NEW m \in T PROVE n <= m
  <2>1. n \in Nat /\ m \in Nat
    OBVIOUS
  <2>2. ~(m < n)
    BY <2>1, <1>3 DEF R
  <2> QED
    BY <2>1, <2>2
<1> QED
  BY <1>4

-----------------------------------------------------------------------------
(* The recursive function Merge is what its definition says.               *)

Pairs    == Trees \X Trees
Small(n) == {in \in Pairs : Depth[in[1]] < n}

\* A merge of the pairs whose first part nests less than n deep.
Partial(m, n) == m = [in \in Small(n) |-> MergeStep(m, in[1], in[2])]

\* The subtrees of a tree are trees that nest less.
LEMMA SubtreesAreSmaller ==
  ASSUME NEW v \in Trees, IsMap(v), NEW k \in DOMAIN v.entries
  PROVE  /\ v.entries[k] \in Trees
         /\ v.entries[k] # NoValue
         /\ Depth[v.entries[k]] < Depth[v]
BY FilesAssumption

LEMMA DepthsAreNumbers == \A v \in Trees : Depth[v] \in Nat
BY FilesAssumption

\* merge calls itself on subtrees only.
LEMMA StepLooksBelow ==
  ASSUME NEW in \in Pairs, NEW m, NEW w,
         \A q \in Pairs : Depth[q[1]] < Depth[in[1]] => m[q] = w[q]
  PROVE  MergeStep(m, in[1], in[2]) = MergeStep(w, in[1], in[2])
<1> DEFINE x == in[1]
           y == in[2]
<1>1. x \in Trees /\ y \in Trees
  BY DEF Pairs
<1> HIDE DEF x, y
<1>2. CASE IsMap(x) /\ IsMap(y)
  <2>1. ASSUME NEW k \in DOMAIN x.entries, k \in DOMAIN y.entries
        PROVE  m[<<x.entries[k], y.entries[k]>>] = w[<<x.entries[k], y.entries[k]>>]
    <3>1. <<x.entries[k], y.entries[k]>> \in Pairs
      BY <1>1, <1>2, <2>1, SubtreesAreSmaller DEF Pairs
    <3>2. Depth[x.entries[k]] < Depth[x]
      BY <1>1, <1>2, SubtreesAreSmaller
    <3> QED
      BY <3>1, <3>2 DEF x
  <2>2. MergeEntries(m, x.entries, y.entries) = MergeEntries(w, x.entries, y.entries)
    BY <2>1 DEF MergeEntries
  <2> QED
    BY <1>2, <2>2 DEF MergeStep, x, y
<1>3. CASE ~(IsMap(x) /\ IsMap(y))
  BY <1>3 DEF MergeStep, x, y
<1> QED
  BY <1>2, <1>3

LEMMA PartialExists == \A n \in Nat : \E m : Partial(m, n)
<1> DEFINE T == {n \in Nat : ~ \E m : Partial(m, n)}
<1> SUFFICES ASSUME T # {} PROVE FALSE
  OBVIOUS
<1>1. PICK n \in T : \A i \in T : n <= i
  BY LeastNumber
<1>2. CASE n = 0
  <2> DEFINE m == [in \in Small(0) |-> NoValue]
  <2>1. Small(0) = {}
    BY DepthsAreNumbers DEF Small, Pairs
  <2>2. Partial(m, 0)
    BY <2>1 DEF Partial
  <2> QED
    BY <1>1, <1>2, <2>2
<1>3. CASE n # 0
  <2>1. n \in Nat /\ n - 1 \in Nat /\ n - 1 \notin T
    BY <1>1, <1>3
  <2>2. PICK m : Partial(m, n - 1)
    BY <2>1
  <2> DEFINE w == [in \in Small(n) |-> MergeStep(m, in[1], in[2])]
  <2>3. ASSUME NEW in \in Small(n)
        PROVE  MergeStep(m, in[1], in[2]) = MergeStep(w, in[1], in[2])
    <3>1. ASSUME NEW q \in Pairs, Depth[q[1]] < Depth[in[1]] PROVE m[q] = w[q]
      <4>1. q[1] \in Trees /\ in \in Pairs /\ in[1] \in Trees
        BY DEF Pairs, Small
      <4>2. Depth[q[1]] < n - 1 /\ Depth[q[1]] < n
        BY <2>1, <3>1, <4>1, DepthsAreNumbers DEF Small
      <4>3. q \in Small(n - 1) /\ q \in Small(n)
        BY <4>2 DEF Small
      <4> QED
        BY <4>3, <2>2 DEF Partial
    <3>2. in \in Pairs
      BY DEF Small
    <3> HIDE DEF w
    <3> QED
      BY <3>1, <3>2, StepLooksBelow
  <2>4. Partial(w, n)
    BY <2>3 DEF Partial
  <2> QED
    BY <1>1, <2>4
<1> QED
  BY <1>2, <1>3

LEMMA PartialIsUnique ==
  ASSUME NEW n1 \in Nat, NEW n2 \in Nat, NEW m, NEW w, Partial(m, n1), Partial(w, n2),
         NEW in \in Small(n1) \cap Small(n2)
  PROVE  m[in] = w[in]
<1> DEFINE Common == Small(n1) \cap Small(n2)
           T == {Depth[q[1]] : q \in {q \in Common : m[q] # w[q]}}
<1> SUFFICES ASSUME m[in] # w[in] PROVE FALSE
  OBVIOUS
<1>1. Depth[in[1]] \in T
  OBVIOUS
<1>2. T \subseteq Nat
  BY DepthsAreNumbers DEF Small, Pairs
<1>3. PICK d \in T : \A i \in T : d <= i
  BY <1>1, <1>2, LeastNumber
<1>4. PICK q \in Common : m[q] # w[q] /\ d = Depth[q[1]]
  BY <1>3
<1>5. q \in Pairs
  BY DEF Small
<1>6. ASSUME NEW p \in Pairs, Depth[p[1]] < Depth[q[1]] PROVE m[p] = w[p]
  <2>1. Depth[p[1]] \in Nat /\ Depth[q[1]] \in Nat
    BY <1>5, DepthsAreNumbers DEF Pairs
  <2>2. Depth[q[1]] < n1 /\ Depth[q[1]] < n2
    BY DEF Small
  <2>3. p \in Common
    BY <1>6, <2>1, <2>2 DEF Small
  <2>4. Depth[p[1]] \notin T
    BY <1>2, <1>3, <1>4, <1>6, <2>1
  <2> QED
    BY <2>3, <2>4
<1>7. MergeStep(m, q[1], q[2]) = MergeStep(w, q[1], q[2])
  BY <1>5, <1>6, StepLooksBelow
<1>8. m[q] = MergeStep(m, q[1], q[2]) /\ w[q] = MergeStep(w, q[1], q[2])
  BY DEF Partial
<1> QED
  BY <1>4, <1>7, <1>8

\* Merge: values files are finite, so the recursion of merge defines a function.
THEOREM MergeTerminates ==
  \A in1, in2 \in Trees : Merge[<<in1, in2>>] = MergeStep(Merge, in1, in2)
<1> DEFINE part(n) == CHOOSE m : Partial(m, n)
           f == [in \in Pairs |-> part(Depth[in[1]] + 1)[in]]
<1>1. ASSUME NEW n \in Nat PROVE Partial(part(n), n)
  BY PartialExists
<1> HIDE DEF part
<1>2. ASSUME NEW in \in Pairs
      PROVE  f[in] = MergeStep(f, in[1], in[2])
  <2> DEFINE d == Depth[in[1]]
  <2>1. d \in Nat /\ d + 1 \in Nat /\ in \in Small(d + 1)
    BY DepthsAreNumbers DEF Small, Pairs
  <2>2. f[in] = MergeStep(part(d + 1), in[1], in[2])
    BY <2>1, <1>1 DEF Partial
  <2>3. ASSUME NEW q \in Pairs, Depth[q[1]] < d PROVE part(d + 1)[q] = f[q]
    <3>1. Depth[q[1]] \in Nat /\ Depth[q[1]] + 1 \in Nat
      BY DepthsAreNumbers DEF Pairs
    <3>2. q \in Small(d + 1) \cap Small(Depth[q[1]] + 1)
      BY <2>1, <2>3, <3>1 DEF Small
    <3>3. part(d + 1)[q] = part(Depth[q[1]] + 1)[q]
      BY <2>1, <3>1, <3>2, <1>1, PartialIsUnique
    <3> QED
      BY <3>3
  <2> HIDE DEF f
  <2> QED
    BY <2>2, <2>3, StepLooksBelow
<1>3. f = [in \in Pairs |-> MergeStep(f, in[1], in[2])]
  <2>1. f = [in \in Pairs |-> f[in]]
    OBVIOUS
  <2> HIDE DEF f
  <2> QED
    BY <1>2, <2>1
<1> HIDE DEF f
<1>4. Merge = [in \in Pairs |-> MergeStep(Merge, in[1], in[2])]
  BY <1>3 DEF Merge, Pairs
<1> HIDE DEF Merge
<1> QED
  BY <1>4 DEF Pairs

-----------------------------------------------------------------------------
(* Paths through a tree.                                                   *)

\* A walk along the first n keys of a path.
Walk(w, v, path, n) ==
  w = [i \in 0..n |-> IF i = 0 THEN v ELSE Entry(w[i - 1], path[i])]

LEMMA WalkExists ==
  ASSUME NEW v, NEW path
  PROVE  \A n \in Nat : \E w : Walk(w, v, path, n)
<1> DEFINE T == {n \in Nat : ~ \E w : Walk(w, v, path, n)}
<1> SUFFICES ASSUME T # {} PROVE FALSE
  OBVIOUS
<1>1. PICK n \in T : \A i \in T : n <= i
  BY LeastNumber
<1>2. CASE n = 0
  <2> DEFINE w == [i \in 0..0 |-> v]
  <2>1. Walk(w, v, path, 0)
    BY DEF Walk
  <2> QED
    BY <1>1, <1>2, <2>1
<1>3. CASE n # 0
  <2>1. n \in Nat /\ n - 1 \in Nat /\ n - 1 \notin T
    BY <1>1, <1>3
  <2>2. PICK u : Walk(u, v, path, n - 1)
    BY <2>1
  <2> DEFINE w == [i \in 0..n |-> IF i = n THEN Entry(u[n - 1], path[n]) ELSE u[i]]
  <2>3. ASSUME NEW i \in 0..n
        PROVE  w[i] = IF i = 0 THEN v ELSE Entry(w[i - 1], path[i])
    <3>1. CASE i = n
      BY <2>1, <3>1, <1>3
    <3>2. CASE i # n
      <4>1. i \in 0..n - 1 /\ w[i] = u[i]
        BY <2>1, <3>2
      <4>2. u[i] = IF i = 0 THEN v ELSE Entry(u[i - 1], path[i])
        BY <4>1, <2>2 DEF Walk
      <4>3. i # 0 => i - 1 \in 0..n /\ i - 1 # n
        BY <2>1, <4>1
      <4> QED
        BY <4>1, <4>2, <4>3
    <3> QED
      BY <3>1, <3>2
  <2>4. w = [i \in 0..n |-> w[i]]
    OBVIOUS
  <2> HIDE DEF w
  <2>5. Walk(w, v, path, n)
    BY <2>3, <2>4 DEF Walk
  <2> QED
    BY <1>1, <2>5
<1> QED
  BY <1>2, <1>3

\* Nodes starts with the tree and goes on with the entries of its keys.
LEMMA NodesStep ==
  ASSUME NEW v, NEW path \in Seq(Names)
  PROVE  /\ Nodes(v, path)[0] = v
         /\ \A i \in 1..Len(path) :
              Nodes(v, path)[i] = Entry(Nodes(v, path)[i - 1], path[i])
<1>1. Len(path) \in Nat
  OBVIOUS
<1>2. PICK w : Walk(w, v, path, Len(path))
  BY <1>1, WalkExists
<1>3. Walk(Nodes(v, path), v, path, Len(path))
  BY <1>2 DEF Walk, Nodes
<1> HIDE DEF Nodes
<1>4. ASSUME NEW i \in 0..Len(path)
      PROVE  Nodes(v, path)[i] = IF i = 0 THEN v ELSE Entry(Nodes(v, path)[i - 1], path[i])
  BY <1>3 DEF Walk
<1>5. Nodes(v, path)[0] = v
  BY <1>1, <1>4
<1>6. ASSUME NEW i \in 1..Len(path)
      PROVE  Nodes(v, path)[i] = Entry(Nodes(v, path)[i - 1], path[i])
  <2>1. i \in 0..Len(path) /\ i # 0
    BY <1>1
  <2> QED
    BY <2>1, <1>4
<1> QED
  BY <1>5, <1>6

-----------------------------------------------------------------------------
(* The merge of two files, node by node.                                   *)

\* Kinds of values exclude each other.
LEMMA KindsDiffer ==
  /\ \A v : ~(IsMap(v) /\ IsList(v))
  /\ ~IsMap(NoValue) /\ ~IsMap(Null) /\ ~IsList(Null) /\ ~IsList(NoValue)
  /\ Null # NoValue
  /\ \A e : IsMap(Map(e)) /\ Map(e).entries = e
  /\ \A s : ~IsMap(List(s)) /\ List(s) # NoValue
BY DEF IsMap, IsList, NoValue, Null, Map, List

\* What merging s into place makes of it where orig has o.
MergedNode(s, o) ==
  IF s \in {NoValue, Null} THEN o
  ELSE IF o = NoValue THEN s ELSE Merge[<<s, o>>]

\* What is decided at a node below the top, or at it.
DecidedNode(s, o, i) ==
  IF i > 1 /\ IsList(s) /\ IsList(o) THEN List(s.items \o o.items) ELSE s

Overrides(s, o, i) == ~IsMap(s) /\ s # NoValue /\ ~(i > 1 /\ s = Null /\ IsMap(o))

NodeValues == Trees \cup {NoValue}

LEMMA EntriesAreTrees ==
  \A v \in NodeValues : \A k : Entry(v, k) \in NodeValues
                         /\ (Entry(v, k) # NoValue => IsMap(v) /\ k \in DOMAIN v.entries
                                                      /\ v.entries[k] = Entry(v, k))
                         /\ (IsMap(v) /\ k \in DOMAIN v.entries => Entry(v, k) \in Trees \ {NoValue})
BY FilesAssumption, KindsDiffer DEF Entry, NodeValues

\* All the way down there are trees, until there is nothing.
LEMMA NodesAreTrees ==
  ASSUME NEW v \in Trees, NEW path \in Seq(Names)
  PROVE  \A i \in 0..Len(path) : Nodes(v, path)[i] \in NodeValues
<1> DEFINE s(i) == Nodes(v, path)[i]
           T == {i \in 0..Len(path) : s(i) \notin NodeValues}
<1>1. s(0) = v /\ \A i \in 1..Len(path) : s(i) = Entry(s(i - 1), path[i])
  BY NodesStep
<1> HIDE DEF s
<1> SUFFICES ASSUME T # {} PROVE FALSE
  BY DEF s
<1>2. Len(path) \in Nat /\ T \subseteq Nat
  OBVIOUS
<1>3. PICK i \in T : \A j \in T : i <= j
  BY <1>2, LeastNumber
<1>4. CASE i = 0
  BY <1>1, <1>3, <1>4 DEF NodeValues
<1>5. CASE i # 0
  <2>1. i \in 1..Len(path) /\ i - 1 \in 0..Len(path) /\ i - 1 \notin T
    BY <1>2, <1>3, <1>5
  <2> QED
    BY <1>1, <1>3, <2>1, EntriesAreTrees
<1> QED
  BY <1>4, <1>5

\* One key further, where nothing was decided yet.
LEMMA StepOfMerge ==
  ASSUME NEW s \in NodeValues, NEW o \in NodeValues, NEW k, NEW i \in Nat, i > 1,
         IsMap(s) \/ s = NoValue \/ s = Null
  PROVE  LET s1 == Entry(s, k)
             o1 == Entry(o, k)
         IN  Entry(MergedNode(s, o), k) =
               IF Overrides(s1, o1, i) THEN DecidedNode(s1, o1, i) ELSE MergedNode(s1, o1)
<1> DEFINE s1 == Entry(s, k)
           o1 == Entry(o, k)
<1> SUFFICES Entry(MergedNode(s, o), k) =
               IF Overrides(s1, o1, i) THEN DecidedNode(s1, o1, i) ELSE MergedNode(s1, o1)
  OBVIOUS
<1>0. s1 \in NodeValues /\ o1 \in NodeValues
  BY EntriesAreTrees
<1>1. CASE s \in {NoValue, Null}
  <2>1. s1 = NoValue
    BY <1>1, KindsDiffer DEF Entry
  <2> QED
    BY <1>1, <2>1 DEF MergedNode, Overrides
<1>2. CASE IsMap(s) /\ ~IsMap(o)
  <2>1. MergedNode(s, o) = s
    <3>1. CASE o = NoValue
      BY <1>2, <3>1, KindsDiffer DEF MergedNode
    <3>2. CASE o # NoValue
      <4>1. s \in Trees /\ o \in Trees /\ s \notin {NoValue, Null}
        BY <1>2, <3>2, KindsDiffer DEF NodeValues
      <4>2. Merge[<<s, o>>] = s
        BY <4>1, <1>2, MergeTerminates, KindsDiffer DEF MergeStep
      <4> QED
        BY <4>1, <4>2, <3>2 DEF MergedNode
    <3> QED
      BY <3>1, <3>2
  <2>2. o1 = NoValue
    BY <1>2 DEF Entry
  <2> QED
    BY <2>1, <2>2, KindsDiffer DEF Overrides, DecidedNode, MergedNode
<1>3. CASE IsMap(s) /\ IsMap(o)
  <2>1. s \in Trees /\ o \in Trees /\ s \notin {NoValue, Null} /\ o # NoValue
    BY <1>3, KindsDiffer DEF NodeValues
  <2>2. MergedNode(s, o) = Map(MergeEntries(Merge, s.entries, o.entries))
    BY <2>1, <1>3, MergeTerminates, KindsDiffer DEF MergeStep, MergedNode
  <2> DEFINE e == MergeEntries(Merge, s.entries, o.entries)
  <2>3. Entry(MergedNode(s, o), k) = IF k \in DOMAIN e THEN e[k] ELSE NoValue
    BY <2>2, KindsDiffer DEF Entry
  <2>4. DOMAIN e = DOMAIN s.entries \cup DOMAIN o.entries
    BY DEF MergeEntries
  <2>5. CASE k \notin DOMAIN s.entries
    <3>1. s1 = NoValue
      BY <2>5 DEF Entry
    <3>2. Entry(MergedNode(s, o), k) = o1
      BY <1>3, <2>3, <2>4, <2>5 DEF MergeEntries, Entry
    <3> QED
      BY <3>1, <3>2 DEF Overrides, MergedNode
  <2>6. CASE k \in DOMAIN s.entries /\ k \notin DOMAIN o.entries
    <3>1. o1 = NoValue
      BY <2>6 DEF Entry
    <3>2. Entry(MergedNode(s, o), k) = s1
      BY <1>3, <2>3, <2>4, <2>6 DEF MergeEntries, Entry
    <3> QED
      BY <3>1, <3>2, KindsDiffer DEF Overrides, DecidedNode, MergedNode
  <2>7. CASE k \in DOMAIN s.entries /\ k \in DOMAIN o.entries
    <3>1. s1 = s.entries[k] /\ o1 = o.entries[k]
      BY <1>3, <2>7 DEF Entry
    <3>2. s1 \in Trees \ {NoValue} /\ o1 \in Trees \ {NoValue}
      BY <1>3, <2>7, <2>1, EntriesAreTrees DEF NodeValues
    <3>3. Entry(MergedNode(s, o), k) = MergeStep(Merge, s1, o1)
      <4>1. Entry(MergedNode(s, o), k) = Merge[<<s1, o1>>]
        BY <2>3, <2>4, <2>7, <3>1 DEF MergeEntries
      <4> QED
        BY <4>1, <3>2, MergeTerminates
    <3> HIDE DEF s1, o1
    <3>4. CASE Overrides(s1, o1, i)
      BY <3>2, <3>3, <3>4, KindsDiffer DEF Overrides, DecidedNode, MergeStep
    <3>5. CASE ~Overrides(s1, o1, i)
      <4>1. CASE IsMap(s1)
        BY <3>2, <3>3, <3>5, <4>1, KindsDiffer, MergeTerminates DEF MergedNode
      <4>2. CASE ~IsMap(s1)
        BY <3>2, <3>3, <3>5, <4>2, KindsDiffer DEF MergedNode, Overrides, MergeStep
      <4> QED
        BY <4>1, <4>2
    <3> QED
      BY <3>4, <3>5
  <2> QED
    BY <2>5, <2>6, <2>7
<1> QED
  BY <1>1, <1>2, <1>3

\* The first key: the file of the stage is put over that of base.
LEMMA FirstStep ==
  ASSUME NEW orig \in OrigFiles, NEW stage \in StageFiles, NEW k
  PROVE  LET s1 == Entry(stage, k)
             o1 == Entry(orig, k)
         IN  Entry(Manipulate(orig, stage), k) =
               IF Overrides(s1, o1, 1) THEN DecidedNode(s1, o1, 1) ELSE MergedNode(s1, o1)
<1> DEFINE s1 == Entry(stage, k)
           o1 == Entry(orig, k)
           e  == ManipulatedEntries(orig.entries, stage.entries)
<1> SUFFICES Entry(Manipulate(orig, stage), k) =
               IF Overrides(s1, o1, 1) THEN DecidedNode(s1, o1, 1) ELSE MergedNode(s1, o1)
  OBVIOUS
<1>1. IsMap(orig) /\ IsMap(stage) /\ orig \in NodeValues /\ stage \in NodeValues
  BY FilesAssumption DEF NodeValues
<1>2. Entry(Manipulate(orig, stage), k) = IF k \in DOMAIN e THEN e[k] ELSE NoValue
  BY KindsDiffer DEF Manipulate, Entry
<1>3. DOMAIN e = DOMAIN orig.entries \cup DOMAIN stage.entries
  BY DEF ManipulatedEntries
<1>4. CASE k \notin DOMAIN stage.entries
  <2>1. s1 = NoValue
    BY <1>4 DEF Entry
  <2>2. Entry(Manipulate(orig, stage), k) = o1
    BY <1>1, <1>2, <1>3, <1>4 DEF ManipulatedEntries, Entry
  <2> QED
    BY <2>1, <2>2 DEF Overrides, MergedNode
<1>5. CASE k \in DOMAIN stage.entries
  <2>1. s1 = stage.entries[k] /\ s1 \in Trees \ {NoValue}
    BY <1>1, <1>5, EntriesAreTrees DEF Entry
  <2>2. CASE k \notin DOMAIN orig.entries
    <3>1. o1 = NoValue
      BY <2>2 DEF Entry
    <3>2. Entry(Manipulate(orig, stage), k) = s1
      BY <1>2, <1>3, <1>5, <2>1, <2>2 DEF ManipulatedEntries
    <3> QED
      BY <2>1, <3>1, <3>2, KindsDiffer DEF Overrides, DecidedNode, MergedNode
  <2>3. CASE k \in DOMAIN orig.entries
    <3>1. o1 = orig.entries[k] /\ o1 \in Trees \ {NoValue}
      BY <1>1, <2>3, EntriesAreTrees DEF Entry
    <3>2. Entry(Manipulate(orig, stage), k) =
            IF IsMap(s1) THEN Merge[<<s1, o1>>] ELSE s1
      BY <1>2, <1>3, <1>5, <2>1, <2>3, <3>1 DEF ManipulatedEntries
    <3> HIDE DEF s1, o1
    <3> QED
      BY <2>1, <3>1, <3>2, KindsDiffer DEF Overrides, DecidedNode, MergedNode
  <2> QED
    BY <2>2, <2>3
<1> QED
  BY <1>4, <1>5

\* The i-th node of the merged file, in terms of those of the two files.
NodeIsRight(orig, stage, path, i) ==
  LET s == Nodes(stage, path)[i]
      o == Nodes(orig, path)[i]
      m == Nodes(Manipulate(orig, stage), path)[i]
  IN  IF Decides(orig, stage, path, i) THEN m = DecidedNode(s, o, i)
      ELSE IF \E j \in 1..i - 1 : Decides(orig, stage, path, j)
        THEN m = NoValue /\ s = NoValue
      ELSE m = MergedNode(s, o)

LEMMA NodesAreRight ==
  ASSUME NEW orig \in OrigFiles, NEW stage \in StageFiles, NEW path \in Paths
  PROVE  \A i \in 1..Len(path) : NodeIsRight(orig, stage, path, i)
<1> DEFINE s(i) == Nodes(stage, path)[i]
           o(i) == Nodes(orig, path)[i]
           m(i) == Nodes(Manipulate(orig, stage), path)[i]
           D(i) == Decides(orig, stage, path, i)
           T == {i \in 1..Len(path) : ~NodeIsRight(orig, stage, path, i)}
<1>1. path \in Seq(Names) /\ Len(path) \in Nat
  BY FilesAssumption
<1>2. /\ s(0) = stage /\ o(0) = orig /\ m(0) = Manipulate(orig, stage)
      /\ \A i \in 1..Len(path) : /\ s(i) = Entry(s(i - 1), path[i])
                                 /\ o(i) = Entry(o(i - 1), path[i])
                                 /\ m(i) = Entry(m(i - 1), path[i])
  BY <1>1, NodesStep
<1>3. \A i : D(i) <=> Overrides(s(i), o(i), i)
  BY DEF Decides, Overrides
<1>4. \A i : NodeIsRight(orig, stage, path, i) <=>
        IF D(i) THEN m(i) = DecidedNode(s(i), o(i), i)
        ELSE IF \E j \in 1..i - 1 : D(j) THEN m(i) = NoValue /\ s(i) = NoValue
        ELSE m(i) = MergedNode(s(i), o(i))
  BY DEF NodeIsRight
<1> HIDE DEF s, o, m, D
<1>5. \A i \in 0..Len(path) : s(i) \in NodeValues /\ o(i) \in NodeValues
  BY <1>1, NodesAreTrees, FilesAssumption DEF s, o
<1> SUFFICES ASSUME T # {} PROVE FALSE
  OBVIOUS
<1>6. PICK i \in T : \A j \in T : i <= j
  <2>1. T \subseteq Nat
    BY <1>1
  <2> QED
    BY <2>1, LeastNumber
<1>7. i \in 1..Len(path) /\ i \in Nat
  BY <1>1
<1>8. CASE i = 1
  <2>1. m(1) = IF D(1) THEN DecidedNode(s(1), o(1), 1) ELSE MergedNode(s(1), o(1))
    <3>1. s(1) = Entry(stage, path[1]) /\ o(1) = Entry(orig, path[1])
          /\ m(1) = Entry(Manipulate(orig, stage), path[1])
      BY <1>2, <1>7, <1>8
    <3> QED
      BY <3>1, <1>3, FirstStep
  <2>2. 1..i - 1 = {}
    BY <1>8
  <2> QED
    BY <1>4, <1>8, <2>1, <2>2
<1>9. CASE i # 1
  <2>1. i - 1 \in 1..Len(path) /\ i - 1 \notin T /\ i > 1 /\ i - 1 \in 0..Len(path)
    BY <1>1, <1>6, <1>7, <1>9
  <2>2. NodeIsRight(orig, stage, path, i - 1)
    BY <2>1
  <2>3. 1..i - 1 = 1..(i - 1) - 1 \cup {i - 1}
    BY <1>7, <2>1
  <2>4. CASE \E j \in 1..i - 1 : D(j)
    <3>1. ~IsMap(s(i - 1)) /\ ~IsMap(m(i - 1))
      <4>1. CASE D(i - 1)
        BY <4>1, <2>2, <1>3, <1>4, KindsDiffer DEF Overrides, DecidedNode
      <4>2. CASE ~D(i - 1)
        BY <4>2, <2>2, <2>3, <2>4, <1>4, KindsDiffer
      <4> QED
        BY <4>1, <4>2
    <3>2. s(i) = NoValue /\ m(i) = NoValue
      BY <3>1, <1>2, <1>7 DEF Entry
    <3>3. ~D(i)
      BY <3>2, <1>3 DEF Overrides
    <3> QED
      BY <1>4, <1>6, <2>4, <3>2, <3>3
  <2>5. CASE ~ \E j \in 1..i - 1 : D(j)
    <3>1. ~D(i - 1) /\ m(i - 1) = MergedNode(s(i - 1), o(i - 1))
      BY <2>1, <2>2, <2>3, <2>5, <1>4
    <3>2. IsMap(s(i - 1)) \/ s(i - 1) = NoValue \/ s(i - 1) = Null
      BY <3>1, <1>3 DEF Overrides
    <3>3. m(i) = IF D(i) THEN DecidedNode(s(i), o(i), i) ELSE MergedNode(s(i), o(i))
      <4>1. /\ s(i) = Entry(s(i - 1), path[i])
            /\ o(i) = Entry(o(i - 1), path[i])
            /\ m(i) = Entry(MergedNode(s(i - 1), o(i - 1)), path[i])
        BY <1>2, <1>7, <3>1
      <4>2. s(i - 1) \in NodeValues /\ o(i - 1) \in NodeValues
        BY <1>5, <2>1
      <4> QED
        BY <4>1, <4>2, <3>2, <2>1, <1>3, <1>7, StepOfMerge
    <3> QED
      BY <1>4, <1>6, <2>5, <3>3
  <2> QED
    BY <2>4, <2>5
<1> QED
  BY <1>8, <1>9

\* Manipulate: what a path of keys leads to in the merged values is what the
\* values of the stage say, and of base what those leave open, however deep.
THEOREM MergeFollowsPaths == MergesPaths
<1> SUFFICES ASSUME NEW orig \in OrigFiles, NEW stage \in StageFiles, NEW path \in Paths
             PROVE  Leaf(Nodes(Manipulate(orig, stage), path)[Len(path)])
                      = Expected(orig, stage, path)
  BY DEF MergesPaths
<1> DEFINE n == Len(path)
           s == Nodes(stage, path)[n]
           o == Nodes(orig, path)[n]
           m == Nodes(Manipulate(orig, stage), path)[n]
           D(i) == Decides(orig, stage, path, i)
<1>1. n \in Nat /\ n \in 1..n
  BY FilesAssumption
<1>2. IF D(n) THEN m = DecidedNode(s, o, n)
      ELSE IF \E j \in 1..n - 1 : D(j) THEN m = NoValue /\ s = NoValue
      ELSE m = MergedNode(s, o)
  BY <1>1, NodesAreRight DEF NodeIsRight
<1>3. D(n) <=> Overrides(s, o, n)
  BY DEF Decides, Overrides
<1>4. Expected(orig, stage, path) =
        IF D(n) THEN DecidedNode(s, o, n)
        ELSE IF s # NoValue \/ \E j \in 1..n : D(j) THEN NoValue ELSE Leaf(o)
  BY DEF Expected, DecidedNode
<1>5. (\E j \in 1..n : D(j)) <=> D(n) \/ \E j \in 1..n - 1 : D(j)
  BY <1>1
<1>6. s \in NodeValues /\ o \in NodeValues
  BY <1>1, NodesAreTrees, FilesAssumption
<1> HIDE DEF n, s, o, m, D
<1>7. CASE D(n)
  BY <1>2, <1>3, <1>4, <1>7, KindsDiffer DEF Leaf, DecidedNode, Overrides, m, n
<1>8. CASE ~D(n) /\ \E j \in 1..n - 1 : D(j)
  BY <1>2, <1>4, <1>5, <1>8, KindsDiffer DEF Leaf, m, n
<1>9. CASE ~D(n) /\ ~ \E j \in 1..n - 1 : D(j)
  <2>1. m = MergedNode(s, o)
    BY <1>2, <1>9
  <2>2. CASE s = NoValue
    BY <2>1, <2>2, <1>4, <1>5, <1>9 DEF MergedNode, m, n
  <2>3. CASE s # NoValue
    <3>1. IsMap(m)
      <4>1. CASE s = Null
        BY <4>1, <2>1, <2>3, <1>3, <1>9, KindsDiffer DEF Overrides, MergedNode
      <4>2. CASE s # Null
        <5>1. IsMap(s) /\ s \in Trees
          BY <4>2, <2>3, <1>3, <1>6, <1>9 DEF Overrides, NodeValues
        <5>2. CASE o = NoValue
          BY <5>1, <5>2, <4>2, <2>1, <2>3 DEF MergedNode
        <5>3. CASE o # NoValue
          <6>1. o \in Trees
            BY <5>3, <1>6 DEF NodeValues
          <6>2. m = MergeStep(Merge, s, o)
            BY <6>1, <5>1, <5>3, <4>2, <2>1, <2>3, MergeTerminates DEF MergedNode
          <6> QED
            BY <6>2, <5>1, KindsDiffer DEF MergeStep
        <5> QED
          BY <5>2, <5>3
      <4> QED
        BY <4>1, <4>2
    <3> QED
      BY <3>1, <2>3, <1>4, <1>9 DEF Leaf, m, n
  <2> QED
    BY <2>2, <2>3
<1> QED
  BY <1>7, <1>8, <1>9

-----------------------------------------------------------------------------
(* Paths and directories.                                                  *)

PathNames == Seq(Names)

\* What is named in a directory are paths.
HasPaths(from) == DOMAIN from \subseteq PathNames

\* What is under a directory, and what it is called below it.
LEMMA PathsSplit ==
  ASSUME NEW path \in PathNames, NEW d \in PathNames, IsUnder(path, d)
  PROVE  /\ Below(path, Len(d)) \in PathNames \ {<<>>}
         /\ path = d \o Below(path, Len(d))
<1> DEFINE n == Len(d)
           f == Below(path, n)
<1>1. n \in Nat /\ Len(path) \in Nat /\ Len(path) > n /\ SubSeq(path, 1, n) = d
  BY DEF IsUnder, PathNames
<1>2. \A i \in n + 1..Len(path) : path[i] \in Names
  BY <1>1 DEF PathNames
<1>3. f \in PathNames /\ Len(f) = Len(path) - n
  BY <1>1, <1>2, SubSeqProperties DEF PathNames, Below
<1>4. SubSeq(path, 1, n) \o SubSeq(path, n + 1, Len(path)) = SubSeq(path, 1, Len(path))
  <2>1. 1 \in 1..Len(path) + 1 /\ n \in 1 - 1..Len(path) /\ Len(path) \in n..Len(path)
    BY <1>1
  <2> QED
    BY <2>1, ConcatAdjacentSubSeq DEF PathNames
<1>5. SubSeq(path, 1, Len(path)) = path
  BY SubSeqFull DEF PathNames
<1>6. f # <<>>
  BY <1>1, <1>3, EmptySeq
<1>7. path = d \o SubSeq(path, n + 1, Len(path))
  BY <1>1, <1>4, <1>5
<1> QED
  BY <1>3, <1>6, <1>7 DEF Below

LEMMA PathsJoin ==
  ASSUME NEW d \in PathNames, NEW f \in PathNames
  PROVE  /\ d \o f \in PathNames
         /\ Len(d \o f) = Len(d) + Len(f)
         /\ Below(d \o f, Len(d)) = f
         /\ f # <<>> => IsUnder(d \o f, d)
<1>1. Len(d) \in Nat /\ Len(f) \in Nat /\ (f # <<>> => Len(f) > 0)
  BY EmptySeq DEF PathNames
<1>2. d \o f \in PathNames /\ Len(d \o f) = Len(d) + Len(f)
  BY ConcatProperties DEF PathNames
<1>3. \A i \in 1..Len(d) + Len(f) : (d \o f)[i] = IF i <= Len(d) THEN d[i] ELSE f[i - Len(d)]
  BY ConcatProperties DEF PathNames
<1>4. Below(d \o f, Len(d)) = f
  <2> DEFINE g == SubSeq(d \o f, Len(d) + 1, Len(d) + Len(f))
  <2>1. \A i \in Len(d) + 1..Len(d) + Len(f) : (d \o f)[i] \in Names
    BY <1>1, <1>2 DEF PathNames
  <2>2. /\ g \in PathNames /\ Len(g) = Len(f)
        /\ \A i \in 1..Len(f) : g[i] = (d \o f)[Len(d) + i]
    BY <2>1, <1>1, SubSeqProperties DEF PathNames
  <2>3. \A i \in 1..Len(f) : g[i] = f[i]
    BY <1>1, <1>3, <2>2
  <2>4. g = f
    BY <2>2, <2>3, SeqEqual DEF PathNames
  <2> QED
    BY <2>4, <1>2 DEF Below
<1>5. SubSeq(d \o f, 1, Len(d)) = d
  <2> DEFINE g == SubSeq(d \o f, 1, Len(d))
  <2>1. \A i \in 1..Len(d) : (d \o f)[i] \in Names
    BY <1>1, <1>2 DEF PathNames
  <2>2. /\ g \in PathNames /\ Len(g) = Len(d)
        /\ \A i \in 1..Len(d) : g[i] = (d \o f)[i]
    BY <2>1, <1>1, SubSeqProperties DEF PathNames
  <2>3. \A i \in 1..Len(d) : g[i] = d[i]
    BY <1>1, <1>3, <2>2
  <2> QED
    BY <2>2, <2>3, SeqEqual DEF PathNames
<1> QED
  BY <1>1, <1>2, <1>4, <1>5 DEF IsUnder

LEMMA PathsCancel ==
  ASSUME NEW d \in PathNames, NEW f \in PathNames, NEW g \in PathNames, d \o f = d \o g
  PROVE  f = g
<1>1. Below(d \o f, Len(d)) = f /\ Below(d \o g, Len(d)) = g
  BY PathsJoin
<1> QED
  BY <1>1

LEMMA FilesUnderAre ==
  ASSUME NEW from, HasPaths(from), NEW d \in PathNames, NEW f
  PROVE  f \in FilesUnder(from, d) <=> f \in PathNames \ {<<>>} /\ d \o f \in DOMAIN from
<1>2. ASSUME f \in FilesUnder(from, d)
      PROVE  f \in PathNames \ {<<>>} /\ d \o f \in DOMAIN from
  <2>1. PICK path \in DOMAIN from : IsUnder(path, d) /\ f = Below(path, Len(d))
    BY <1>2 DEF FilesUnder
  <2> QED
    BY <2>1, PathsSplit DEF HasPaths
<1>3. ASSUME f \in PathNames \ {<<>>}, d \o f \in DOMAIN from
      PROVE  f \in FilesUnder(from, d)
  BY <1>3, PathsJoin DEF FilesUnder
<1> QED
  BY <1>2, <1>3

\* The two directories of the service in a tag, and the one it gets.
LEMMA DirectoriesArePaths ==
  /\ <<Service>> \in PathNames /\ Len(<<Service>>) = 1
  /\ BaseDirectory \in PathNames /\ Len(BaseDirectory) = 3
  /\ BaseDirectory[1] = "temp" /\ BaseDirectory[2] = "base" /\ BaseDirectory[3] = Service
  /\ StageDirectory \in PathNames /\ Len(StageDirectory) = 4
  /\ StageDirectory[1] = "temp" /\ StageDirectory[2] = "stages"
  /\ StageDirectory[3] = Stage /\ StageDirectory[4] = Service
  /\ Helm \in PathNames /\ Values \in PathNames \ {<<>>}
  /\ <<"values.yaml">> \in PathNames \ {<<>>}
<1>1. {"temp", "base", "stages", "helm", "values.yaml", Service, Stage} \subseteq Names
  BY FilesAssumption
<1>2. /\ <<Service>> \in PathNames /\ Len(<<Service>>) = 1
      /\ <<"values.yaml">> \in PathNames /\ Len(<<"values.yaml">>) = 1
      /\ Helm \in PathNames /\ Len(Helm) = 2
  BY <1>1 DEF Helm, PathNames
<1>3. Values \in PathNames /\ Len(Values) = 3
  <2>1. Values \in PathNames /\ Len(Values) = Len(Helm) + Len(<<"values.yaml">>)
    BY <1>2, PathsJoin DEF Values
  <2> QED
    BY <1>2, <2>1
<1>4. Values # <<>> /\ <<"values.yaml">> # <<>>
  BY <1>2, <1>3, EmptySeq
<1>5. /\ BaseDirectory \in PathNames /\ Len(BaseDirectory) = 3
      /\ BaseDirectory[1] = "temp" /\ BaseDirectory[2] = "base" /\ BaseDirectory[3] = Service
  BY <1>1 DEF BaseDirectory, PathNames
<1>6. /\ StageDirectory \in PathNames /\ Len(StageDirectory) = 4
      /\ StageDirectory[1] = "temp" /\ StageDirectory[2] = "stages"
      /\ StageDirectory[3] = Stage /\ StageDirectory[4] = Service
  BY <1>1 DEF StageDirectory, PathNames
<1> QED
  BY <1>2, <1>3, <1>4, <1>5, <1>6

\* No file is in both of them.
LEMMA BaseIsNotStage ==
  ASSUME NEW f \in PathNames, NEW g \in PathNames
  PROVE  BaseDirectory \o f # StageDirectory \o g
<1>1. ASSUME NEW d \in PathNames, Len(d) \in {3, 4}, NEW h \in PathNames
      PROVE  (d \o h)[2] = d[2]
  <2>1. Len(d) \in Nat /\ Len(h) \in Nat
    BY DEF PathNames
  <2>2. 2 \in 1..Len(d) + Len(h) /\ 2 <= Len(d)
    <3>1. CASE Len(d) = 3
      BY <2>1, <3>1
    <3>2. CASE Len(d) = 4
      BY <2>1, <3>2
    <3> QED
      BY <1>1, <3>1, <3>2
  <2> QED
    BY <2>2, ConcatProperties DEF PathNames
<1>2. (BaseDirectory \o f)[2] = "base" /\ (StageDirectory \o g)[2] = "stages"
  BY <1>1, DirectoriesArePaths
<1> QED
  BY <1>2

\* moveFiles: the name of the service is found where it is meant.
LEMMA ServiceIsFound ==
  ASSUME NamesAreApart, NEW d \in {BaseDirectory, StageDirectory},
         NEW f \in PathNames
  PROVE  NewPath(d \o f) = <<Service>> \o f
<1> DEFINE path == d \o f
           n == Len(d)
           IsFirst(i) == path[i] \in DOMAIN Rest /\ \A j \in 1..i - 1 : path[j] \notin DOMAIN Rest
<1>1. d \in PathNames /\ n \in {3, 4} /\ d[n] = Service
      /\ \A j \in 1..n - 1 : d[j] \in {"temp", "base", "stages", Stage}
  <2>1. CASE d = BaseDirectory
    <3>1. \A j \in 1..3 - 1 : j = 1 \/ j = 2
      OBVIOUS
    <3> QED
      BY <2>1, <3>1, DirectoriesArePaths
  <2>2. CASE d = StageDirectory
    <3>1. \A j \in 1..4 - 1 : j = 1 \/ j = 2 \/ j = 3
      OBVIOUS
    <3> QED
      BY <2>2, <3>1, DirectoriesArePaths
  <2> QED
    BY <2>1, <2>2
<1>2. path \in PathNames /\ Len(path) = n + Len(f) /\ Len(f) \in Nat
      /\ \A j \in 1..n : path[j] = d[j]
  BY <1>1, ConcatProperties DEF PathNames
<1> HIDE DEF path, n
<1>3. n \in 1..Len(path) /\ IsFirst(n)
  <2>1. n \in 1..n /\ n \in 1..Len(path)
    BY <1>1, <1>2
  <2>2. path[n] \in DOMAIN Rest
    BY <2>1, <1>1, <1>2, FilesAssumption
  <2>3. ASSUME NEW j \in 1..n - 1 PROVE path[j] \notin DOMAIN Rest
    <3>1. path[j] = d[j] /\ d[j] \in {"temp", "base", "stages", Stage}
      BY <1>1, <1>2
    <3> QED
      BY <3>1 DEF NamesAreApart
  <2> QED
    BY <2>1, <2>2, <2>3
<1>4. ASSUME NEW i \in 1..Len(path), IsFirst(i) PROVE i = n
  <2>1. i < n => path[i] \notin DOMAIN Rest
    BY <1>1, <1>3
  <2>2. n < i => path[n] \notin DOMAIN Rest
    BY <1>1, <1>4
  <2> QED
    BY <1>1, <1>3, <1>4, <2>1, <2>2
<1> HIDE DEF IsFirst
<1>5. (CHOOSE i \in 1..Len(path) : IsFirst(i)) = n
  BY <1>3, <1>4
<1>6. AfterService(path) = Rest[path[n]] \o Below(path, n)
  BY <1>5 DEF AfterService, IsFirst
<1>7. Rest[path[n]] = <<>> /\ Below(path, n) = f
  BY <1>1, <1>2, <1>3, FilesAssumption, PathsJoin DEF path, n
<1>8. AfterService(path) = f
  BY <1>6, <1>7, ConcatEmptySeq DEF PathNames
<1> QED
  BY <1>8 DEF NewPath, path

-----------------------------------------------------------------------------
(* Moving.                                                                 *)

Arrived(from, d) == {<<Service>> \o f : f \in FilesUnder(from, d)}

LEMMA ArrivedAreFiles ==
  ASSUME NEW from, HasPaths(from), NEW d \in PathNames,
         NEW f \in PathNames
  PROVE  <<Service>> \o f \in Arrived(from, d) <=> f \in FilesUnder(from, d)
<1>1. ASSUME <<Service>> \o f \in Arrived(from, d) PROVE f \in FilesUnder(from, d)
  <2>1. PICK g \in FilesUnder(from, d) : <<Service>> \o f = <<Service>> \o g
    BY <1>1 DEF Arrived
  <2>2. g \in PathNames
    BY FilesUnderAre
  <2> QED
    BY <2>1, <2>2, PathsCancel, DirectoriesArePaths
<1> QED
  BY <1>1 DEF Arrived

\* The files under d and no others are in result, together with those of to.
AreMoved(from, d, to, result) ==
  /\ DOMAIN result = DOMAIN to \cup Arrived(from, d)
  /\ \A f \in FilesUnder(from, d) : result[<<Service>> \o f] = from[d \o f]
  /\ \A path \in DOMAIN to \ Arrived(from, d) : result[path] = to[path]

\* MoveFiles: every file under the directory arrives under the service, with
\* its content, and all other files are left alone.
LEMMA FilesAreMoved ==
  ASSUME NamesAreApart, NEW d \in {BaseDirectory, StageDirectory},
         NEW from, HasPaths(from), NEW to
  PROVE  AreMoved(from, d, to, MoveFiles(from, d, to))
<1> DEFINE moved == {path \in DOMAIN from : IsUnder(path, d)}
           arrived == {NewPath(path) : path \in moved}
<1>1. d \in PathNames
  BY DirectoriesArePaths
<1>2. \A path \in moved : /\ Below(path, Len(d)) \in PathNames \ {<<>>}
                          /\ path = d \o Below(path, Len(d))
                          /\ NewPath(path) = <<Service>> \o Below(path, Len(d))
  BY <1>1, PathsSplit, ServiceIsFound DEF HasPaths
<1>3. arrived = Arrived(from, d)
  <2>1. ASSUME NEW path \in moved PROVE NewPath(path) \in Arrived(from, d)
    <3>1. Below(path, Len(d)) \in FilesUnder(from, d)
      BY DEF FilesUnder
    <3> QED
      BY <3>1, <1>2 DEF Arrived
  <2>2. ASSUME NEW f \in FilesUnder(from, d) PROVE <<Service>> \o f \in arrived
    <3>1. PICK path \in moved : f = Below(path, Len(d))
      BY DEF FilesUnder
    <3>2. NewPath(path) = <<Service>> \o f
      BY <3>1, <1>2
    <3> QED
      BY <3>2
  <2> QED
    BY <2>1, <2>2 DEF Arrived
<1>4. ASSUME NEW f \in FilesUnder(from, d)
      PROVE  (CHOOSE p \in moved : NewPath(p) = <<Service>> \o f) = d \o f
  <2>1. f \in PathNames \ {<<>>} /\ d \o f \in DOMAIN from
    BY <1>1, FilesUnderAre
  <2>2. d \o f \in moved /\ NewPath(d \o f) = <<Service>> \o f
    BY <1>1, <2>1, PathsJoin, ServiceIsFound
  <2>3. ASSUME NEW p \in moved, NewPath(p) = <<Service>> \o f PROVE p = d \o f
    BY <1>2, <2>1, <2>3, PathsCancel, DirectoriesArePaths
  <2> QED
    BY <2>2, <2>3
<1>5. MoveFiles(from, d, to) =
        [path \in DOMAIN to \cup arrived |->
           IF path \in arrived THEN from[CHOOSE p \in moved : NewPath(p) = path]
                               ELSE to[path]]
  BY DEF MoveFiles
<1> HIDE DEF moved, arrived
<1>6. ASSUME NEW f \in FilesUnder(from, d)
      PROVE  MoveFiles(from, d, to)[<<Service>> \o f] = from[d \o f]
  <2>1. <<Service>> \o f \in arrived
    BY <1>3 DEF Arrived
  <2> QED
    BY <2>1, <1>4, <1>5
<1> QED
  BY <1>3, <1>5, <1>6 DEF AreMoved

-----------------------------------------------------------------------------
(* What is committed.                                                      *)

\* ContentOf: there is a file where there is content.
LEMMA ContentsExist ==
  ASSUME NEW from, IsDirectory(from), NEW path
  PROVE  ContentOf(from, path) # NoValue <=> path \in DOMAIN from
BY DEF ContentOf, IsDirectory

\* mergeHelmValues: the merge adds or replaces the values of the stage, when
\* base or the stage has values, and leaves all other files.
LEMMA ValuesAreMerged ==
  ASSUME NEW from, IsDirectory(from)
  PROVE  LET merged == MergeHelmValues(from)
             base   == BaseDirectory \o Values
             stage  == StageDirectory \o Values
         IN  /\ IsDirectory(merged)
             /\ DOMAIN merged \subseteq DOMAIN from \cup {stage}
             /\ DOMAIN from \subseteq DOMAIN merged
             /\ \A path \in DOMAIN from \ {stage} : merged[path] = from[path]
             /\ Merged(from) = NoValue => merged = from
             /\ stage \in DOMAIN merged /\ Merged(from) # NoValue => merged[stage] = Merged(from)
             /\ stage \in DOMAIN merged => base \in DOMAIN from \/ stage \in DOMAIN from
             /\ stage \notin DOMAIN merged /\ Merged(from) # NoValue =>
                  base \in DOMAIN from /\ Merged(from) = from[base]
<1> DEFINE merged == MergeHelmValues(from)
           base   == BaseDirectory \o Values
           stage  == StageDirectory \o Values
           o == ContentOf(from, base)
           s == ContentOf(from, stage)
<1>1. stage \in PathNames /\ base \in PathNames
  BY DirectoriesArePaths, PathsJoin
<1>2. /\ o # NoValue <=> base \in DOMAIN from
      /\ s # NoValue <=> stage \in DOMAIN from
  BY ContentsExist
<1>3. Merged(from) = MergeValues(o, s)
  BY DEF Merged
<1>4. stage \in DOMAIN from => IsUnder(stage, StageDirectory \o Helm)
  <2>1. stage = (StageDirectory \o Helm) \o <<"values.yaml">>
    BY DirectoriesArePaths, ConcatAssociative DEF Values, PathNames
  <2> QED
    BY <2>1, DirectoriesArePaths, PathsJoin
<1>5. /\ base \in DOMAIN from => o = from[base]
      /\ stage \in DOMAIN from => s = from[stage]
  BY DEF ContentOf
<1> HIDE DEF stage, base, o, s
<1>6. /\ Merged(from) # NoValue => o # NoValue \/ s # NoValue
      /\ Merged(from) # NoValue /\ s = NoValue => Merged(from) = o /\ o # NoValue
  BY <1>3, KindsDiffer DEF MergeValues
<1>7. CASE Merged(from) = NoValue \/ \A path \in DOMAIN from : ~IsUnder(path, StageDirectory \o Helm)
  <2>1. merged = from
    BY <1>7 DEF MergeHelmValues
  <2>2. stage \in DOMAIN from => Merged(from) = NoValue
    BY <1>4, <1>7
  <2>3. Merged(from) # NoValue /\ stage \notin DOMAIN from =>
          base \in DOMAIN from /\ Merged(from) = from[base]
    BY <1>2, <1>5, <1>6
  <2> QED
    BY <2>1, <2>2, <2>3 DEF stage, base
<1>8. CASE ~(Merged(from) = NoValue \/ \A path \in DOMAIN from : ~IsUnder(path, StageDirectory \o Helm))
  <2>1. merged = [path \in DOMAIN from \cup {stage} |->
                    IF path = stage THEN Merged(from) ELSE from[path]]
    BY <1>8 DEF MergeHelmValues, stage
  <2>2. IsDirectory(merged)
    BY <2>1, <1>1, <1>8 DEF IsDirectory, PathNames
  <2>3. base \in DOMAIN from \/ stage \in DOMAIN from
    BY <1>2, <1>6, <1>8
  <2> HIDE DEF merged
  <2>4. /\ DOMAIN merged = DOMAIN from \cup {stage}
        /\ merged[stage] = Merged(from)
        /\ \A path \in DOMAIN from \ {stage} : merged[path] = from[path]
    BY <2>1
  <2> QED
    BY <2>2, <2>3, <2>4, <1>8 DEF merged, stage, base
<1> QED
  BY <1>7, <1>8

\* What a promotion of merged makes of to.
IsUpdated(merged, to, after) ==
  LET b == FilesUnder(merged, BaseDirectory)
      s == FilesUnder(merged, StageDirectory)
      rest == {p \in DOMAIN to : ~IsUnder(p, <<Service>>)}
  IN  /\ DOMAIN after = rest \cup Arrived(merged, BaseDirectory)
                             \cup Arrived(merged, StageDirectory)
      /\ \A f \in s : after[<<Service>> \o f] = merged[StageDirectory \o f]
      /\ \A f \in b \ s : after[<<Service>> \o f] = merged[BaseDirectory \o f]
      /\ \A path \in rest : after[path] = to[path]

\* The directory of the service holds what was moved there.
LEMMA UpdatedFiles ==
  ASSUME NamesAreApart, NEW merged, HasPaths(merged), NEW to
  PROVE  IsUpdated(merged, to, PerformFileMove(merged, RemoveService(to)))
<1> DEFINE b == FilesUnder(merged, BaseDirectory)
           s == FilesUnder(merged, StageDirectory)
           rest  == {p \in DOMAIN to : ~IsUnder(p, <<Service>>)}
           clean == RemoveService(to)
           half  == MoveFiles(merged, BaseDirectory, clean)
           after == MoveFiles(merged, StageDirectory, half)
           inBase  == Arrived(merged, BaseDirectory)
           inStage == Arrived(merged, StageDirectory)
<1>0. /\ BaseDirectory \in {BaseDirectory, StageDirectory}
      /\ StageDirectory \in {BaseDirectory, StageDirectory}
  OBVIOUS
<1>1. DOMAIN clean = rest /\ \A path \in rest : clean[path] = to[path]
  BY DEF RemoveService
<1> HIDE DEF clean
<1>2. /\ DOMAIN half = rest \cup inBase
      /\ \A f \in b : half[<<Service>> \o f] = merged[BaseDirectory \o f]
      /\ \A path \in rest \ inBase : half[path] = to[path]
  <2>1. AreMoved(merged, BaseDirectory, clean, half)
    BY <1>0, FilesAreMoved
  <2> QED
    BY <1>1, <2>1 DEF AreMoved
<1> HIDE DEF half
<1>3. /\ DOMAIN after = rest \cup inBase \cup inStage
      /\ \A f \in s : after[<<Service>> \o f] = merged[StageDirectory \o f]
      /\ \A path \in (rest \cup inBase) \ inStage : after[path] = half[path]
  <2>1. AreMoved(merged, StageDirectory, half, after)
    BY <1>0, FilesAreMoved
  <2> QED
    BY <1>2, <2>1 DEF AreMoved
<1> HIDE DEF after
<1>4. \A f \in b \cup s : f \in PathNames \ {<<>>} /\ IsUnder(<<Service>> \o f, <<Service>>)
  BY FilesUnderAre, PathsJoin, DirectoriesArePaths
<1>5. ASSUME NEW f \in b \ s
      PROVE  after[<<Service>> \o f] = merged[BaseDirectory \o f]
  <2>1. <<Service>> \o f \in inBase /\ <<Service>> \o f \notin inStage
    BY <1>4, ArrivedAreFiles, DirectoriesArePaths
  <2> QED
    BY <2>1, <1>2, <1>3
<1>6. ASSUME NEW path \in rest PROVE after[path] = to[path]
  <2>1. path \notin inBase /\ path \notin inStage
    BY <1>4 DEF Arrived
  <2> QED
    BY <2>1, <1>2, <1>3
<1>7. PerformFileMove(merged, RemoveService(to)) = after
  BY DEF PerformFileMove, after, half, clean
<1> QED
  BY <1>3, <1>5, <1>6, <1>7 DEF IsUpdated

\* UpdateFiles: a promotion commits the files of base and stage, with the merged
\* values, and nothing else of the service; all of the rest stays.
THEOREM PromotionIsComplete == NamesAreApart => AllComplete
<1> SUFFICES ASSUME NamesAreApart, NEW from \in Clones, NEW to \in Targets
             PROVE  Completes(from, to)
  BY DEF AllComplete
<1> DEFINE merged == MergeHelmValues(from)
           after  == UpdateFiles(from, to)
           bv == BaseDirectory \o Values
           sv == StageDirectory \o Values
           b  == FilesUnder(from, BaseDirectory)
           s  == FilesUnder(from, StageDirectory)
           mb == FilesUnder(merged, BaseDirectory)
           ms == FilesUnder(merged, StageDirectory)
           rest == {p \in DOMAIN to : ~IsUnder(p, <<Service>>)}
           inBase  == Arrived(merged, BaseDirectory)
           inStage == Arrived(merged, StageDirectory)
<1>1. IsDirectory(from) /\ IsDirectory(to)
      /\ HasPaths(from) /\ HasPaths(to)
  BY FilesAssumption DEF IsDirectory, PathNames, HasPaths
<1>2. /\ HasPaths(merged)
      /\ DOMAIN merged \subseteq DOMAIN from \cup {sv}
      /\ DOMAIN from \subseteq DOMAIN merged
      /\ \A path \in DOMAIN from \ {sv} : merged[path] = from[path]
      /\ Merged(from) = NoValue => merged = from
      /\ sv \in DOMAIN merged /\ Merged(from) # NoValue => merged[sv] = Merged(from)
      /\ sv \in DOMAIN merged => bv \in DOMAIN from \/ sv \in DOMAIN from
      /\ sv \notin DOMAIN merged /\ Merged(from) # NoValue =>
           bv \in DOMAIN from /\ Merged(from) = from[bv]
  BY <1>1, ValuesAreMerged DEF IsDirectory, PathNames, HasPaths
<1>3. /\ \A f : f \in b <=> f \in PathNames \ {<<>>} /\ BaseDirectory \o f \in DOMAIN from
      /\ \A f : f \in s <=> f \in PathNames \ {<<>>} /\ StageDirectory \o f \in DOMAIN from
      /\ \A f : f \in mb <=> f \in PathNames \ {<<>>} /\ BaseDirectory \o f \in DOMAIN merged
      /\ \A f : f \in ms <=> f \in PathNames \ {<<>>} /\ StageDirectory \o f \in DOMAIN merged
  BY <1>1, <1>2, FilesUnderAre, DirectoriesArePaths
<1>4. /\ DOMAIN after = rest \cup inBase \cup inStage
      /\ \A f \in ms : after[<<Service>> \o f] = merged[StageDirectory \o f]
      /\ \A f \in mb \ ms : after[<<Service>> \o f] = merged[BaseDirectory \o f]
      /\ \A path \in rest : after[path] = to[path]
  <2>1. after = PerformFileMove(merged, RemoveService(to))
    BY DEF UpdateFiles
  <2>2. IsUpdated(merged, to, after)
    BY <2>1, <1>2, UpdatedFiles
  <2> QED
    BY <2>2 DEF IsUpdated
<1>5. Values \in PathNames \ {<<>>}
  BY DirectoriesArePaths
<1>6. \A f \in PathNames : BaseDirectory \o f # sv
  BY <1>5, BaseIsNotStage
<1>7. \A f \in PathNames : StageDirectory \o f = sv => f = Values
  BY <1>5, PathsCancel, DirectoriesArePaths
<1> HIDE DEF merged, after, b, s, mb, ms
<1>8. mb = b
  BY <1>2, <1>3, <1>6
<1>9. s \subseteq ms /\ ms \subseteq s \cup {Values} /\ (Values \in ms => Values \in b \cup s)
  BY <1>2, <1>3, <1>5, <1>7
<1>10. mb \cup ms = b \cup s
  BY <1>8, <1>9
<1>11. \A f \in mb \cup ms : f \in PathNames \ {<<>>} /\ IsUnder(<<Service>> \o f, <<Service>>)
  BY <1>3, PathsJoin, DirectoriesArePaths
<1>12. ASSUME NEW path \in DOMAIN after \cup DOMAIN to, ~IsUnder(path, <<Service>>)
       PROVE  ContentOf(after, path) = ContentOf(to, path)
  <2>1. path \notin inBase \cup inStage
    BY <1>11, <1>12 DEF Arrived, mb, ms
  <2>2. path \in DOMAIN after <=> path \in DOMAIN to
    BY <2>1, <1>4, <1>12
  <2>3. after[path] = to[path]
    BY <2>1, <1>4, <1>12
  <2> QED
    BY <2>2, <2>3 DEF ContentOf
<1>13. FilesUnder(after, <<Service>>) = b \cup s
  <2>1. HasPaths(after)
    <3>1. inBase \cup inStage \subseteq PathNames
      <4>1. \A path \in inBase \cup inStage : \E f \in mb \cup ms : path = <<Service>> \o f
        BY DEF Arrived, mb, ms
      <4>2. \A f \in mb \cup ms : <<Service>> \o f \in PathNames
        BY <1>11, PathsJoin, DirectoriesArePaths
      <4> QED
        BY <4>1, <4>2
    <3> QED
      BY <3>1, <1>1, <1>4 DEF HasPaths
  <2>2. ASSUME NEW f \in PathNames \ {<<>>}
        PROVE  <<Service>> \o f \in DOMAIN after <=> f \in mb \cup ms
    <3>1. <<Service>> \o f \notin rest
      BY PathsJoin, DirectoriesArePaths
    <3>2. <<Service>> \o f \in inBase <=> f \in mb
      BY <1>2, ArrivedAreFiles, DirectoriesArePaths DEF mb
    <3>3. <<Service>> \o f \in inStage <=> f \in ms
      BY <1>2, ArrivedAreFiles, DirectoriesArePaths DEF ms
    <3> QED
      BY <3>1, <3>2, <3>3, <1>4
  <2>3. \A f : f \in FilesUnder(after, <<Service>>) <=> f \in mb \cup ms
    BY <2>1, <2>2, <1>11, FilesUnderAre, DirectoriesArePaths
  <2>4. \A f : f \in FilesUnder(after, <<Service>>) <=> f \in b \cup s
    BY <2>3, <1>10
  <2>5. \A f \in FilesUnder(after, <<Service>>) : f \in b \cup s
    BY <2>4
  <2> QED
    BY <2>4, <2>5
<1>14. ASSUME NEW f \in b \cup s
       PROVE  ContentOf(after, <<Service>> \o f) = Committed(from, f)
  <2>1. f \in PathNames /\ <<Service>> \o f \in DOMAIN after
    <3>1. f \in mb \cup ms
      BY <1>10
    <3> QED
      BY <3>1, <1>4, <1>11 DEF Arrived, mb, ms
  <2>2. ContentOf(after, <<Service>> \o f) = after[<<Service>> \o f]
    BY <2>1 DEF ContentOf
  <2>3. /\ StageDirectory \o f \in DOMAIN from <=> f \in s
        /\ f \in b => BaseDirectory \o f \in DOMAIN from
        /\ f \in ms => StageDirectory \o f \in DOMAIN merged
    BY <2>1, <1>3, <1>14
  <2>4. Committed(from, f) =
          IF f = Values /\ Merged(from) # NoValue THEN Merged(from)
          ELSE IF f \in s THEN from[StageDirectory \o f]
          ELSE from[BaseDirectory \o f]
    <3>1. /\ f \in s => /\ ContentOf(from, StageDirectory \o f) # NoValue
                      /\ ContentOf(from, StageDirectory \o f) = from[StageDirectory \o f]
          /\ f \notin s => /\ ContentOf(from, StageDirectory \o f) = NoValue
                         /\ ContentOf(from, BaseDirectory \o f) = from[BaseDirectory \o f]
      BY <2>3, <1>1, <1>14, ContentsExist DEF ContentOf
    <3> QED
      BY <3>1 DEF Committed
  <2>5. CASE f \in ms
    <3>1. after[<<Service>> \o f] = merged[StageDirectory \o f]
      BY <2>5, <1>4
    <3>2. CASE f = Values /\ Merged(from) # NoValue
      BY <3>1, <3>2, <2>2, <2>3, <2>4, <2>5, <1>2
    <3>3. CASE f = Values /\ Merged(from) = NoValue
      <4>1. f \in s
        BY <3>3, <2>1, <2>3, <2>5, <1>2
      <4> QED
        BY <4>1, <3>1, <3>3, <2>2, <2>4, <1>2
    <3>4. CASE f # Values
      <4>1. f \in s /\ StageDirectory \o f # sv
        BY <3>4, <2>1, <2>5, <1>7, <1>9
      <4> QED
        BY <4>1, <3>1, <3>4, <2>2, <2>3, <2>4, <1>2
    <3> QED
      BY <3>2, <3>3, <3>4
  <2>6. CASE f \notin ms
    <3>1. f \in mb \ ms /\ f \notin s /\ f \in b
      BY <2>6, <1>8, <1>9
    <3>2. after[<<Service>> \o f] = merged[BaseDirectory \o f]
      BY <3>1, <1>4
    <3>3. merged[BaseDirectory \o f] = from[BaseDirectory \o f]
      BY <3>1, <2>1, <2>3, <1>2, <1>6
    <3>4. f = Values /\ Merged(from) # NoValue => Merged(from) = from[BaseDirectory \o f]
      BY <2>6, <1>2, <1>3, <1>5
    <3> QED
      BY <3>1, <3>2, <3>3, <3>4, <2>2, <2>4
  <2> QED
    BY <2>5, <2>6
<1> QED
  BY <1>12, <1>13, <1>14 DEF Completes, after, b, s
=============================================================================
