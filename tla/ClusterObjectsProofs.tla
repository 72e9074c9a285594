------------------------ MODULE ClusterObjectsProofs ------------------------
(***************************************************************************)
(* Lemmas about ClusterObjects: what a write, an informer and a restart do *)
(* to the versions of an object, and what a disturbance adds.              *)
(***************************************************************************)
EXTENDS ClusterObjects, FiniteSetTheorems, TLAPS

\* An object has a cached and a stored version, the same if it is in sync.
LEMMA EndFacts ==
  ASSUME NEW S, NEW s \in Seq(S), s # <<>>
  PROVE  /\ Len(s) \in Nat \ {0}
         /\ Cached(s) = s[1] /\ Cached(s) \in S
         /\ Stored(s) = s[Len(s)] /\ Stored(s) \in S
         /\ InSync(s) => Stored(s) = Cached(s)
BY DEF Cached, Stored, InSync

\* A write makes the new version the stored one.
LEMMA PushFacts ==
  ASSUME NEW S, NEW s \in Seq(S), s # <<>>, NEW x \in S
  PROVE  /\ Push(s, x) \in Seq(S) \ {<<>>}
         /\ Stored(Push(s, x)) = x
<1>1. CASE x = Stored(s)
  BY <1>1 DEF Push
<1>2. CASE x # Stored(s) /\ Len(s) <= Lag
  BY <1>2 DEF Push, Stored
<1>3. CASE x # Stored(s) /\ ~(Len(s) <= Lag)
  <2> DEFINE t == Tail(s)
  <2>1. Push(s, x) = Append(t, x)
    BY <1>3 DEF Push
  <2>2. t \in Seq(S)
    OBVIOUS
  <2> HIDE DEF t
  <2> QED
    BY <2>1, <2>2 DEF Stored
<1> QED
  BY <1>1, <1>2, <1>3

\* After a write an object has the new version and some that were there.
LEMMA PushElements ==
  ASSUME NEW S, NEW s \in Seq(S), s # <<>>, NEW x \in S,
         NEW t, t = Push(s, x), NEW i \in 1..Len(t)
  PROVE  t[i] = x \/ \E j \in 1..Len(s) : t[i] = s[j]
<1>1. CASE x = Stored(s)
  BY <1>1 DEF Push
<1>2. CASE x # Stored(s) /\ Len(s) <= Lag
  <2>1. t = Append(s, x)
    BY <1>2 DEF Push
  <2> QED
    BY <2>1
<1>3. CASE x # Stored(s) /\ ~(Len(s) <= Lag)
  <2> DEFINE u == Tail(s)
  <2>1. t = Append(u, x)
    BY <1>3 DEF Push
  <2>2. u \in Seq(S) /\ \A k \in 1..Len(u) : k + 1 \in 1..Len(s) /\ u[k] = s[k + 1]
    OBVIOUS
  <2> HIDE DEF u
  <2>3. i \in 1..Len(u) \/ t[i] = x
    BY <2>1, <2>2
  <2>4. i \in 1..Len(u) => t[i] = u[i]
    BY <2>1, <2>2
  <2> QED
    BY <2>2, <2>3, <2>4
<1> QED
  BY <1>1, <1>2, <1>3

\* It comes last, and those that were there stay in place or move down by one.
LEMMA PushIndices ==
  ASSUME NEW S, NEW s \in Seq(S), s # <<>>, NEW x \in S, NEW t, t = Push(s, x)
  PROVE  /\ Len(t) \in Nat \ {0} /\ t[Len(t)] = x
         /\ \E k \in {0, 1} : \A i \in 1..Len(t) :
              i < Len(t) => i + k \in 1..Len(s) /\ t[i] = s[i + k]
<1>1. CASE x = Stored(s)
  <2>1. t = s
    BY <1>1 DEF Push
  <2>2. \A i \in 1..Len(t) : i < Len(t) => i + 0 \in 1..Len(s) /\ t[i] = s[i + 0]
    BY <2>1
  <2> QED
    BY <1>1, <2>1, <2>2, EndFacts
<1>2. CASE x # Stored(s) /\ Len(s) <= Lag
  <2>1. t = Append(s, x)
    BY <1>2 DEF Push
  <2>2. \A i \in 1..Len(t) : i < Len(t) => i + 0 \in 1..Len(s) /\ t[i] = s[i + 0]
    BY <2>1
  <2>3. Len(t) \in Nat \ {0} /\ t[Len(t)] = x
    BY <2>1
  <2> QED
    BY <2>2, <2>3
<1>3. CASE x # Stored(s) /\ ~(Len(s) <= Lag)
  <2> DEFINE u == Tail(s)
  <2>1. t = Append(u, x)
    BY <1>3 DEF Push
  <2>2. u \in Seq(S) /\ \A k \in 1..Len(u) : k + 1 \in 1..Len(s) /\ u[k] = s[k + 1]
    OBVIOUS
  <2> HIDE DEF u
  <2>3. Len(t) \in Nat \ {0} /\ t[Len(t)] = x /\ Len(t) = Len(u) + 1
    BY <2>1, <2>2
  <2>4. \A i \in 1..Len(u) : t[i] = u[i]
    BY <2>1, <2>2
  <2>5. \A i \in 1..Len(t) : i < Len(t) => i + 1 \in 1..Len(s) /\ t[i] = s[i + 1]
    BY <2>2, <2>3, <2>4
  <2> QED
    BY <2>3, <2>5
<1> QED
  BY <1>1, <1>2, <1>3

\* The cache takes in a version: the stored one stays, no version is new.
LEMMA TailFacts ==
  ASSUME NEW S, NEW s \in Seq(S), s # <<>>, Len(s) # 1
  PROVE  /\ Tail(s) \in Seq(S) \ {<<>>}
         /\ Stored(Tail(s)) = Stored(s)
         /\ \A i \in 1..Len(Tail(s)) : \E j \in 1..Len(s) : Tail(s)[i] = s[j]
<1>1. Len(s) \in Nat /\ Len(s) > 1
  <2>1. Len(s) \in Nat /\ Len(s) # 0
    OBVIOUS
  <2>2. \A n \in Nat : n # 0 /\ n # 1 => n > 1
    OBVIOUS
  <2> QED
    BY <2>1, <2>2, Zenon
<1>2. Tail(s) \in Seq(S) /\ Len(Tail(s)) = Len(s) - 1
  BY <1>1
<1>3. \A i \in 1..Len(Tail(s)) : i + 1 \in 1..Len(s) /\ Tail(s)[i] = s[i + 1]
  BY <1>1, <1>2
<1>4. Stored(Tail(s)) = Stored(s)
  BY <1>1, <1>2, <1>3 DEF Stored
<1>5. Tail(s) # <<>>
  <2>1. Len(Tail(s)) # 0
    BY <1>1, <1>2
  <2>2. Len(<<>>) = 0
    OBVIOUS
  <2> QED
    BY <2>1, <2>2
<1>6. \A i \in 1..Len(Tail(s)) : \E j \in 1..Len(s) : Tail(s)[i] = s[j]
  BY <1>3
<1> QED
  BY <1>2, <1>4, <1>5, <1>6

\* After a restart the cache holds the stored version and nothing else.
LEMMA RelistFacts ==
  ASSUME NEW S, NEW s \in Seq(S), s # <<>>
  PROVE  /\ <<Stored(s)>> \in Seq(S) \ {<<>>}
         /\ Stored(<<Stored(s)>>) = Stored(s)
         /\ Len(<<Stored(s)>>) = 1 /\ <<Stored(s)>>[1] = s[Len(s)]
         /\ Len(s) \in 1..Len(s)
BY EndFacts DEF Stored

\* A disturbance adds one of its kind to those that have happened.
LEMMA DisturbAdds ==
  ASSUME NEW kind, Disturb(kind)
  PROVE  \E d \in Disturbances \ disturbed :
           d[1] = kind /\ disturbed' = disturbed \cup {d}
BY DEF Disturb

LEMMA HappenedGrows == disturbed \subseteq disturbed' => Happened \subseteq Happened'
BY DEF Happened
=============================================================================
