-------------------- MODULE KeptnServiceDeploymentProofs --------------------
(***************************************************************************)
(* Proofs about KeptnServiceDeployment, for every number of deployments,   *)
(* stages, generations and faults and every lag of the caches: the type    *)
(* invariant, the invariants on what contexts and caches record, the       *)
(* refinement of DeploymentTrigger, and, where the caches are fresh and    *)
(* nothing fails, one trace for each version and one event for each        *)
(* generation.                                                             *)
(***************************************************************************)
EXTENDS KeptnServiceDeployment, TLAPS

-----------------------------------------------------------------------------
(* Version sequences. *)

\* Pushing a version keeps a sequence of versions nonempty and well typed,
\* makes the new version the stored one, and keeps the order of the others:
\* they stay where they are (k = 0) or move down by one (k = 1).
LEMMA PushFacts ==
  ASSUME NEW S, NEW s \in Seq(S), s # <<>>, NEW x \in S
  PROVE  /\ Push(s, x) \in Seq(S)
         /\ Len(Push(s, x)) > 0
         /\ Push(s, x) # <<>>
         /\ Stored(Push(s, x)) = x
         /\ \E k \in {0, 1} :
              /\ Len(Push(s, x)) + k = Len(s) + 1
              /\ \A i \in 1..(Len(Push(s, x)) - 1) : Push(s, x)[i] = s[i + k]
<1>1. CASE Len(s) <= MaxLag
  <2>1. Push(s, x) = Append(s, x)
    BY <1>1 DEF Push
  <2> QED
    BY <2>1 DEF Stored
<1>2. CASE ~(Len(s) <= MaxLag)
  <2>1. Push(s, x) = Append(Tail(s), x)
    BY <1>2 DEF Push
  <2>2. Tail(s) \in Seq(S) /\ Len(Tail(s)) = Len(s) - 1
    OBVIOUS
  <2>3. \A i \in 1..Len(Tail(s)) : Tail(s)[i] = s[i + 1]
    OBVIOUS
  <2> QED
    BY <2>1, <2>2, <2>3 DEF Stored
<1> QED
  BY <1>1, <1>2

\* The cached and the stored version of an object are among its versions.
LEMMA EndFacts ==
  ASSUME NEW S, NEW s \in Seq(S), s # <<>>
  PROVE  /\ Len(s) \in Nat /\ Len(s) > 0
         /\ Cached(s) = s[1] /\ Cached(s) \in S
         /\ Stored(s) \in S
         /\ InSync(s) => Stored(s) = Cached(s)
BY DEF Cached, Stored, InSync

\* The versions after a push are the pushed one and some that were there.
LEMMA PushElements ==
  ASSUME NEW S, NEW s \in Seq(S), s # <<>>, NEW x \in S, NEW t, t = Push(s, x)
  PROVE  \A i \in 1..Len(t) : t[i] = x \/ \E j \in 1..Len(s) : t[i] = s[j]
<1>0. /\ Push(s, x) \in Seq(S)
      /\ Len(Push(s, x)) > 0
      /\ Push(s, x) # <<>>
      /\ Stored(Push(s, x)) = x
      /\ \E k \in {0, 1} :
           /\ Len(Push(s, x)) + k = Len(s) + 1
           /\ \A i \in 1..(Len(Push(s, x)) - 1) : Push(s, x)[i] = s[i + k]
  BY PushFacts, Zenon
<1>1. PICK k \in {0, 1} :
        /\ Len(t) + k = Len(s) + 1
        /\ \A i \in 1..(Len(t) - 1) : t[i] = s[i + k]
  BY <1>0, Zenon
<1>2. t \in Seq(S) /\ t[Len(t)] = x
  BY <1>0, Zenon DEF Stored
<1>3. ASSUME NEW i \in 1..Len(t), i # Len(t)
      PROVE  \E j \in 1..Len(s) : t[i] = s[j]
  <2>1. i \in 1..(Len(t) - 1) /\ i + k \in 1..Len(s)
    BY <1>1, <1>2, <1>3
  <2> QED
    BY <1>1, <2>1
<1> QED
  BY <1>2, <1>3

\* When the cache takes in a version, the later versions move down by one and
\* the stored one stays.
LEMMA TailFacts ==
  ASSUME NEW S, NEW s \in Seq(S), Len(s) > 1
  PROVE  /\ Tail(s) \in Seq(S) /\ Tail(s) # <<>>
         /\ Len(Tail(s)) = Len(s) - 1
         /\ \A i \in 1..Len(Tail(s)) : Tail(s)[i] = s[i + 1]
         /\ Stored(Tail(s)) = Stored(s)
<1>1. Tail(s) \in Seq(S) /\ Len(Tail(s)) = Len(s) - 1
  OBVIOUS
<1>2. \A i \in 1..Len(Tail(s)) : Tail(s)[i] = s[i + 1]
  OBVIOUS
<1> QED
  BY <1>1, <1>2 DEF Stored

\* After a restart the cache holds the stored version and nothing else.
LEMMA RelistFacts ==
  ASSUME NEW S, NEW s \in Seq(S), s # <<>>
  PROVE  /\ <<Stored(s)>> \in Seq(S) /\ <<Stored(s)>> # <<>>
         /\ Len(<<Stored(s)>>) = 1
         /\ <<Stored(s)>>[1] = Stored(s)
         /\ Stored(<<Stored(s)>>) = Stored(s)
BY EndFacts DEF Stored

\* Taking in a version or listing again adds none.
LEMMA TailElements ==
  ASSUME NEW S, NEW s \in Seq(S), NEW t, Len(s) > 1, t = Tail(s)
  PROVE  \A i \in 1..Len(t) : \E j \in 1..Len(s) : t[i] = s[j]
<1>1. \A i \in 1..Len(t) : i + 1 \in 1..Len(s) /\ t[i] = s[i + 1]
  BY TailFacts
<1> QED
  BY <1>1

-----------------------------------------------------------------------------
(* Types. *)

\* Specifications, versions and stages of generations are what they are
\* called.
LEMMA PlanFacts ==
  ASSUME NEW d \in Deployments
  PROVE  /\ Len(Plan[d]) \in Nat /\ 1 \in Generations(d)
         /\ StageOf[d] \in Stages
         /\ \A g \in Generations(d) :
              Plan[d][g] \in Specs /\ Plan[d][g].version \in Versions
<1>1. Plan[d] \in Seq(Specs) /\ Plan[d] # <<>>
  BY DeploymentAssumption
<1>2. Len(Plan[d]) \in Nat /\ Len(Plan[d]) > 0
  BY <1>1
<1>3. \A g \in Generations(d) : Plan[d][g] \in Specs
  BY <1>1 DEF Generations
<1>4. \A g \in Generations(d) : Plan[d][g].version \in Versions
  BY <1>3 DEF Versions
<1>5. StageOf[d] \in Stages
  BY DEF Stages
<1> QED
  BY <1>2, <1>3, <1>4, <1>5 DEF Generations

\* The objects a controller first sees are well typed.
LEMMA InitialObjects ==
  /\ \A d \in Deployments : NewKsd \in KsdObjects(d)
  /\ NoContext \in ContextObjects
  /\ NewContext \in ContextObjects
<1>1. \A d \in Deployments : NewKsd \in KsdObjects(d)
  BY PlanFacts DEF NewKsd, KsdObjects
<1>2. NoContext \in ContextObjects
  BY DeploymentAssumption DEF NoContext, ContextObjects, Contexts
<1>3. NewContext \in ContextObjects
  BY DeploymentAssumption DEF NewContext, NoContext, ContextObjects, Contexts
<1> QED
  BY <1>1, <1>2, <1>3

\* The cached objects of a well-typed state are well typed.
LEMMA CachedTypes ==
  ASSUME TypeOK, NEW d \in Deployments
  PROVE  /\ Cached(ksd[d]) \in KsdObjects(d)
         /\ Stored(ksd[d]) \in KsdObjects(d)
         /\ Cached(ksd[d]).gen \in Generations(d)
         /\ SpecOf(d) \in Specs
         /\ VersionOf(d) \in Versions
         /\ Cached(ctx[VersionOf(d)]) \in ContextObjects
<1>1. Cached(ksd[d]) \in KsdObjects(d) /\ Stored(ksd[d]) \in KsdObjects(d)
  BY EndFacts DEF TypeOK
<1>2. Cached(ksd[d]).gen \in Generations(d)
  BY <1>1 DEF KsdObjects
<1>3. SpecOf(d) \in Specs /\ VersionOf(d) \in Versions
  BY <1>2, PlanFacts DEF SpecOf, VersionOf
<1>4. Cached(ctx[VersionOf(d)]) \in ContextObjects
  BY <1>3, EndFacts DEF TypeOK
<1> QED
  BY <1>1, <1>2, <1>3, <1>4

\* Changing one deployment object by pushing a well-typed version keeps the
\* types of all of them.
LEMMA PushKsdType ==
  ASSUME TypeOK, NEW d \in Deployments, NEW object \in KsdObjects(d),
         ksd' = [ksd EXCEPT ![d] = Push(@, object)]
  PROVE  /\ DOMAIN ksd' = Deployments
         /\ \A e \in Deployments : ksd'[e] \in Seq(KsdObjects(e)) /\ ksd'[e] # <<>>
BY PushFacts DEF TypeOK

\* Likewise for a context.
LEMMA PushContextType ==
  ASSUME TypeOK, NEW v \in Versions, NEW object \in ContextObjects,
         ctx' = [ctx EXCEPT ![v] = Push(@, object)]
  PROVE  ctx' \in [Versions -> Seq(ContextObjects) \ {<<>>}]
<1>1. Push(ctx[v], object) \in Seq(ContextObjects) \ {<<>>}
  BY PushFacts DEF TypeOK
<1> QED
  BY <1>1 DEF TypeOK

\* Marking the worker's copies outdated keeps the worker well typed.
LEMMA TouchTypes ==
  ASSUME TypeOK
  PROVE  /\ \A d \in Deployments : TouchKsd(d) \in Jobs \cup {Idle}
         /\ \A v \in Versions : TouchContext(v) \in Jobs \cup {Idle}
<1> DEFINE JobsOf(d) == [pc : {"context", "status"}, d : {d}, gen : Generations(d),
                         copy : KsdObjects(d), copyFresh : BOOLEAN,
                         view : ContextObjects, viewFresh : BOOLEAN, kc : Contexts]
<1>1. CASE Busy
  <2>1. PICK d \in Deployments : job \in JobsOf(d)
    BY <1>1 DEF TypeOK, Jobs, Busy
  <2>2. [job EXCEPT !.copyFresh = FALSE] \in JobsOf(d)
    BY <2>1
  <2>3. [job EXCEPT !.viewFresh = FALSE] \in JobsOf(d)
    BY <2>1
  <2>4. JobsOf(d) \subseteq Jobs
    BY DEF Jobs
  <2> QED
    BY <2>2, <2>3, <2>4 DEF TypeOK, TouchKsd, TouchContext
<1>2. CASE ~Busy
  BY <1>2 DEF TypeOK, TouchKsd, TouchContext
<1> QED
  BY <1>1, <1>2

\* Accepting an event keeps the history well typed.
LEMMA AcceptTypes ==
  ASSUME TypeOK, NEW d \in Deployments, NEW kc \in Contexts, Accept(d, kc)
  PROVE  /\ minted' \in Contexts
         /\ events' \subseteq Events
         /\ DOMAIN last' = Deployments
         /\ \A e \in Deployments : last'[e] \in {0} \cup Generations(e)
<1>1. Cached(ksd[d]).gen \in Generations(d)
  BY CachedTypes
<1>2. [d |-> d, gen |-> Cached(ksd[d]).gen, kc |-> kc] \in Events
  BY <1>1 DEF Events
<1> QED
  BY <1>1, <1>2 DEF TypeOK, Accept

\* mintKeptnContext yields a context.
LEMMA MintType ==
  ASSUME TypeOK, NEW kc \in Contexts
  PROVE  Mint(kc) \in Contexts
BY DeploymentAssumption DEF TypeOK, Mint, Contexts

\* A busy worker's fields have their types.
LEMMA JobTypes ==
  ASSUME TypeOK, Busy
  PROVE  /\ job \in Jobs
         /\ job.pc \in {"context", "status"}
         /\ job.d \in Deployments
         /\ job.gen \in Generations(job.d)
         /\ job.copy \in KsdObjects(job.d)
         /\ job.copyFresh \in BOOLEAN
         /\ job.view \in ContextObjects
         /\ job.viewFresh \in BOOLEAN
         /\ job.kc \in Contexts
         /\ Plan[job.d][job.gen] \in Specs
         /\ Plan[job.d][job.gen].version \in Versions
         /\ StageOf[job.d] \in Stages
<1>1. PICK d \in Deployments :
        job \in [pc : {"context", "status"}, d : {d}, gen : Generations(d),
                copy : KsdObjects(d), copyFresh : BOOLEAN,
                view : ContextObjects, viewFresh : BOOLEAN, kc : Contexts]
  BY DEF TypeOK, Jobs, Busy
<1>2. job.d = d
  BY <1>1
<1> QED
  BY <1>1, <1>2, PlanFacts DEF TypeOK, Busy

\* What a worker waits for says that it is busy.
LEMMA BusyPc ==
  /\ job.pc = "context" => Busy
  /\ job.pc = "status" => Busy
BY DEF Busy, Idle

\* The two objects the worker writes are well typed.
LEMMA WrittenTypes ==
  ASSUME TypeOK, Busy
  PROVE  /\ [job.view EXCEPT !.hash[StageOf[job.d]] = Plan[job.d][job.gen],
                             !.kc = job.kc] \in ContextObjects
         /\ [job.copy EXCEPT !.updatePending = FALSE, !.applied = job.gen]
              \in KsdObjects(job.d)
         /\ [job EXCEPT !.pc = "status"] \in Jobs
<1>1. [job.view EXCEPT !.hash[StageOf[job.d]] = Plan[job.d][job.gen],
                       !.kc = job.kc] \in ContextObjects
  <2> DEFINE hash == [job.view.hash EXCEPT ![StageOf[job.d]] = Plan[job.d][job.gen]]
  <2>1. hash \in [Stages -> Specs \cup {NoHash}]
    BY JobTypes DEF ContextObjects
  <2>2. [job.view EXCEPT !.hash = hash, !.kc = job.kc] \in ContextObjects
    BY <2>1, JobTypes DEF ContextObjects
  <2> QED
    BY <2>2
<1>2. [job.copy EXCEPT !.updatePending = FALSE, !.applied = job.gen]
        \in KsdObjects(job.d)
  BY JobTypes DEF KsdObjects
<1>3. [job EXCEPT !.pc = "status"] \in Jobs
  <2>1. PICK d \in Deployments :
          job \in [pc : {"context", "status"}, d : {d}, gen : Generations(d),
                  copy : KsdObjects(d), copyFresh : BOOLEAN,
                  view : ContextObjects, viewFresh : BOOLEAN, kc : Contexts]
    BY DEF TypeOK, Jobs, Busy
  <2> QED
    BY <2>1 DEF Jobs
<1> QED
  BY <1>1, <1>2, <1>3

\* The views a trigger may start from are well typed.
LEMMA ViewTypes ==
  ASSUME TypeOK, NEW d \in Deployments, NEW view \in Views(d)
  PROVE  view.object \in ContextObjects /\ view.fresh \in BOOLEAN
         /\ view.object.kc \in Contexts
<1> DEFINE versions == ctx[VersionOf(d)]
<1>1. CASE view = [object |-> Cached(versions), fresh |-> InSync(versions),
                   failed |-> FALSE]
  <2>1. view.object = Cached(versions) /\ view.fresh = InSync(versions)
    BY <1>1
  <2>2. InSync(versions) \in BOOLEAN
    BY DEF InSync
  <2>3. Cached(versions).kc \in Contexts
    BY CachedTypes DEF ContextObjects
  <2> QED
    BY <2>1, <2>2, <2>3, CachedTypes
<1>2. CASE view = [object |-> NoContext, fresh |-> FALSE, failed |-> TRUE]
  <2>1. view.object = NoContext /\ view.fresh = FALSE
    BY <1>2
  <2>2. NoContext.kc \in Contexts
    BY InitialObjects DEF ContextObjects
  <2> QED
    BY <2>1, <2>2, InitialObjects
<1> QED
  BY <1>1, <1>2 DEF Views

\* A write to a deployment object before the decision keeps the types.
LEMMA WriteKsdType ==
  ASSUME TypeOK, NEW d \in Deployments, NEW object \in KsdObjects(d),
         WriteKsd(d, object)
  PROVE  TypeOK'
<1>1. /\ DOMAIN ksd' = Deployments
      /\ \A e \in Deployments : ksd'[e] \in Seq(KsdObjects(e)) /\ ksd'[e] # <<>>
  BY PushKsdType DEF WriteKsd
<1> QED
  BY <1>1 DEF TypeOK, WriteKsd, environment, history

\* The reconciliations of one deployment keep the types.
LEMMA ReconcileType ==
  ASSUME TypeOK, NEW d \in Deployments, Reconcile(d)
  PROVE  TypeOK'
<1> USE CachedTypes
<1>1. CASE ProjectMissing(d)
  <2>1. [Cached(ksd[d]) EXCEPT !.projectExists = FALSE, !.updatePending = TRUE]
          \in KsdObjects(d)
    BY DEF KsdObjects
  <2> QED
    BY <1>1, <2>1, WriteKsdType DEF ProjectMissing
<1>2. CASE ProjectFound(d)
  <2>1. [Cached(ksd[d]) EXCEPT !.projectExists = TRUE] \in KsdObjects(d)
    BY DEF KsdObjects
  <2> QED
    BY <1>2, <2>1, WriteKsdType DEF ProjectFound
<1>3. CASE ServiceMissing(d)
  <2>1. [Cached(ksd[d]) EXCEPT !.serviceExists = FALSE, !.updatePending = TRUE]
          \in KsdObjects(d)
    BY DEF KsdObjects
  <2> QED
    BY <1>3, <2>1, WriteKsdType DEF ServiceMissing
<1>4. CASE ServiceFound(d)
  <2>1. [Cached(ksd[d]) EXCEPT !.serviceExists = TRUE] \in KsdObjects(d)
    BY DEF KsdObjects
  <2> QED
    BY <1>4, <2>1, WriteKsdType DEF ServiceFound
<1>5. CASE CreateContext(d)
  <2>1. ctx' \in [Versions -> Seq(ContextObjects) \ {<<>>}]
    BY <1>5, InitialObjects, PushContextType DEF CreateContext
  <2> QED
    BY <1>5, <2>1 DEF CreateContext, TypeOK, environment, history
<1>6. CASE Trigger(d)
  <2>1. PICK view \in Views(d) :
          /\ IF view.failed THEN Fault ELSE faults' = faults
          /\ Accept(d, Mint(view.object.kc))
          /\ job' = [pc |-> "context", d |-> d, gen |-> Cached(ksd[d]).gen,
                     copy |-> Cached(ksd[d]), copyFresh |-> InSync(ksd[d]),
                     view |-> view.object, viewFresh |-> view.fresh,
                     kc |-> Mint(view.object.kc)]
    BY <1>6 DEF Trigger
  <2>2. view.object \in ContextObjects /\ view.fresh \in BOOLEAN
        /\ Mint(view.object.kc) \in Contexts
    BY ViewTypes, MintType
  <2>3. job' \in Jobs
    <3>1. InSync(ksd[d]) \in BOOLEAN
      BY DEF InSync
    <3> QED
      BY <2>1, <2>2, <3>1 DEF Jobs
  <2>4. faults' \in 0..MaxFaults
    BY <2>1, DeploymentAssumption DEF Fault, TypeOK
  <2>5. /\ minted' \in Contexts
        /\ events' \subseteq Events
        /\ DOMAIN last' = Deployments
        /\ \A e \in Deployments : last'[e] \in {0} \cup Generations(e)
    BY <2>1, <2>2, AcceptTypes
  <2> QED
    BY <1>6, <2>3, <2>4, <2>5 DEF Trigger, TypeOK, environment
<1> QED
  BY <1>1, <1>2, <1>3, <1>4, <1>5, <1>6 DEF Reconcile

\* Every step keeps the types.
LEMMA TypeStep == TypeOK /\ [Next]_vars => TypeOK'
<1> SUFFICES ASSUME TypeOK, [Next]_vars
             PROVE  TypeOK'
  OBVIOUS
<1>1. ASSUME NEW d \in Deployments, Reconcile(d)
      PROVE  TypeOK'
  BY <1>1, ReconcileType
<1>2. ASSUME NEW d \in Deployments, TriggerAnswerLost(d)
      PROVE  TypeOK'
  <2>1. PICK view \in Views(d) : Accept(d, Mint(view.object.kc))
    BY <1>2 DEF TriggerAnswerLost
  <2>2. /\ minted' \in Contexts
        /\ events' \subseteq Events
        /\ DOMAIN last' = Deployments
        /\ \A e \in Deployments : last'[e] \in {0} \cup Generations(e)
    BY <2>1, ViewTypes, MintType, AcceptTypes
  <2>3. faults' \in 0..MaxFaults
    BY <1>2, DeploymentAssumption DEF TriggerAnswerLost, Fault, TypeOK
  <2> QED
    BY <1>2, <2>2, <2>3 DEF TriggerAnswerLost, TypeOK, environment
<1>3. ASSUME NEW d \in Deployments, SyncKsd(d)
      PROVE  TypeOK'
  <2>1. Tail(ksd[d]) \in Seq(KsdObjects(d)) /\ Tail(ksd[d]) # <<>>
    BY <1>3, TailFacts DEF SyncKsd, TypeOK
  <2> QED
    BY <1>3, <2>1 DEF SyncKsd, TypeOK, environment, history
<1>4. ASSUME NEW d \in Deployments, Edit(d)
      PROVE  TypeOK'
  <2>1. [Stored(ksd[d]) EXCEPT !.gen = @ + 1] \in KsdObjects(d)
    BY <1>4, CachedTypes DEF Edit, KsdObjects
  <2>2. /\ DOMAIN ksd' = Deployments
        /\ \A e \in Deployments : ksd'[e] \in Seq(KsdObjects(e)) /\ ksd'[e] # <<>>
    BY <1>4, <2>1, PushKsdType DEF Edit
  <2> QED
    BY <1>4, <2>2, TouchTypes DEF Edit, TypeOK, environment, history
<1>5. ASSUME NEW v \in Versions, SyncContext(v)
      PROVE  TypeOK'
  <2>1. Tail(ctx[v]) \in Seq(ContextObjects) \ {<<>>}
    BY <1>5, TailFacts DEF SyncContext, TypeOK
  <2> QED
    BY <1>5, <2>1 DEF SyncContext, TypeOK, environment, history
<1>6. ASSUME NEW v \in Versions, CollectContext(v)
      PROVE  TypeOK'
  <2>1. ctx' \in [Versions -> Seq(ContextObjects) \ {<<>>}]
    BY <1>6, InitialObjects, PushContextType DEF CollectContext
  <2> QED
    BY <1>6, <2>1, TouchTypes DEF CollectContext, TypeOK, environment, history
<1>7. CASE WriteContext
  <2>1. Busy
    BY <1>7, BusyPc DEF WriteContext
  <2>2. ctx' \in [Versions -> Seq(ContextObjects) \ {<<>>}]
    <3> DEFINE v == Plan[job.d][job.gen].version
               object == [job.view EXCEPT
                            !.hash[StageOf[job.d]] = Plan[job.d][job.gen],
                            !.kc = job.kc]
    <3>1. v \in Versions /\ object \in ContextObjects
      BY <2>1, JobTypes, WrittenTypes
    <3>2. Push(ctx[v], object) \in Seq(ContextObjects) \ {<<>>}
      <4> HIDE DEF v, object
      <4> QED
        BY <3>1, PushFacts, SMTT(20) DEF TypeOK
    <3>3. \/ ctx' = ctx
          \/ ctx' = [ctx EXCEPT ![v] = IF object = Stored(ctx[v]) THEN ctx[v]
                                       ELSE Push(ctx[v], object)]
      BY <1>7 DEF WriteContext
    <3> HIDE DEF v, object
    <3> QED
      BY <3>1, <3>2, <3>3, Zenon DEF TypeOK
  <2>3. faults' \in 0..MaxFaults
    BY <1>7, DeploymentAssumption DEF WriteContext, Fault, TypeOK
  <2> QED
    BY <1>7, <2>1, <2>2, <2>3, WrittenTypes DEF WriteContext, TypeOK, environment, history
<1>8. CASE WriteStatus
  <2>1. Busy
    BY <1>8, BusyPc DEF WriteStatus
  <2>2. /\ DOMAIN ksd' = Deployments
        /\ \A e \in Deployments : ksd'[e] \in Seq(KsdObjects(e)) /\ ksd'[e] # <<>>
    <3> DEFINE object == [job.copy EXCEPT !.updatePending = FALSE,
                                          !.applied = job.gen]
    <3>1. job.d \in Deployments /\ object \in KsdObjects(job.d)
      BY <2>1, JobTypes, WrittenTypes
    <3>2. /\ Push(ksd[job.d], object) \in Seq(KsdObjects(job.d))
          /\ Push(ksd[job.d], object) # <<>>
      <4> HIDE DEF object
      <4>1. ksd[job.d] \in Seq(KsdObjects(job.d)) /\ ksd[job.d] # <<>>
        BY <3>1 DEF TypeOK
      <4> QED
        BY <3>1, <4>1, PushFacts
    <3>3. \/ ksd' = ksd
          \/ ksd' = [ksd EXCEPT ![job.d] = IF object = Stored(ksd[job.d])
                                             THEN ksd[job.d]
                                             ELSE Push(ksd[job.d], object)]
      BY <1>8 DEF WriteStatus
    <3> HIDE DEF object
    <3> QED
      BY <3>1, <3>2, <3>3 DEF TypeOK
  <2>3. faults' \in 0..MaxFaults
    BY <1>8, DeploymentAssumption DEF WriteStatus, Fault, TypeOK
  <2> QED
    BY <1>8, <2>2, <2>3 DEF WriteStatus, TypeOK, environment, history
<1>9. CASE Crash
  <2>1. \A d \in Deployments :
          <<Stored(ksd[d])>> \in Seq(KsdObjects(d)) /\ <<Stored(ksd[d])>> # <<>>
    BY RelistFacts DEF TypeOK
  <2>2. \A v \in Versions : <<Stored(ctx[v])>> \in Seq(ContextObjects) \ {<<>>}
    BY RelistFacts DEF TypeOK
  <2>3. faults' \in 0..MaxFaults
    BY <1>9, DeploymentAssumption DEF Crash, Fault, TypeOK
  <2> QED
    BY <1>9, <2>1, <2>2, <2>3 DEF Crash, TypeOK, environment, history
<1>10. CASE CreateProject \/ CreateService \/ Recover
  BY <1>10 DEF CreateProject, CreateService, Recover, TypeOK, history
<1>11. CASE DeleteProject \/ DeleteService \/ Outage
  <2>1. faults' \in 0..MaxFaults
    BY <1>11, DeploymentAssumption
       DEF DeleteProject, DeleteService, Outage, Fault, TypeOK
  <2> QED
    BY <1>11, <2>1 DEF DeleteProject, DeleteService, Outage, TypeOK, history
<1>12. CASE UNCHANGED vars
  BY <1>12 DEF vars, TypeOK
<1> QED
  BY <1>1, <1>2, <1>3, <1>4, <1>5, <1>6, <1>7, <1>8, <1>9, <1>10, <1>11, <1>12
     DEF Next

\* The initial states have the types.
LEMMA InitTypes == Init => TypeOK
<1> SUFFICES ASSUME Init
             PROVE  TypeOK
  OBVIOUS
<1>1. ASSUME NEW d \in Deployments
      PROVE  ksd[d] \in Seq(KsdObjects(d)) /\ ksd[d] # <<>>
  <2>1. ksd[d] = <<NewKsd>>
    BY DEF Init
  <2>2. NewKsd \in KsdObjects(d)
    BY InitialObjects
  <2> QED
    BY <2>1, <2>2
<1>2. ctx \in [Versions -> Seq(ContextObjects) \ {<<>>}]
  BY InitialObjects DEF Init
<1> QED
  BY <1>1, <1>2, DeploymentAssumption DEF Init, TypeOK, Contexts

\* The objects, the caches, the worker and the history always have their types.
THEOREM TypeCorrect == Spec => []TypeOK
BY InitTypes, TypeStep, PTL DEF Spec

-----------------------------------------------------------------------------
(* How the objects change.  Whatever the step, the versions of an object    *)
(* are left alone, get a newer one, lose the oldest, or are listed again.   *)

Inv == /\ TypeOK
       /\ RecordedWasSent
       /\ AppliedWasSent
       /\ CacheMovesForward
       /\ JobFollowsEvent

KsdChange(d) ==
  \/ ksd'[d] = ksd[d]
  \/ \E object \in KsdObjects(d) :
       /\ ksd'[d] = Push(ksd[d], object)
       /\ object.gen \in {Stored(ksd[d]).gen, Stored(ksd[d]).gen + 1}
       /\ KsdCovered(d, object, events')
  \/ Len(ksd[d]) > 1 /\ ksd'[d] = Tail(ksd[d])
  \/ ksd'[d] = <<Stored(ksd[d])>>

ContextChange(v) ==
  \/ ctx'[v] = ctx[v]
  \/ \E object \in ContextObjects :
       /\ ctx'[v] = Push(ctx[v], object)
       /\ ContextCovered(object, events')
  \/ Len(ctx[v]) > 1 /\ ctx'[v] = Tail(ctx[v])
  \/ ctx'[v] = <<Stored(ctx[v])>>

\* The two ends of an object's versions are covered, and the generations are
\* numbers in order.
LEMMA EndsCovered ==
  ASSUME Inv
  PROVE  /\ \A d \in Deployments :
              /\ KsdCovered(d, Cached(ksd[d]), events)
              /\ KsdCovered(d, Stored(ksd[d]), events)
              /\ Cached(ksd[d]).gen \in Nat /\ Stored(ksd[d]).gen \in Nat
              /\ Cached(ksd[d]).gen <= Stored(ksd[d]).gen
         /\ \A v \in Versions :
              /\ ContextCovered(Cached(ctx[v]), events)
              /\ ContextCovered(Stored(ctx[v]), events)
<1>1. ASSUME NEW d \in Deployments
      PROVE  /\ KsdCovered(d, Cached(ksd[d]), events)
             /\ KsdCovered(d, Stored(ksd[d]), events)
             /\ Cached(ksd[d]).gen \in Nat /\ Stored(ksd[d]).gen \in Nat
             /\ Cached(ksd[d]).gen <= Stored(ksd[d]).gen
  <2>1. /\ ksd[d] \in Seq(KsdObjects(d)) /\ ksd[d] # <<>>
        /\ Len(ksd[d]) \in Nat /\ Len(ksd[d]) > 0
        /\ Cached(ksd[d]) = ksd[d][1]
        /\ Stored(ksd[d]) = ksd[d][Len(ksd[d])]
    BY EndFacts DEF Inv, TypeOK, Stored
  <2>2. 1 \in 1..Len(ksd[d]) /\ Len(ksd[d]) \in 1..Len(ksd[d])
    BY <2>1
  <2>3. Cached(ksd[d]) \in KsdObjects(d) /\ Stored(ksd[d]) \in KsdObjects(d)
    BY CachedTypes DEF Inv
  <2>4. Cached(ksd[d]).gen \in Nat /\ Stored(ksd[d]).gen \in Nat
    BY <2>3, PlanFacts DEF KsdObjects, Generations
  <2> QED
    BY <2>1, <2>2, <2>4 DEF Inv, AppliedWasSent, CacheMovesForward
<1>2. ASSUME NEW v \in Versions
      PROVE  /\ ContextCovered(Cached(ctx[v]), events)
             /\ ContextCovered(Stored(ctx[v]), events)
  <2>1. /\ Len(ctx[v]) \in Nat /\ Len(ctx[v]) > 0
        /\ Cached(ctx[v]) = ctx[v][1]
        /\ Stored(ctx[v]) = ctx[v][Len(ctx[v])]
    BY EndFacts DEF Inv, TypeOK, Stored
  <2>2. 1 \in 1..Len(ctx[v]) /\ Len(ctx[v]) \in 1..Len(ctx[v])
    BY <2>1
  <2> QED
    BY <2>1, <2>2 DEF Inv, RecordedWasSent
<1> QED
  BY <1>1, <1>2

\* Accepted events are never forgotten, and an event is for the generation
\* its deployment's cache holds.
LEMMA EventSteps ==
  ASSUME Inv, [Next]_vars
  PROVE  /\ events \subseteq events'
         /\ \A d \in Deployments :
              \/ last'[d] = last[d]
              \/ last'[d] = Cached(ksd[d]).gen /\ ksd'[d] = ksd[d]
<1>1. ASSUME NEW d \in Deployments, NEW kc, Accept(d, kc)
      PROVE  /\ events \subseteq events'
             /\ \A e \in Deployments :
                  last'[e] = last[e] \/ last'[e] = Cached(ksd[e]).gen
  BY <1>1 DEF Accept, Inv, TypeOK
<1>2. ASSUME NEW d \in Deployments, Trigger(d) \/ TriggerAnswerLost(d)
      PROVE  /\ \E kc : Accept(d, kc)
             /\ ksd' = ksd
  BY <1>2 DEF Trigger, TriggerAnswerLost
<1>3. CASE \E d \in Deployments : Trigger(d) \/ TriggerAnswerLost(d)
  BY <1>1, <1>2, <1>3
<1>4. CASE events' = events /\ last' = last
  BY <1>4
<1> QED
  BY <1>3, <1>4, Zenon
     DEF Next, Reconcile, ProjectMissing, ProjectFound, ServiceMissing,
         ServiceFound, WriteKsd, CreateContext, SyncKsd, Edit, SyncContext,
         CollectContext, WriteContext, WriteStatus, Crash, CreateProject,
         DeleteProject, CreateService, DeleteService, Outage, Recover,
         history, vars

\* What is covered stays covered when more events are accepted.
LEMMA CoveredGrows ==
  ASSUME NEW accepted, NEW more, accepted \subseteq more
  PROVE  /\ \A object : ContextCovered(object, accepted) => ContextCovered(object, more)
         /\ \A d, object : KsdCovered(d, object, accepted) => KsdCovered(d, object, more)
BY DEF ContextCovered, KsdCovered

\* What the paths of Reconcile before the decision write keeps the generation
\* and the recorded hash of the cached object.
LEMMA ObjectWritten ==
  ASSUME TypeOK, NEW d \in Deployments,
         \/ ProjectMissing(d) \/ ProjectFound(d)
         \/ ServiceMissing(d) \/ ServiceFound(d)
  PROVE  \E object \in KsdObjects(d) :
           /\ WriteKsd(d, object)
           /\ object.gen = Cached(ksd[d]).gen
           /\ object.applied = Cached(ksd[d]).applied
<1>1. CASE ProjectMissing(d)
  <2> DEFINE object == [Cached(ksd[d]) EXCEPT !.projectExists = FALSE, !.updatePending = TRUE]
  <2>1. /\ object \in KsdObjects(d)
        /\ object.gen = Cached(ksd[d]).gen
        /\ object.applied = Cached(ksd[d]).applied
    BY CachedTypes DEF KsdObjects
  <2>2. WriteKsd(d, object)
    BY <1>1 DEF ProjectMissing
  <2> HIDE DEF object
  <2> QED
    BY <2>1, <2>2
<1>2. CASE ProjectFound(d)
  <2> DEFINE object == [Cached(ksd[d]) EXCEPT !.projectExists = TRUE]
  <2>1. /\ object \in KsdObjects(d)
        /\ object.gen = Cached(ksd[d]).gen
        /\ object.applied = Cached(ksd[d]).applied
    BY CachedTypes DEF KsdObjects
  <2>2. WriteKsd(d, object)
    BY <1>2 DEF ProjectFound
  <2> HIDE DEF object
  <2> QED
    BY <2>1, <2>2
<1>3. CASE ServiceMissing(d)
  <2> DEFINE object == [Cached(ksd[d]) EXCEPT !.serviceExists = FALSE, !.updatePending = TRUE]
  <2>1. /\ object \in KsdObjects(d)
        /\ object.gen = Cached(ksd[d]).gen
        /\ object.applied = Cached(ksd[d]).applied
    BY CachedTypes DEF KsdObjects
  <2>2. WriteKsd(d, object)
    BY <1>3 DEF ServiceMissing
  <2> HIDE DEF object
  <2> QED
    BY <2>1, <2>2
<1>4. CASE ServiceFound(d)
  <2> DEFINE object == [Cached(ksd[d]) EXCEPT !.serviceExists = TRUE]
  <2>1. /\ object \in KsdObjects(d)
        /\ object.gen = Cached(ksd[d]).gen
        /\ object.applied = Cached(ksd[d]).applied
    BY CachedTypes DEF KsdObjects
  <2>2. WriteKsd(d, object)
    BY <1>4 DEF ServiceFound
  <2> HIDE DEF object
  <2> QED
    BY <2>1, <2>2
<1> QED
  BY <1>1, <1>2, <1>3, <1>4

\* A deployment object changes only in the ways KsdChange lists.
LEMMA KsdSteps ==
  ASSUME Inv, [Next]_vars
  PROVE  \A d \in Deployments : KsdChange(d)
<1> USE DEF Inv
<1>1. ASSUME NEW d \in Deployments, NEW object \in KsdObjects(d),
             WriteKsd(d, object),
             object.gen = Cached(ksd[d]).gen,
             object.applied = Cached(ksd[d]).applied
      PROVE  \A e \in Deployments : KsdChange(e)
  <2>1. Stored(ksd[d]) = Cached(ksd[d])
    BY <1>1, EndFacts DEF WriteKsd, TypeOK
  <2>2. KsdCovered(d, object, events')
    BY <1>1, EndsCovered, EventSteps, CoveredGrows DEF KsdCovered
  <2>3. ksd'[d] = Push(ksd[d], object) /\ \A e \in Deployments \ {d} : ksd'[e] = ksd[e]
    BY <1>1 DEF WriteKsd, TypeOK
  <2> QED
    BY <1>1, <2>1, <2>2, <2>3 DEF KsdChange
<1>2. ASSUME NEW d \in Deployments,
             \/ ProjectMissing(d) \/ ProjectFound(d)
             \/ ServiceMissing(d) \/ ServiceFound(d)
      PROVE  \A e \in Deployments : KsdChange(e)
  <2>1. PICK object \in KsdObjects(d) :
          /\ WriteKsd(d, object)
          /\ object.gen = Cached(ksd[d]).gen
          /\ object.applied = Cached(ksd[d]).applied
    BY <1>2, ObjectWritten
  <2> QED
    BY <1>1, <2>1
<1>3. ASSUME NEW d \in Deployments, SyncKsd(d)
      PROVE  \A e \in Deployments : KsdChange(e)
  BY <1>3 DEF SyncKsd, KsdChange, TypeOK
<1>4. ASSUME NEW d \in Deployments, Edit(d)
      PROVE  \A e \in Deployments : KsdChange(e)
  <2> DEFINE newer == [Stored(ksd[d]) EXCEPT !.gen = @ + 1]
  <2>1. newer \in KsdObjects(d)
    BY <1>4, CachedTypes DEF Edit, KsdObjects
  <2>2. newer.gen = Stored(ksd[d]).gen + 1 /\ newer.applied = Stored(ksd[d]).applied
    BY CachedTypes DEF KsdObjects
  <2>3. KsdCovered(d, newer, events')
    BY <2>2, EndsCovered, EventSteps, CoveredGrows DEF KsdCovered
  <2>4. ksd' = [ksd EXCEPT ![d] = Push(ksd[d], newer)]
    BY <1>4 DEF Edit
  <2> HIDE DEF newer
  <2> QED
    BY <2>1, <2>2, <2>3, <2>4 DEF KsdChange, TypeOK
<1>5. CASE WriteStatus
  <2>1. Busy
    BY <1>5, BusyPc DEF WriteStatus
  <2> DEFINE object == [job.copy EXCEPT !.updatePending = FALSE, !.applied = job.gen]
  <2>2. object \in KsdObjects(job.d) /\ job.d \in Deployments
    BY <2>1, WrittenTypes, JobTypes
  <2>3. object.gen = job.copy.gen /\ object.applied = job.gen
    BY <2>1, JobTypes DEF KsdObjects
  <2>4. KsdCovered(job.d, object, events')
    BY <2>1, <2>3, EventSteps DEF JobFollowsEvent, KsdCovered
  <2>5. \/ ksd' = ksd
        \/ /\ job.copyFresh
           /\ ksd' = [ksd EXCEPT ![job.d] = IF object = Stored(ksd[job.d])
                                             THEN ksd[job.d]
                                             ELSE Push(ksd[job.d], object)]
    BY <1>5 DEF WriteStatus
  <2>6. job.copyFresh => object.gen = Stored(ksd[job.d]).gen
    BY <2>1, <2>3 DEF JobFollowsEvent
  <2> HIDE DEF object
  <2> QED
    BY <2>2, <2>4, <2>5, <2>6 DEF KsdChange, TypeOK
<1>6. CASE Crash
  BY <1>6 DEF Crash, KsdChange
<1>7. CASE ksd' = ksd
  BY <1>7 DEF KsdChange
<1> QED
  BY <1>2, <1>3, <1>4, <1>5, <1>6, <1>7
     DEF Next, Reconcile, CreateContext, Trigger, TriggerAnswerLost,
         SyncContext, CollectContext, WriteContext, CreateProject,
         DeleteProject, CreateService, DeleteService, Outage, Recover, vars

\* A context changes only in the ways ContextChange lists.
LEMMA ContextSteps ==
  ASSUME Inv, [Next]_vars
  PROVE  \A v \in Versions : ContextChange(v)
<1> USE DEF Inv
<1>1. /\ \A accepted : ContextCovered(NewContext, accepted)
      /\ \A accepted : ContextCovered(NoContext, accepted)
  BY DEF ContextCovered, NewContext, NoContext
<1>2. ASSUME NEW d \in Deployments, CreateContext(d)
      PROVE  \A v \in Versions : ContextChange(v)
  BY <1>1, <1>2, CachedTypes, InitialObjects DEF CreateContext, ContextChange, TypeOK
<1>3. ASSUME NEW v \in Versions, CollectContext(v)
      PROVE  \A w \in Versions : ContextChange(w)
  BY <1>1, <1>3, InitialObjects DEF CollectContext, ContextChange, TypeOK
<1>4. ASSUME NEW v \in Versions, SyncContext(v)
      PROVE  \A w \in Versions : ContextChange(w)
  BY <1>4 DEF SyncContext, ContextChange, TypeOK
<1>5. CASE WriteContext
  <2>1. Busy
    BY <1>5, BusyPc DEF WriteContext
  <2> DEFINE v == Plan[job.d][job.gen].version
             stage == StageOf[job.d]
             object == [job.view EXCEPT !.hash[stage] = Plan[job.d][job.gen],
                                        !.kc = job.kc]
  <2>2. object \in ContextObjects /\ v \in Versions
    BY <2>1, WrittenTypes, JobTypes
  <2>3. ContextCovered(object, events')
    <3>1. object.hash = [job.view.hash EXCEPT ![stage] = Plan[job.d][job.gen]]
      BY <2>1, JobTypes DEF ContextObjects
    <3>2. \A other \in Stages : object.hash[other] =
            IF other = stage THEN Plan[job.d][job.gen] ELSE job.view.hash[other]
      BY <2>1, <3>1, JobTypes DEF ContextObjects
    <3>3. \E e \in events' : StageOf[e.d] = stage
                             /\ Plan[e.d][e.gen] = Plan[job.d][job.gen]
      BY <2>1, EventSteps DEF JobFollowsEvent
    <3>4. ContextCovered(job.view, events')
      <4>1. events' = events
        BY <1>5, Zenon DEF WriteContext, history
      <4> QED
        BY <2>1, <4>1, Zenon DEF JobFollowsEvent
    <3> HIDE DEF object
    <3> QED
      BY <3>2, <3>3, <3>4 DEF ContextCovered
  <2>4. \/ ctx' = ctx
        \/ ctx' = [ctx EXCEPT ![v] = IF object = Stored(ctx[v]) THEN ctx[v]
                                     ELSE Push(ctx[v], object)]
    BY <1>5 DEF WriteContext
  <2> HIDE DEF object, v
  <2> QED
    BY <2>2, <2>3, <2>4 DEF ContextChange, TypeOK
<1>6. CASE Crash
  BY <1>6 DEF Crash, ContextChange
<1>7. CASE ctx' = ctx
  BY <1>7 DEF ContextChange
<1> QED
  BY <1>2, <1>3, <1>4, <1>5, <1>6, <1>7, Zenon
     DEF Next, Reconcile, ProjectMissing, ProjectFound, ServiceMissing,
         ServiceFound, WriteKsd, Trigger, TriggerAnswerLost, SyncKsd, Edit,
         WriteStatus, CreateProject, DeleteProject, CreateService,
         DeleteService, Outage, Recover, vars

-----------------------------------------------------------------------------
(* The invariants. *)

\* The stored contexts and the cached ones stay covered.
LEMMA RecordedStep ==
  ASSUME Inv, [Next]_vars
  PROVE  RecordedWasSent'
<1> SUFFICES ASSUME NEW v \in Versions, NEW i \in 1..Len(ctx'[v])
             PROVE  ContextCovered(ctx'[v][i], events')
  BY DEF RecordedWasSent
<1>1. ctx[v] \in Seq(ContextObjects) /\ ctx[v] # <<>>
  BY DEF Inv, TypeOK
<1>2. \A j \in 1..Len(ctx[v]) : ContextCovered(ctx[v][j], events')
  BY EventSteps, CoveredGrows DEF Inv, RecordedWasSent
<1>3. ContextChange(v)
  BY ContextSteps
<1>4. ASSUME NEW object \in ContextObjects,
             ctx'[v] = Push(ctx[v], object), ContextCovered(object, events')
      PROVE  ContextCovered(ctx'[v][i], events')
  BY <1>1, <1>2, <1>4, PushElements
<1>5. CASE Len(ctx[v]) > 1 /\ ctx'[v] = Tail(ctx[v])
  <2>1. PICK j \in 1..Len(ctx[v]) : ctx'[v][i] = ctx[v][j]
    BY <1>1, <1>5, TailElements
  <2> QED
    BY <1>2, <2>1
<1>6. CASE ctx'[v] = <<Stored(ctx[v])>>
  <2>1. i = 1 /\ Len(ctx[v]) \in 1..Len(ctx[v])
    BY <1>1, <1>6
  <2>2. ctx'[v][i] = ctx[v][Len(ctx[v])]
    BY <1>6, <2>1 DEF Stored
  <2> QED
    BY <1>2, <2>1, <2>2
<1>7. CASE ctx'[v] = ctx[v]
  BY <1>2, <1>7
<1> QED
  BY <1>3, <1>4, <1>5, <1>6, <1>7 DEF ContextChange

\* So do the deployment objects.
LEMMA AppliedStep ==
  ASSUME Inv, [Next]_vars
  PROVE  AppliedWasSent'
<1> SUFFICES ASSUME NEW d \in Deployments, NEW i \in 1..Len(ksd'[d])
             PROVE  KsdCovered(d, ksd'[d][i], events')
  BY DEF AppliedWasSent
<1>1. ksd[d] \in Seq(KsdObjects(d)) /\ ksd[d] # <<>>
  BY DEF Inv, TypeOK
<1>2. \A j \in 1..Len(ksd[d]) : KsdCovered(d, ksd[d][j], events')
  BY EventSteps, CoveredGrows DEF Inv, AppliedWasSent
<1>3. KsdChange(d)
  BY KsdSteps
<1>4. ASSUME NEW object \in KsdObjects(d),
             ksd'[d] = Push(ksd[d], object), KsdCovered(d, object, events')
      PROVE  KsdCovered(d, ksd'[d][i], events')
  BY <1>1, <1>2, <1>4, PushElements
<1>5. CASE Len(ksd[d]) > 1 /\ ksd'[d] = Tail(ksd[d])
  <2>1. PICK j \in 1..Len(ksd[d]) : ksd'[d][i] = ksd[d][j]
    BY <1>1, <1>5, TailElements
  <2> QED
    BY <1>2, <2>1
<1>6. CASE ksd'[d] = <<Stored(ksd[d])>>
  <2>1. i = 1 /\ Len(ksd[d]) \in 1..Len(ksd[d])
    BY <1>1, <1>6
  <2>2. ksd'[d][i] = ksd[d][Len(ksd[d])]
    BY <1>6, <2>1 DEF Stored
  <2> QED
    BY <1>2, <2>1, <2>2
<1>7. CASE ksd'[d] = ksd[d]
  BY <1>2, <1>7
<1> QED
  BY <1>3, <1>4, <1>5, <1>6, <1>7 DEF KsdChange

\* The generations of a sequence of versions only rise.
Rising(versions) ==
  \A i, j \in 1..Len(versions) : i <= j => versions[i].gen <= versions[j].gen

\* They keep rising when a newer version is pushed, when the oldest goes and
\* when the stored one is listed again; the cached generation never drops.
LEMMA RisingPush ==
  ASSUME NEW S, NEW s \in Seq(S), s # <<>>, Rising(s),
         \A y \in S : y.gen \in Nat,
         NEW x \in S, x.gen >= Stored(s).gen, NEW t, t = Push(s, x)
  PROVE  Rising(t) /\ Cached(t).gen >= Cached(s).gen
<1>1. /\ Len(s) \in Nat /\ Len(s) > 0 /\ Cached(s) = s[1]
      /\ Stored(s) = s[Len(s)]
      /\ \A i \in 1..Len(s) : s[i].gen \in Nat
  BY EndFacts DEF Stored
<1>0. /\ Push(s, x) \in Seq(S)
      /\ Len(Push(s, x)) > 0
      /\ Push(s, x) # <<>>
      /\ Stored(Push(s, x)) = x
      /\ \E k \in {0, 1} :
           /\ Len(Push(s, x)) + k = Len(s) + 1
           /\ \A i \in 1..(Len(Push(s, x)) - 1) : Push(s, x)[i] = s[i + k]
  BY PushFacts, Zenon
<1>2. PICK k \in {0, 1} :
        /\ Len(t) + k = Len(s) + 1
        /\ \A i \in 1..(Len(t) - 1) : t[i] = s[i + k]
  BY <1>0, Zenon
<1>3. t \in Seq(S) /\ t # <<>> /\ t[Len(t)] = x
  BY <1>0, Zenon DEF Stored
<1>4. Len(t) \in Nat /\ Len(t) > 0 /\ Cached(t) = t[1]
  BY <1>3, EndFacts
<1>5. \A i \in 1..Len(s) : s[i].gen <= x.gen
  <2>1. \A i \in 1..Len(s) : s[i].gen <= s[Len(s)].gen
    BY <1>1 DEF Rising
  <2> QED
    BY <1>1, <2>1
<1>6. \A i \in 1..(Len(t) - 1) : i + k \in 1..Len(s) /\ t[i].gen = s[i + k].gen
  BY <1>1, <1>2, <1>4
<1>7. Rising(t)
  <2> SUFFICES ASSUME NEW i \in 1..Len(t), NEW j \in 1..Len(t), i <= j
               PROVE  t[i].gen <= t[j].gen
    BY DEF Rising
  <2>1. CASE j # Len(t)
    <3>1. i \in 1..(Len(t) - 1) /\ j \in 1..(Len(t) - 1) /\ i + k <= j + k
      BY <1>4, <2>1
    <3> QED
      BY <1>6, <3>1 DEF Rising
  <2>2. CASE j = Len(t) /\ i # Len(t)
    <3>1. i \in 1..(Len(t) - 1)
      BY <1>4, <2>2
    <3> QED
      BY <1>3, <1>5, <1>6, <2>2, <3>1
  <2>3. CASE j = Len(t) /\ i = Len(t)
    BY <1>3, <2>3
  <2> QED
    BY <2>1, <2>2, <2>3
<1>8. t[1].gen >= s[1].gen
  <2>1. 1 \in 1..Len(s)
    BY <1>1
  <2>2. CASE Len(t) = 1
    BY <1>1, <1>3, <1>5, <2>1, <2>2
  <2>3. CASE Len(t) # 1
    <3>1. 1 \in 1..(Len(t) - 1)
      <4> DEFINE n == Len(t)
      <4>1. n \in Nat /\ n > 0 /\ n # 1
        BY <1>4, <2>3
      <4> HIDE DEF n
      <4>2. 1 \in 1..(n - 1)
        BY <4>1
      <4> QED
        BY <4>2 DEF n
    <3>2. 1 + k \in 1..Len(s) /\ t[1].gen = s[1 + k].gen /\ 1 <= 1 + k
      BY <1>6, <3>1
    <3>3. s[1].gen <= s[1 + k].gen
      BY <2>1, <3>2 DEF Rising
    <3> QED
      BY <1>1, <3>2, <3>3
  <2> QED
    BY <2>2, <2>3
<1> QED
  BY <1>1, <1>4, <1>7, <1>8

\* A cache that moves forward keeps the versions rising.
LEMMA RisingTail ==
  ASSUME NEW S, NEW s \in Seq(S), Rising(s), \A y \in S : y.gen \in Nat,
         Len(s) > 1, NEW t, t = Tail(s)
  PROVE  Rising(t) /\ Cached(t).gen >= Cached(s).gen
<1>1. /\ t \in Seq(S) /\ t # <<>> /\ Len(t) = Len(s) - 1
      /\ \A i \in 1..Len(t) : t[i] = s[i + 1]
  BY TailFacts
<1>2. \A i \in 1..Len(t) : i + 1 \in 1..Len(s)
  BY <1>1
<1>3. Rising(t)
  BY <1>1, <1>2 DEF Rising
<1>4. Cached(t) = t[1] /\ Cached(s) = s[1]
  BY <1>1 DEF Cached
<1>5. 1 \in 1..Len(t) /\ 1 \in 1..Len(s) /\ 2 \in 1..Len(s)
  BY <1>1
<1>6. t[1] = s[2]
  BY <1>1, <1>5
<1>7. s[1].gen <= s[2].gen /\ s[1].gen \in Nat /\ s[2].gen \in Nat
  BY <1>5 DEF Rising
<1> QED
  BY <1>3, <1>4, <1>6, <1>7

\* A restart, which reads the stored version, moves the cache forward too.
LEMMA RisingRelist ==
  ASSUME NEW S, NEW s \in Seq(S), s # <<>>, Rising(s),
         \A y \in S : y.gen \in Nat, NEW t, t = <<Stored(s)>>
  PROVE  Rising(t) /\ Cached(t).gen >= Cached(s).gen
<1>1. Len(t) = 1 /\ t[1] = Stored(s) /\ Cached(t) = Stored(s)
  BY DEF Cached
<1>2. 1 \in 1..Len(s) /\ Len(s) \in 1..Len(s) /\ 1 <= Len(s)
  OBVIOUS
<1>3. /\ Stored(s).gen \in Nat /\ Cached(s).gen \in Nat
      /\ Stored(s).gen >= Cached(s).gen
  BY <1>2 DEF Rising, Stored, Cached
<1>4. Rising(t)
  BY <1>1, <1>3 DEF Rising
<1> QED
  BY <1>1, <1>3, <1>4

\* The generations of every deployment object keep rising.
LEMMA RisingStep ==
  ASSUME Inv, [Next]_vars, NEW d \in Deployments
  PROVE  /\ Rising(ksd'[d])
         /\ Cached(ksd'[d]).gen >= Cached(ksd[d]).gen
<1>1. ksd[d] \in Seq(KsdObjects(d)) /\ ksd[d] # <<>> /\ Rising(ksd[d])
  BY DEF Inv, TypeOK, CacheMovesForward, Rising
<1>2. \A object \in KsdObjects(d) : object.gen \in Nat
  BY PlanFacts DEF KsdObjects, Generations
<1>3. Stored(ksd[d]).gen \in Nat /\ Cached(ksd[d]).gen \in Nat
  BY EndsCovered
<1>4. KsdChange(d)
  BY KsdSteps
<1>5. CASE ksd'[d] = ksd[d]
  BY <1>1, <1>3, <1>5
<1>6. ASSUME NEW object \in KsdObjects(d), ksd'[d] = Push(ksd[d], object),
             object.gen \in {Stored(ksd[d]).gen, Stored(ksd[d]).gen + 1}
      PROVE  Rising(ksd'[d]) /\ Cached(ksd'[d]).gen >= Cached(ksd[d]).gen
  <2>1. object.gen >= Stored(ksd[d]).gen
    BY <1>3, <1>6
  <2> QED
    BY <1>1, <1>2, <1>6, <2>1, RisingPush
<1>7. CASE Len(ksd[d]) > 1 /\ ksd'[d] = Tail(ksd[d])
  BY <1>1, <1>2, <1>7, RisingTail
<1>8. CASE ksd'[d] = <<Stored(ksd[d])>>
  BY <1>1, <1>2, <1>8, RisingRelist
<1> QED
  BY <1>4, <1>5, <1>6, <1>7, <1>8 DEF KsdChange

\* No step takes the cached generation below the last one reconciled.
LEMMA CacheStep ==
  ASSUME Inv, [Next]_vars
  PROVE  CacheMovesForward'
<1> SUFFICES ASSUME NEW d \in Deployments
             PROVE  Rising(ksd'[d]) /\ last'[d] <= Cached(ksd'[d]).gen
  BY DEF CacheMovesForward, Rising
<1>1. Rising(ksd'[d]) /\ Cached(ksd'[d]).gen >= Cached(ksd[d]).gen
  BY RisingStep
<1>2. last[d] \in Nat /\ last[d] <= Cached(ksd[d]).gen /\ Cached(ksd[d]).gen \in Nat
  BY EndsCovered, PlanFacts DEF Inv, TypeOK, CacheMovesForward, Generations
<1>3. Cached(ksd'[d]).gen \in Nat
  <2>1. TypeOK'
    BY TypeStep DEF Inv
  <2>2. ksd'[d] \in Seq(KsdObjects(d)) /\ ksd'[d] # <<>>
    BY <2>1 DEF TypeOK
  <2>3. Cached(ksd'[d]) \in KsdObjects(d)
    BY <2>2, EndFacts
  <2> QED
    BY <2>3, PlanFacts DEF KsdObjects, Generations
<1>4. last'[d] = last[d] \/ last'[d] = Cached(ksd[d]).gen
  BY EventSteps
<1> QED
  BY <1>1, <1>2, <1>3, <1>4

\* The worker keeps following the event it sent.  A job begins with Trigger;
\* after that its copies change only by being marked outdated.
LEMMA JobStep ==
  ASSUME Inv, [Next]_vars
  PROVE  JobFollowsEvent'
<1>1. ASSUME NEW d \in Deployments, Trigger(d)
      PROVE  JobFollowsEvent'
  <2>1. PICK view \in Views(d) :
          /\ Accept(d, Mint(view.object.kc))
          /\ job' = [pc |-> "context", d |-> d, gen |-> Cached(ksd[d]).gen,
                     copy |-> Cached(ksd[d]), copyFresh |-> InSync(ksd[d]),
                     view |-> view.object, viewFresh |-> view.fresh,
                     kc |-> Mint(view.object.kc)]
          /\ ksd' = ksd
    BY <1>1 DEF Trigger
  <2>2. /\ job'.copy.gen = job'.gen
        /\ \E e \in events' : e.d = job'.d /\ e.gen = job'.gen
    <3> DEFINE event == [d |-> d, gen |-> Cached(ksd[d]).gen,
                         kc |-> Mint(view.object.kc)]
    <3>1. event \in events'
      BY <2>1 DEF Accept
    <3>2. event.d = job'.d /\ event.gen = job'.gen /\ job'.copy.gen = job'.gen
      BY <2>1
    <3> QED
      BY <3>1, <3>2
  <2>3. KsdCovered(job'.d, job'.copy, events')
    BY <2>1, EndsCovered, EventSteps, CoveredGrows
  <2>4. ContextCovered(job'.view, events')
    <3>1. view.object = Cached(ctx[VersionOf(d)]) \/ view.object = NoContext
      BY DEF Views
    <3>2. ContextCovered(Cached(ctx[VersionOf(d)]), events')
      BY CachedTypes, EndsCovered, EventSteps, CoveredGrows DEF Inv
    <3>3. ContextCovered(NoContext, events')
      BY DEF ContextCovered, NoContext
    <3> QED
      BY <2>1, <3>1, <3>2, <3>3
  <2>5. job'.copyFresh => Stored(ksd'[job'.d]).gen = job'.gen
    BY <2>1, EndFacts DEF Inv, TypeOK
  <2> QED
    BY <2>2, <2>3, <2>4, <2>5 DEF JobFollowsEvent
<1>2. ASSUME Busy, job'.d = job.d, job'.gen = job.gen, job'.copy = job.copy,
             job'.view = job.view,
             job'.copyFresh => Stored(ksd'[job.d]).gen = job.gen
      PROVE  JobFollowsEvent'
  BY <1>2, EventSteps, CoveredGrows DEF Inv, JobFollowsEvent
<1>3. CASE ~Busy'
  BY <1>3 DEF JobFollowsEvent
<1>4. CASE Busy /\ job' = job /\ ksd' = ksd
  BY <1>2, <1>4 DEF Inv, JobFollowsEvent
<1>5. ASSUME Busy, NEW d \in Deployments, SyncKsd(d)
      PROVE  JobFollowsEvent'
  <2>1. Stored(ksd'[job.d]) = Stored(ksd[job.d])
    BY <1>5, JobTypes, TailFacts DEF SyncKsd, Inv, TypeOK
  <2> QED
    BY <1>2, <1>5, <2>1 DEF SyncKsd, Inv, JobFollowsEvent
<1>6. ASSUME Busy, NEW d \in Deployments, Edit(d)
      PROVE  JobFollowsEvent'
  <2>1. /\ job'.d = job.d /\ job'.gen = job.gen /\ job'.copy = job.copy
        /\ job'.view = job.view
        /\ job'.copyFresh => job.copyFresh /\ job.d # d
    BY <1>6, JobTypes DEF Edit, TouchKsd, Inv, Jobs
  <2>2. job.d # d => ksd'[job.d] = ksd[job.d]
    BY <1>6, JobTypes DEF Edit, Inv, TypeOK
  <2> QED
    BY <1>2, <1>6, <2>1, <2>2 DEF Inv, JobFollowsEvent
<1>7. ASSUME Busy, NEW v \in Versions, CollectContext(v)
      PROVE  JobFollowsEvent'
  <2>1. /\ job'.d = job.d /\ job'.gen = job.gen /\ job'.copy = job.copy
        /\ job'.view = job.view /\ job'.copyFresh = job.copyFresh
    BY <1>7, JobTypes DEF CollectContext, TouchContext, Inv, Jobs
  <2>2. ksd' = ksd
    BY <1>7 DEF CollectContext
  <2> QED
    BY <1>2, <1>7, <2>1, <2>2 DEF Inv, JobFollowsEvent
<1>8. CASE WriteContext
  <2>1. Busy
    BY <1>8, BusyPc DEF WriteContext
  <2>2. /\ job'.d = job.d /\ job'.gen = job.gen /\ job'.copy = job.copy
        /\ job'.view = job.view /\ job'.copyFresh = job.copyFresh
    BY <1>8, <2>1, JobTypes DEF WriteContext, Inv, Jobs
  <2>3. ksd' = ksd
    BY <1>8 DEF WriteContext
  <2> QED
    BY <1>2, <2>1, <2>2, <2>3 DEF Inv, JobFollowsEvent
<1>9. CASE WriteStatus \/ Crash
  BY <1>3, <1>9 DEF WriteStatus, Crash, Busy
<1>10. ASSUME ~Busy, job' = job
       PROVE  JobFollowsEvent'
  BY <1>3, <1>10 DEF Busy
<1>11. ASSUME ~Busy,
              \/ \E d \in Deployments : Edit(d)
              \/ \E v \in Versions : CollectContext(v)
       PROVE  JobFollowsEvent'
  BY <1>10, <1>11 DEF Edit, CollectContext, TouchKsd, TouchContext
<1> QED
  BY <1>1, <1>4, <1>5, <1>6, <1>7, <1>8, <1>9, <1>10, <1>11, Zenon
     DEF Next, Reconcile, ProjectMissing, ProjectFound, ServiceMissing,
         ServiceFound, WriteKsd, CreateContext, TriggerAnswerLost, SyncKsd,
         SyncContext, CreateProject, DeleteProject, CreateService,
         DeleteService, Outage, Recover, vars

\* The inductive invariant holds in every reachable state.
THEOREM Invariance == Spec => []Inv
<1>1. Init => Inv
  <2> SUFFICES ASSUME Init
               PROVE  Inv
    OBVIOUS
  <2>1. TypeOK
    BY InitTypes
  <2>2. RecordedWasSent
    BY DEF Init, RecordedWasSent, ContextCovered, NoContext
  <2>3. AppliedWasSent
    BY DEF Init, AppliedWasSent, KsdCovered, NewKsd
  <2>4. CacheMovesForward
    <3> SUFFICES ASSUME NEW d \in Deployments
                 PROVE  /\ \A i, j \in 1..Len(ksd[d]) :
                             i <= j => ksd[d][i].gen <= ksd[d][j].gen
                        /\ last[d] <= Cached(ksd[d]).gen
      BY DEF CacheMovesForward
    <3>1. ksd[d] = <<NewKsd>> /\ last[d] = 0 /\ NewKsd.gen = 1
      BY DEF Init, NewKsd
    <3>2. Len(ksd[d]) = 1 /\ ksd[d][1] = NewKsd /\ Cached(ksd[d]) = NewKsd
      BY <3>1 DEF Cached
    <3> QED
      BY <3>1, <3>2
  <2>5. JobFollowsEvent
    BY DEF Init, JobFollowsEvent, Busy
  <2> QED
    BY <2>1, <2>2, <2>3, <2>4, <2>5 DEF Inv
<1>2. Inv /\ [Next]_vars => Inv'
  <2> SUFFICES ASSUME Inv, [Next]_vars
               PROVE  Inv'
    OBVIOUS
  <2>1. TypeOK'
    BY TypeStep DEF Inv
  <2> QED
    BY <2>1, RecordedStep, AppliedStep, CacheStep, JobStep DEF Inv
<1> QED
  BY <1>1, <1>2, PTL DEF Spec

\* No context ever records a spec whose event Keptn did not accept: the
\* controller skips a deployment only when it was sent.
THEOREM RecordsAreTrue == Spec => []RecordedWasSent
<1>1. Inv => RecordedWasSent
  BY DEF Inv
<1> QED
  BY <1>1, Invariance, PTL

\* Nor does a deployment object.
THEOREM ClaimsAreTrue == Spec => []AppliedWasSent
<1>1. Inv => AppliedWasSent
  BY DEF Inv
<1> QED
  BY <1>1, Invariance, PTL

\* However far a cache lags behind, its versions only rise, and nothing was
\* triggered for a generation it has not reached.
THEOREM CachesRise == Spec => []CacheMovesForward
<1>1. Inv => CacheMovesForward
  BY DEF Inv
<1> QED
  BY <1>1, Invariance, PTL

\* Between its event and its writes the worker holds what that event was for,
\* whatever the user, the caches and other writers do meanwhile.
THEOREM WorkerIsConsistent == Spec => []JobFollowsEvent
<1>1. Inv => JobFollowsEvent
  BY DEF Inv
<1> QED
  BY <1>1, Invariance, PTL

-----------------------------------------------------------------------------
(* The controller implements DeploymentTrigger. *)

Wanted == [d \in Deployments |-> Stored(ksd[d]).gen]

\* The wanted generations change only when a user edits a spec.
LEMMA WantedKept ==
  ASSUME Inv, [Next]_vars, ~\E d \in Deployments : Edit(d)
  PROVE  \A d \in Deployments : Stored(ksd'[d]).gen = Stored(ksd[d]).gen
<1> USE DEF Inv
<1>1. ASSUME NEW d \in Deployments, NEW object \in KsdObjects(d),
             ksd' = [ksd EXCEPT ![d] = Push(@, object)],
             object.gen = Stored(ksd[d]).gen
      PROVE  \A e \in Deployments : Stored(ksd'[e]).gen = Stored(ksd[e]).gen
  <2>1. Stored(Push(ksd[d], object)) = object
    BY PushFacts DEF TypeOK
  <2> QED
    BY <1>1, <2>1 DEF TypeOK
<1>2. ASSUME NEW d \in Deployments,
             \/ ProjectMissing(d) \/ ProjectFound(d)
             \/ ServiceMissing(d) \/ ServiceFound(d)
      PROVE  \A e \in Deployments : Stored(ksd'[e]).gen = Stored(ksd[e]).gen
  <2>1. PICK object \in KsdObjects(d) :
          WriteKsd(d, object) /\ object.gen = Cached(ksd[d]).gen
    BY <1>2, ObjectWritten
  <2>2. Stored(ksd[d]) = Cached(ksd[d])
    BY <2>1, EndFacts DEF WriteKsd, TypeOK
  <2> QED
    BY <1>1, <2>1, <2>2 DEF WriteKsd
<1>3. ASSUME NEW d \in Deployments, SyncKsd(d)
      PROVE  \A e \in Deployments : Stored(ksd'[e]).gen = Stored(ksd[e]).gen
  <2>1. Stored(Tail(ksd[d])) = Stored(ksd[d])
    BY <1>3, TailFacts DEF SyncKsd, TypeOK
  <2> QED
    BY <1>3, <2>1 DEF SyncKsd, TypeOK
<1>4. CASE WriteStatus
  <2>1. Busy
    BY <1>4, BusyPc DEF WriteStatus
  <2> DEFINE object == [job.copy EXCEPT !.updatePending = FALSE, !.applied = job.gen]
  <2>2. object \in KsdObjects(job.d) /\ job.d \in Deployments
    BY <2>1, WrittenTypes, JobTypes
  <2>3. object.gen = job.copy.gen
    BY <2>1, JobTypes DEF KsdObjects
  <2>4. job.copyFresh => object.gen = Stored(ksd[job.d]).gen
    BY <2>1, <2>3 DEF JobFollowsEvent
  <2>5. \/ ksd' = ksd
        \/ /\ job.copyFresh
           /\ ksd' = [ksd EXCEPT ![job.d] = IF object = Stored(ksd[job.d])
                                             THEN ksd[job.d]
                                             ELSE Push(ksd[job.d], object)]
    BY <1>4 DEF WriteStatus
  <2> HIDE DEF object
  <2>6. Stored(Push(ksd[job.d], object)) = object
    <3>1. ksd[job.d] \in Seq(KsdObjects(job.d)) /\ ksd[job.d] # <<>>
      BY <2>2 DEF TypeOK
    <3> QED
      BY <2>2, <3>1, PushFacts
  <2> QED
    BY <2>2, <2>4, <2>5, <2>6 DEF TypeOK
<1>5. CASE Crash
  BY <1>5, RelistFacts DEF Crash, TypeOK
<1>6. CASE ksd' = ksd
  BY <1>6
<1> QED
  BY <1>2, <1>3, <1>4, <1>5, <1>6
     DEF Next, Reconcile, CreateContext, Trigger, TriggerAnswerLost,
         SyncContext, CollectContext, WriteContext, CreateProject,
         DeleteProject, CreateService, DeleteService, Outage, Recover, vars

\* Every step is a step of DeploymentTrigger or leaves its variables alone.
LEMMA AbstractStep ==
  ASSUME Inv, [Next]_vars
  PROVE  [Abstract!Next]_(Abstract!vars)
<1>1. ASSUME NEW d \in Deployments, Edit(d)
      PROVE  Abstract!Want(d)
  <2> DEFINE newer == [Stored(ksd[d]) EXCEPT !.gen = @ + 1]
  <2>1. newer \in KsdObjects(d) /\ newer.gen = Stored(ksd[d]).gen + 1
    BY <1>1, CachedTypes DEF Edit, KsdObjects, Inv
  <2>2. ksd' = [ksd EXCEPT ![d] = Push(ksd[d], newer)] /\ last' = last
    BY <1>1 DEF Edit, history
  <2>3. Stored(ksd[d]).gen < Len(Plan[d])
    BY <1>1, PlanFacts, EndsCovered DEF Edit, Generations
  <2> HIDE DEF newer
  <2>4. Stored(Push(ksd[d], newer)) = newer
    <3>1. ksd[d] \in Seq(KsdObjects(d)) /\ ksd[d] # <<>>
      BY DEF Inv, TypeOK
    <3> QED
      BY <2>1, <3>1, PushFacts
  <2>5. Stored(ksd'[d]) = newer /\ \A e \in Deployments \ {d} : ksd'[e] = ksd[e]
    BY <2>2, <2>4 DEF Inv, TypeOK
  <2>6. Wanted' = [Wanted EXCEPT ![d] = Wanted[d] + 1]
    BY <2>1, <2>5 DEF Wanted
  <2> QED
    BY <2>2, <2>3, <2>6 DEF Abstract!Want, Wanted
<1>2. ASSUME NEW d \in Deployments, Trigger(d) \/ TriggerAnswerLost(d)
      PROVE  Abstract!Send(d)
  <2> DEFINE gen == Cached(ksd[d]).gen
  <2>1. last' = [last EXCEPT ![d] = gen] /\ ksd' = ksd
    BY <1>2 DEF Trigger, TriggerAnswerLost, Accept
  <2>2. last[d] \in Nat /\ last[d] <= gen /\ gen \in Nat /\ gen # 0
    BY CachedTypes, PlanFacts DEF Inv, TypeOK, CacheMovesForward, Generations
  <2>3. gen <= Stored(ksd[d]).gen /\ Stored(ksd[d]).gen \in Nat
    BY EndsCovered
  <2>4. gen \in last[d]..Wanted[d]
    BY <2>2, <2>3 DEF Wanted
  <2>5. Wanted' = Wanted
    BY <2>1 DEF Wanted
  <2> HIDE DEF gen
  <2> QED
    BY <2>1, <2>2, <2>4, <2>5 DEF Abstract!Send, Wanted
<1>3. ASSUME ~\E d \in Deployments : Edit(d), last' = last
      PROVE  UNCHANGED Abstract!vars
  <2>1. Wanted' = Wanted
    BY <1>3, WantedKept DEF Wanted
  <2> QED
    BY <1>3, <2>1 DEF Abstract!vars, Wanted
<1>4. \/ \E d \in Deployments : Edit(d)
      \/ \E d \in Deployments : Trigger(d) \/ TriggerAnswerLost(d)
      \/ last' = last
  BY Zenon DEF Next, Reconcile, ProjectMissing, ProjectFound, ServiceMissing,
         ServiceFound, WriteKsd, CreateContext, SyncKsd, SyncContext,
         CollectContext, WriteContext, WriteStatus, Crash, CreateProject,
         DeleteProject, CreateService, DeleteService, Outage, Recover,
         history, vars
<1> QED
  BY <1>1, <1>2, <1>3, <1>4 DEF Abstract!Next

\* The controller, with its caches, contexts, conflicts, crashes and lost
\* answers, implements DeploymentTrigger: it never triggers a generation that
\* was not wanted, nor an older one after a newer one.
THEOREM Refinement == Spec => ImplementsTrigger
<1>1. Init => Abstract!Init
  BY DEF Init, Abstract!Init, NewKsd, Stored
<1>2. Inv /\ [Next]_vars => [Abstract!Next]_(Abstract!vars)
  BY AbstractStep
<1> QED
  BY <1>1, <1>2, Invariance, PTL DEF Spec, ImplementsTrigger, Abstract!Spec

-----------------------------------------------------------------------------
(* One trace for each version, and one event for each generation, as long   *)
(* as nothing fails and the caches are fresh.                               *)

VersionOfEvent(e) == Plan[e.d][e.gen].version
JobVersion        == Plan[job.d][job.gen].version

\* The two objects the worker writes after its event.
WrittenContext == [job.view EXCEPT !.hash[StageOf[job.d]] = Plan[job.d][job.gen],
                                   !.kc = job.kc]
WrittenStatus  == [job.copy EXCEPT !.updatePending = FALSE, !.applied = job.gen]

\* Every object has one version, the cached and the stored one, and no
\* context waits for the garbage collector.
CalmState ==
  /\ orphans = {}
  /\ \A v \in Versions : Len(ctx[v]) = 1
  /\ \A d \in Deployments : Len(ksd[d]) = 1

\* The context of an event is the one its version's context object names, or
\* the one the worker is about to write there as the first.
Traced(e) ==
  LET trace == Stored(ctx[VersionOfEvent(e)]).kc IN
  /\ e.kc # 0
  /\ \/ trace = e.kc
     \/ /\ trace = 0
        /\ job.pc = "context"
        /\ JobVersion = VersionOfEvent(e)
        /\ job.kc = e.kc

\* What the worker is about to write continues what is stored.
JobIsCurrent ==
  job.pc = "context" =>
    /\ job.viewFresh
    /\ job.view = Stored(ctx[JobVersion])
    /\ job.view.exists
    /\ job.kc # 0
    /\ job.view.kc # 0 => job.kc = job.view.kc

MissingIsEmpty ==
  \A v \in Versions : ~Stored(ctx[v]).exists => Stored(ctx[v]) = NoContext

TraceInv == /\ CalmState
            /\ \A e \in events : Traced(e)
            /\ JobIsCurrent
            /\ MissingIsEmpty

\* An object with one version has it in the cache and on the server.
LEMMA SingleVersion ==
  ASSUME NEW S, NEW s \in Seq(S), Len(s) = 1
  PROVE  /\ Cached(s) = Stored(s)
         /\ InSync(s) = TRUE
         /\ Stored(s) \in S
BY DEF Stored, Cached, InSync

\* A fresh cache takes in a version as it is stored.
LEMMA PushSingle ==
  ASSUME MaxLag = 0, NEW S, NEW s \in Seq(S), Len(s) = 1, NEW x \in S
  PROVE  Len(Push(s, x)) = 1 /\ Stored(Push(s, x)) = x
<1>1. Tail(s) \in Seq(S) /\ Len(Tail(s)) = 0
  OBVIOUS
<1>2. Push(s, x) = Append(Tail(s), x)
  BY DEF Push
<1>3. ASSUME NEW t \in Seq(S), Len(t) = 0
      PROVE  Append(t, x)[1] = x /\ Len(Append(t, x)) = 1
  <2>1. Len(Append(t, x)) = Len(t) + 1 /\ Append(t, x)[Len(t) + 1] = x
    OBVIOUS
  <2>2. Len(t) + 1 = 1
    BY <1>3
  <2> QED
    BY <2>1, <2>2
<1> QED
  BY <1>1, <1>2, <1>3 DEF Stored

\* What the objects of a calm state are.
LEMMA CalmFacts ==
  ASSUME TypeOK, CalmState
  PROVE  /\ \A d \in Deployments :
              /\ ksd[d] \in Seq(KsdObjects(d)) /\ Len(ksd[d]) = 1
              /\ Cached(ksd[d]) = Stored(ksd[d])
              /\ InSync(ksd[d]) = TRUE
              /\ Stored(ksd[d]) \in KsdObjects(d)
              /\ Stored(ksd[d]).gen \in Generations(d)
              /\ Stored(ksd[d]).gen \in Nat
              /\ VersionOf(d) = Plan[d][Stored(ksd[d]).gen].version
              /\ VersionOf(d) \in Versions
         /\ \A v \in Versions :
              /\ ctx[v] \in Seq(ContextObjects) /\ Len(ctx[v]) = 1
              /\ Cached(ctx[v]) = Stored(ctx[v])
              /\ InSync(ctx[v]) = TRUE
              /\ Stored(ctx[v]) \in ContextObjects
<1>1. ASSUME NEW d \in Deployments
      PROVE  /\ ksd[d] \in Seq(KsdObjects(d)) /\ Len(ksd[d]) = 1
             /\ Cached(ksd[d]) = Stored(ksd[d])
             /\ InSync(ksd[d]) = TRUE
             /\ Stored(ksd[d]) \in KsdObjects(d)
             /\ Stored(ksd[d]).gen \in Generations(d)
             /\ Stored(ksd[d]).gen \in Nat
             /\ VersionOf(d) = Plan[d][Stored(ksd[d]).gen].version
             /\ VersionOf(d) \in Versions
  <2>1. ksd[d] \in Seq(KsdObjects(d)) /\ Len(ksd[d]) = 1
    BY DEF TypeOK, CalmState
  <2>2. /\ Cached(ksd[d]) = Stored(ksd[d])
        /\ InSync(ksd[d]) = TRUE
        /\ Stored(ksd[d]) \in KsdObjects(d)
    BY <2>1, SingleVersion
  <2>3. Stored(ksd[d]).gen \in Generations(d)
    BY <2>2 DEF KsdObjects
  <2> QED
    BY <2>1, <2>2, <2>3, CachedTypes DEF VersionOf, SpecOf, Generations
<1>2. ASSUME NEW v \in Versions
      PROVE  /\ ctx[v] \in Seq(ContextObjects) /\ Len(ctx[v]) = 1
             /\ Cached(ctx[v]) = Stored(ctx[v])
             /\ InSync(ctx[v]) = TRUE
             /\ Stored(ctx[v]) \in ContextObjects
  <2>1. ctx[v] \in Seq(ContextObjects) /\ Len(ctx[v]) = 1
    BY DEF TypeOK, CalmState
  <2> QED
    BY <2>1, SingleVersion
<1> QED
  BY <1>1, <1>2

\* Replacing the one version of a deployment object.
LEMMA WriteSingleKsd ==
  ASSUME MaxLag = 0, TypeOK, CalmState, NEW d \in Deployments,
         NEW object \in KsdObjects(d),
         ksd' = [ksd EXCEPT ![d] = Push(@, object)]
  PROVE  \A e \in Deployments :
              /\ Len(ksd'[e]) = 1
              /\ Stored(ksd'[e]) = IF e = d THEN object ELSE Stored(ksd[e])
<1>1. ksd[d] \in Seq(KsdObjects(d)) /\ Len(ksd[d]) = 1
  BY DEF TypeOK, CalmState
<1>2. Len(Push(ksd[d], object)) = 1 /\ Stored(Push(ksd[d], object)) = object
  BY <1>1, PushSingle
<1> QED
  BY <1>2 DEF TypeOK, CalmState

\* Likewise for a context.
LEMMA WriteSingleContext ==
  ASSUME MaxLag = 0, TypeOK, CalmState, NEW v \in Versions,
         NEW object \in ContextObjects,
         ctx' = [ctx EXCEPT ![v] = Push(@, object)]
  PROVE  \A w \in Versions :
              /\ Len(ctx'[w]) = 1
              /\ Stored(ctx'[w]) = IF w = v THEN object ELSE Stored(ctx[w])
<1>1. ctx[v] \in Seq(ContextObjects) /\ Len(ctx[v]) = 1
  BY DEF TypeOK, CalmState
<1>2. Len(Push(ctx[v], object)) = 1 /\ Stored(Push(ctx[v], object)) = object
  BY <1>1, PushSingle
<1> QED
  BY <1>2 DEF TypeOK, CalmState

\* In a calm state only these steps are possible without a fault.
LEMMA CalmSplit ==
  ASSUME CalmState, faults = 0, faults' = 0, [Next]_vars
  PROVE  \/ \E d \in Deployments :
              \/ ProjectMissing(d) \/ ProjectFound(d)
              \/ ServiceMissing(d) \/ ServiceFound(d)
              \/ CreateContext(d) \/ Trigger(d) \/ Edit(d)
         \/ WriteContext
         \/ WriteStatus
         \/ CreateProject
         \/ CreateService
         \/ Recover
         \/ UNCHANGED vars
<1>1. ~Fault
  BY DEF Fault
<1>2. \A d \in Deployments : ~TriggerAnswerLost(d) /\ ~SyncKsd(d)
  <2>1. ASSUME NEW d \in Deployments
        PROVE  ~(Len(ksd[d]) > 1)
    <3>1. Len(ksd[d]) = 1
      BY DEF CalmState
    <3> QED
      BY <3>1
  <2> QED
    BY <1>1, <2>1, Zenon DEF TriggerAnswerLost, SyncKsd
<1>3. \A v \in Versions : ~SyncContext(v) /\ ~CollectContext(v)
  <2>1. ASSUME NEW v \in Versions
        PROVE  ~(Len(ctx[v]) > 1)
    <3>1. Len(ctx[v]) = 1
      BY DEF CalmState
    <3> QED
      BY <3>1
  <2>2. \A v \in Versions : v \notin orphans
    BY DEF CalmState
  <2> QED
    BY <2>1, <2>2, Zenon DEF SyncContext, CollectContext
<1>4. ~Crash /\ ~DeleteProject /\ ~DeleteService /\ ~Outage
  BY <1>1 DEF Crash, DeleteProject, DeleteService, Outage
<1> QED
  BY <1>2, <1>3, <1>4 DEF Next, Reconcile

\* What the paths of Reconcile before the decision do to the status: only a
\* missing prerequisite sets updatePending.
LEMMA CalmWrite ==
  ASSUME MaxLag = 0, TypeOK, CalmState, NEW d \in Deployments,
         \/ ProjectMissing(d) \/ ProjectFound(d)
         \/ ServiceMissing(d) \/ ServiceFound(d)
  PROVE  /\ ~Busy
         /\ UNCHANGED <<project, service, api, ctx, orphans, job, events, faults>>
         /\ \A e \in Deployments :
              /\ Len(ksd'[e]) = 1
              /\ Stored(ksd'[e]).gen = Stored(ksd[e]).gen
              /\ project /\ service /\ api =>
                   Stored(ksd'[e]).updatePending = Stored(ksd[e]).updatePending
<1> DEFINE stored == Stored(ksd[d])
<1>1. Cached(ksd[d]) = stored /\ stored \in KsdObjects(d)
  BY CalmFacts
<1>2. ASSUME NEW object \in KsdObjects(d), WriteKsd(d, object), ~Busy,
             object.gen = stored.gen,
             project /\ service /\ api => object.updatePending = stored.updatePending
      PROVE  /\ UNCHANGED <<project, service, api, ctx, orphans, job, events, faults>>
             /\ \A e \in Deployments :
                  /\ Len(ksd'[e]) = 1
                  /\ Stored(ksd'[e]).gen = Stored(ksd[e]).gen
                  /\ project /\ service /\ api =>
                       Stored(ksd'[e]).updatePending = Stored(ksd[e]).updatePending
  <2>1. ksd' = [ksd EXCEPT ![d] = Push(@, object)]
    BY <1>2 DEF WriteKsd
  <2>2. \A e \in Deployments :
          /\ Len(ksd'[e]) = 1
          /\ Stored(ksd'[e]) = IF e = d THEN object ELSE Stored(ksd[e])
    BY <2>1, WriteSingleKsd
  <2>3. UNCHANGED <<project, service, api, ctx, orphans, job, events, faults>>
    BY <1>2 DEF WriteKsd, environment, history
  <2> QED
    BY <1>2, <2>2, <2>3
<1>3. CASE ProjectMissing(d)
  <2> DEFINE object == [stored EXCEPT !.projectExists = FALSE, !.updatePending = TRUE]
  <2>1. object \in KsdObjects(d) /\ object.gen = stored.gen
    BY <1>1 DEF KsdObjects
  <2>2. WriteKsd(d, object) /\ ~Busy /\ ~project
    BY <1>1, <1>3 DEF ProjectMissing
  <2> HIDE DEF object
  <2> QED
    BY <1>2, <2>1, <2>2
<1>4. CASE ProjectFound(d)
  <2> DEFINE object == [stored EXCEPT !.projectExists = TRUE]
  <2>1. object \in KsdObjects(d) /\ object.gen = stored.gen
        /\ object.updatePending = stored.updatePending
    BY <1>1 DEF KsdObjects
  <2>2. WriteKsd(d, object) /\ ~Busy
    BY <1>1, <1>4 DEF ProjectFound
  <2> HIDE DEF object
  <2> QED
    BY <1>2, <2>1, <2>2
<1>5. CASE ServiceMissing(d)
  <2> DEFINE object == [stored EXCEPT !.serviceExists = FALSE, !.updatePending = TRUE]
  <2>1. object \in KsdObjects(d) /\ object.gen = stored.gen
    BY <1>1 DEF KsdObjects
  <2>2. WriteKsd(d, object) /\ ~Busy /\ ~(service /\ api)
    BY <1>1, <1>5 DEF ServiceMissing, ServiceExists
  <2> HIDE DEF object
  <2> QED
    BY <1>2, <2>1, <2>2
<1>6. CASE ServiceFound(d)
  <2> DEFINE object == [stored EXCEPT !.serviceExists = TRUE]
  <2>1. object \in KsdObjects(d) /\ object.gen = stored.gen
        /\ object.updatePending = stored.updatePending
    BY <1>1 DEF KsdObjects
  <2>2. WriteKsd(d, object) /\ ~Busy
    BY <1>1, <1>6 DEF ServiceFound
  <2> HIDE DEF object
  <2> QED
    BY <1>2, <2>1, <2>2
<1>7. ~Busy
  BY DEF ProjectMissing, ProjectFound, ServiceMissing, ServiceFound
<1> QED
  BY <1>2, <1>3, <1>4, <1>5, <1>6, <1>7

\* Creating a context fills in the empty one of its version.
LEMMA CalmCreate ==
  ASSUME MaxLag = 0, TypeOK, CalmState, NEW d \in Deployments, CreateContext(d)
  PROVE  /\ ~Busy
         /\ UNCHANGED <<project, service, api, ksd, job, events, faults>>
         /\ orphans' = {}
         /\ VersionOf(d) \in Versions
         /\ ~Stored(ctx[VersionOf(d)]).exists
         /\ \A v \in Versions :
              /\ Len(ctx'[v]) = 1
              /\ Stored(ctx'[v]) = IF v = VersionOf(d) THEN NewContext ELSE Stored(ctx[v])
<1>1. VersionOf(d) \in Versions
  BY CalmFacts
<1>2. ctx' = [ctx EXCEPT ![VersionOf(d)] = Push(@, NewContext)]
  BY DEF CreateContext
<1>3. \A v \in Versions :
        /\ Len(ctx'[v]) = 1
        /\ Stored(ctx'[v]) = IF v = VersionOf(d) THEN NewContext ELSE Stored(ctx[v])
  BY <1>1, <1>2, WriteSingleContext, InitialObjects
<1>4. /\ ~Busy
      /\ UNCHANGED <<project, service, api, ksd, job, events, faults>>
      /\ orphans' = {}
      /\ ~Stored(ctx[VersionOf(d)]).exists
  BY DEF CreateContext, CalmState, environment, history
<1> QED
  BY <1>1, <1>3, <1>4

\* A trigger starts from the stored objects, and names the context the
\* context object names, or a new one.
LEMMA CalmTrigger ==
  ASSUME TypeOK, CalmState, faults = 0, faults' = 0,
         NEW d \in Deployments, Trigger(d)
  PROVE  /\ ~Busy
         /\ project /\ service /\ api
         /\ UNCHANGED <<project, service, api, ksd, ctx, orphans>>
         /\ Stored(ctx[VersionOf(d)]).exists
         /\ Needed(d, Stored(ctx[VersionOf(d)]))
         /\ \E kc \in Contexts :
              /\ kc # 0
              /\ Stored(ctx[VersionOf(d)]).kc # 0 => kc = Stored(ctx[VersionOf(d)]).kc
              /\ events' = events \cup {[d |-> d, gen |-> Stored(ksd[d]).gen, kc |-> kc]}
              /\ job' = [pc |-> "context", d |-> d, gen |-> Stored(ksd[d]).gen,
                         copy |-> Stored(ksd[d]), copyFresh |-> TRUE,
                         view |-> Stored(ctx[VersionOf(d)]), viewFresh |-> TRUE,
                         kc |-> kc]
<1> DEFINE object == Stored(ctx[VersionOf(d)])
<1>1. /\ VersionOf(d) \in Versions
      /\ Cached(ksd[d]) = Stored(ksd[d]) /\ InSync(ksd[d]) = TRUE
      /\ Cached(ctx[VersionOf(d)]) = object
      /\ InSync(ctx[VersionOf(d)]) = TRUE
  BY CalmFacts
<1>2. PICK view \in Views(d) :
        /\ Needed(d, view.object)
        /\ IF view.failed THEN Fault ELSE faults' = faults
        /\ Accept(d, Mint(view.object.kc))
        /\ job' = [pc |-> "context", d |-> d, gen |-> Cached(ksd[d]).gen,
                   copy |-> Cached(ksd[d]), copyFresh |-> InSync(ksd[d]),
                   view |-> view.object, viewFresh |-> view.fresh,
                   kc |-> Mint(view.object.kc)]
  BY DEF Trigger
<1>3. ~view.failed
  BY <1>2 DEF Fault
<1>4. view.object = object /\ view.fresh = TRUE /\ object.exists
  BY <1>1, <1>3 DEF Views
<1>5. object.kc \in Contexts /\ Mint(object.kc) \in Contexts
  BY <1>4, ViewTypes, MintType
<1>6. object.kc # 0 => Mint(object.kc) = object.kc
  BY DEF Mint
<1>7. Mint(object.kc) # 0
  <2>1. minted \in Nat /\ minted <= MaxContexts
    BY DeploymentAssumption DEF TypeOK, Contexts
  <2> QED
    BY <2>1, DeploymentAssumption DEF Mint
<1>8. events' = events \cup {[d |-> d, gen |-> Stored(ksd[d]).gen, kc |-> Mint(object.kc)]}
  BY <1>1, <1>2, <1>4 DEF Accept
<1>9. job' = [pc |-> "context", d |-> d, gen |-> Stored(ksd[d]).gen,
              copy |-> Stored(ksd[d]), copyFresh |-> TRUE,
              view |-> object, viewFresh |-> TRUE, kc |-> Mint(object.kc)]
  BY <1>1, <1>2, <1>4
<1>10. /\ ~Busy
       /\ project /\ service /\ api
       /\ UNCHANGED <<project, service, api, ksd, ctx, orphans>>
  BY DEF Trigger, ProjectKnown, ServiceKnown, ServiceExists, environment
<1>11. Needed(d, object)
  BY <1>2, <1>4
<1> HIDE DEF object
<1>12. \E kc \in Contexts :
         /\ kc # 0
         /\ object.kc # 0 => kc = object.kc
         /\ events' = events \cup {[d |-> d, gen |-> Stored(ksd[d]).gen, kc |-> kc]}
         /\ job' = [pc |-> "context", d |-> d, gen |-> Stored(ksd[d]).gen,
                    copy |-> Stored(ksd[d]), copyFresh |-> TRUE,
                    view |-> object, viewFresh |-> TRUE, kc |-> kc]
  BY <1>5, <1>6, <1>7, <1>8, <1>9
<1> QED
  BY <1>4, <1>10, <1>11, <1>12 DEF object

\* The worker's context is written, whether or not it differs from the stored
\* one.
LEMMA CalmContext ==
  ASSUME MaxLag = 0, TypeOK, CalmState, JobIsCurrent, faults = 0, faults' = 0,
         WriteContext
  PROVE  /\ Busy /\ job.pc = "context"
         /\ JobVersion \in Versions
         /\ job' = [job EXCEPT !.pc = "status"]
         /\ UNCHANGED <<project, service, api, ksd, orphans, events>>
         /\ \A v \in Versions :
              /\ Len(ctx'[v]) = 1
              /\ Stored(ctx'[v]) = IF v = JobVersion THEN WrittenContext
                                                     ELSE Stored(ctx[v])
<1>1. Busy /\ job.pc = "context" /\ job.viewFresh
  BY BusyPc DEF WriteContext, JobIsCurrent
<1>2. JobVersion \in Versions /\ WrittenContext \in ContextObjects
  BY <1>1, JobTypes, WrittenTypes DEF JobVersion, WrittenContext
<1>3. \/ WrittenContext = Stored(ctx[JobVersion]) /\ ctx' = ctx
      \/ ctx' = [ctx EXCEPT ![JobVersion] = Push(@, WrittenContext)]
  <2>1. ctx' = [ctx EXCEPT ![JobVersion] = IF WrittenContext = Stored(@) THEN @
                                           ELSE Push(@, WrittenContext)]
    BY <1>1 DEF WriteContext, Fault, JobVersion, WrittenContext
  <2>2. ctx = [ctx EXCEPT ![JobVersion] = @]
    BY DEF TypeOK
  <2> QED
    BY <2>1, <2>2
<1>4. \A v \in Versions :
        /\ Len(ctx'[v]) = 1
        /\ Stored(ctx'[v]) = IF v = JobVersion THEN WrittenContext ELSE Stored(ctx[v])
  <2>1. CASE WrittenContext = Stored(ctx[JobVersion]) /\ ctx' = ctx
    BY <2>1 DEF CalmState
  <2>2. CASE ctx' = [ctx EXCEPT ![JobVersion] = Push(@, WrittenContext)]
    BY <1>2, <2>2, WriteSingleContext
  <2> QED
    BY <1>3, <2>1, <2>2
<1>5. /\ job' = [job EXCEPT !.pc = "status"]
      /\ UNCHANGED <<project, service, api, ksd, orphans, events>>
  BY DEF WriteContext, environment, history
<1> QED
  BY <1>1, <1>2, <1>4, <1>5

\* The worker's status is written unless its copy is outdated.
LEMMA CalmStatus ==
  ASSUME MaxLag = 0, TypeOK, CalmState, faults = 0, faults' = 0, WriteStatus
  PROVE  /\ Busy /\ job.pc = "status"
         /\ job.d \in Deployments
         /\ job' = Idle
         /\ UNCHANGED <<project, service, api, ctx, orphans, events>>
         /\ \A d \in Deployments :
              /\ Len(ksd'[d]) = 1
              /\ Stored(ksd'[d]) = IF job.copyFresh /\ d = job.d THEN WrittenStatus
                                                                 ELSE Stored(ksd[d])
<1>1. Busy /\ job.pc = "status"
  BY BusyPc DEF WriteStatus
<1>2. job.d \in Deployments /\ WrittenStatus \in KsdObjects(job.d)
  BY <1>1, JobTypes, WrittenTypes DEF WrittenStatus
<1>3. CASE job.copyFresh
  <2>1. ksd' = [ksd EXCEPT ![job.d] = IF WrittenStatus = Stored(@) THEN @
                                      ELSE Push(@, WrittenStatus)]
    BY <1>3 DEF WriteStatus, Fault, WrittenStatus
  <2>2. \A d \in Deployments :
          /\ Len(ksd'[d]) = 1
          /\ Stored(ksd'[d]) = IF d = job.d THEN WrittenStatus ELSE Stored(ksd[d])
    <3>1. CASE WrittenStatus = Stored(ksd[job.d])
      <4>1. \A d \in Deployments : ksd'[d] = ksd[d]
        BY <2>1, <3>1 DEF TypeOK
      <4> QED
        BY <3>1, <4>1 DEF CalmState
    <3>2. CASE WrittenStatus # Stored(ksd[job.d])
      <4>1. ksd' = [ksd EXCEPT ![job.d] = Push(@, WrittenStatus)]
        BY <2>1, <3>2
      <4> QED
        BY <1>2, <4>1, WriteSingleKsd
    <3> QED
      BY <3>1, <3>2
  <2>3. ASSUME NEW d \in Deployments
        PROVE  Stored(ksd'[d]) = IF job.copyFresh /\ d = job.d THEN WrittenStatus
                                                               ELSE Stored(ksd[d])
    BY <1>3, <2>2, Zenon
  <2> QED
    BY <1>1, <1>2, <2>2, <2>3 DEF WriteStatus, environment, history
<1>4. CASE ~job.copyFresh
  <2>1. ksd' = ksd
    BY <1>4 DEF WriteStatus
  <2> QED
    BY <1>1, <1>2, <1>4, <2>1 DEF WriteStatus, CalmState, environment, history
<1> QED
  BY <1>3, <1>4

\* An edit raises the generation and makes the worker's copy of the object
\* outdated; the worker goes on as it was.
LEMMA CalmEdit ==
  ASSUME MaxLag = 0, TypeOK, CalmState, NEW d \in Deployments, Edit(d)
  PROVE  /\ UNCHANGED <<project, service, api, ctx, orphans, events, faults>>
         /\ ~Busy => job' = job
         /\ Busy => /\ Busy'
                    /\ job'.pc = job.pc /\ job'.d = job.d /\ job'.gen = job.gen
                    /\ job'.view = job.view /\ job'.viewFresh = job.viewFresh
                    /\ job'.kc = job.kc
                    /\ job'.copyFresh => job.copyFresh
                    /\ job.copyFresh /\ ~job'.copyFresh => job.d = d
         /\ \A e \in Deployments :
              /\ Len(ksd'[e]) = 1
              /\ e # d => Stored(ksd'[e]) = Stored(ksd[e])
         /\ Stored(ksd'[d]).gen = Stored(ksd[d]).gen + 1
<1> DEFINE newer == [Stored(ksd[d]) EXCEPT !.gen = @ + 1]
<1>1. newer \in KsdObjects(d) /\ newer.gen = Stored(ksd[d]).gen + 1
  BY CachedTypes DEF Edit, KsdObjects
<1>2. ksd' = [ksd EXCEPT ![d] = Push(@, newer)]
  BY DEF Edit
<1> HIDE DEF newer
<1>3. \A e \in Deployments :
        /\ Len(ksd'[e]) = 1
        /\ Stored(ksd'[e]) = IF e = d THEN newer ELSE Stored(ksd[e])
  BY <1>1, <1>2, WriteSingleKsd
<1>4. ~Busy => job' = job
  BY DEF Edit, TouchKsd
<1>5. ASSUME Busy
      PROVE  /\ Busy'
             /\ job'.pc = job.pc /\ job'.d = job.d /\ job'.gen = job.gen
             /\ job'.view = job.view /\ job'.viewFresh = job.viewFresh
             /\ job'.kc = job.kc
             /\ job'.copyFresh => job.copyFresh
             /\ job.copyFresh /\ ~job'.copyFresh => job.d = d
  <2>1. /\ job'.pc = job.pc /\ job'.d = job.d /\ job'.gen = job.gen
        /\ job'.view = job.view /\ job'.viewFresh = job.viewFresh
        /\ job'.kc = job.kc
        /\ job'.copyFresh => job.copyFresh
        /\ job.copyFresh /\ ~job'.copyFresh => job.d = d
    BY <1>5, JobTypes DEF Edit, TouchKsd, Jobs
  <2>2. job'.pc # "idle"
    BY <1>5, <2>1, JobTypes
  <2>3. Busy'
    BY <2>2 DEF Busy, Idle
  <2> QED
    BY <2>1, <2>3
<1>6. UNCHANGED <<project, service, api, ctx, orphans, events, faults>>
  BY DEF Edit, environment, history
<1> QED
  BY <1>1, <1>3, <1>4, <1>5, <1>6

\* Faults are only ever added.
LEMMA FaultsGrow ==
  ASSUME TypeOK, [Next]_vars, faults' = 0
  PROVE  faults = 0
<1>1. faults \in Nat
  BY DeploymentAssumption DEF TypeOK
<1>2. faults' = faults \/ faults' = faults + 1
  BY Zenon DEF Next, Reconcile, ProjectMissing, ProjectFound, ServiceMissing,
         ServiceFound, WriteKsd, CreateContext, Trigger, TriggerAnswerLost,
         SyncKsd, Edit, SyncContext, CollectContext, WriteContext, WriteStatus,
         Crash, CreateProject, DeleteProject, CreateService, DeleteService,
         Outage, Recover, Fault, vars
<1> QED
  BY <1>1, <1>2

\* Only a trigger puts the worker to work.
LEMMA JobBegins ==
  ASSUME [Next]_vars, ~Busy, Busy'
  PROVE  \E d \in Deployments : Trigger(d)
<1>1. job' # job /\ job' # Idle
  BY DEF Busy
<1>2. ~WriteContext /\ ~WriteStatus
  BY BusyPc DEF WriteContext, WriteStatus
<1> QED
  BY <1>1, <1>2, Zenon
     DEF Next, Reconcile, ProjectMissing, ProjectFound, ServiceMissing,
         ServiceFound, WriteKsd, CreateContext, TriggerAnswerLost, SyncKsd,
         Edit, SyncContext, CollectContext, TouchKsd, TouchContext, Crash,
         CreateProject, DeleteProject, CreateService, DeleteService, Outage,
         Recover, vars

\* What an accepted event names exists.
LEMMA EventTypes ==
  ASSUME TypeOK, NEW e \in events
  PROVE  /\ e.d \in Deployments
         /\ e.gen \in Generations(e.d)
         /\ e.gen \in Nat
         /\ StageOf[e.d] \in Stages
         /\ VersionOfEvent(e) \in Versions
         /\ Plan[e.d][e.gen] \in Specs
<1>1. e.d \in Deployments /\ e.gen \in Generations(e.d)
  BY DEF TypeOK, Events
<1> QED
  BY <1>1, PlanFacts DEF VersionOfEvent, Generations

\* Idle, the worker is about to write nothing.
LEMMA IdlePc ==
  ASSUME ~Busy
  PROVE  job.pc # "context" /\ job.pc # "status"
BY DEF Busy, Idle

\* Steps that leave events, contexts and what the worker holds alone keep the
\* trace.
LEMMA TraceKept ==
  ASSUME TypeOK, TraceInv, events' = events, ctx' = ctx, orphans' = orphans,
         \A d \in Deployments : Len(ksd'[d]) = 1,
         job'.pc = "context" <=> job.pc = "context",
         job.pc = "context" =>
           /\ job'.d = job.d /\ job'.gen = job.gen /\ job'.kc = job.kc
           /\ job'.view = job.view /\ job'.viewFresh = job.viewFresh
  PROVE  TraceInv'
<1>1. CalmState' /\ MissingIsEmpty'
  BY Zenon DEF TraceInv, CalmState, MissingIsEmpty
<1>2. JobIsCurrent'
  BY DEF TraceInv, JobIsCurrent, JobVersion
<1>3. ASSUME NEW e \in events
      PROVE  Traced(e)'
  BY DEF TraceInv, Traced, JobVersion, VersionOfEvent
<1> QED
  BY <1>1, <1>2, <1>3 DEF TraceInv

\* In a calm state without faults every event keeps its context traced.
LEMMA TraceStep ==
  ASSUME MaxLag = 0, TypeOK, CalmState, \A e \in events : Traced(e), JobIsCurrent,
         MissingIsEmpty, faults = 0, faults' = 0, [Next]_vars
  PROVE  TraceInv'
<1>1. ASSUME NEW d \in Deployments,
             \/ ProjectMissing(d) \/ ProjectFound(d)
             \/ ServiceMissing(d) \/ ServiceFound(d)
      PROVE  TraceInv'
  <2>1. /\ UNCHANGED <<ctx, orphans, job, events>>
        /\ \A e \in Deployments : Len(ksd'[e]) = 1
    BY <1>1, CalmWrite
  <2> QED
    BY <2>1, TraceKept DEF TraceInv
<1>2. ASSUME NEW d \in Deployments, CreateContext(d)
      PROVE  TraceInv'
  <2>1. /\ ~Busy /\ job' = job /\ events' = events /\ ksd' = ksd /\ orphans' = {}
        /\ VersionOf(d) \in Versions
        /\ ~Stored(ctx[VersionOf(d)]).exists
        /\ \A v \in Versions :
             /\ Len(ctx'[v]) = 1
             /\ Stored(ctx'[v]) = IF v = VersionOf(d) THEN NewContext ELSE Stored(ctx[v])
    BY <1>2, CalmCreate
  <2>2. job.pc # "context"
    BY <2>1, IdlePc
  <2>3. NewContext.kc = 0 /\ NewContext.exists /\ NoContext.kc = 0
    BY DEF NewContext, NoContext
  <2>4. \A v \in Versions : Stored(ctx'[v]).kc = Stored(ctx[v]).kc
    BY <2>1, <2>3 DEF MissingIsEmpty
  <2>5. CalmState'
    BY <2>1 DEF CalmState
  <2>6. MissingIsEmpty'
    BY <2>1, <2>3 DEF MissingIsEmpty
  <2>7. JobIsCurrent'
    BY <2>1, <2>2, Zenon DEF JobIsCurrent
  <2>8. ASSUME NEW e \in events
        PROVE  Traced(e)'
    <3>1. VersionOfEvent(e) \in Versions
      BY EventTypes
    <3> QED
      BY <2>1, <2>2, <2>4, <3>1 DEF Traced, VersionOfEvent
  <2> QED
    BY <2>1, <2>5, <2>6, <2>7, <2>8 DEF TraceInv
<1>3. ASSUME NEW d \in Deployments, Trigger(d)
      PROVE  TraceInv'
  <2> DEFINE object == Stored(ctx[VersionOf(d)])
             gen == Stored(ksd[d]).gen
  <2>1. ~Busy /\ UNCHANGED <<ksd, ctx, orphans>> /\ object.exists
    BY <1>3, CalmTrigger
  <2>2. PICK kc \in Contexts :
          /\ kc # 0
          /\ object.kc # 0 => kc = object.kc
          /\ events' = events \cup {[d |-> d, gen |-> gen, kc |-> kc]}
          /\ job' = [pc |-> "context", d |-> d, gen |-> gen,
                     copy |-> Stored(ksd[d]), copyFresh |-> TRUE,
                     view |-> object, viewFresh |-> TRUE, kc |-> kc]
    BY <1>3, CalmTrigger
  <2>3. VersionOf(d) = Plan[d][gen].version
    BY CalmFacts
  <2>4. /\ job'.pc = "context" /\ job'.kc = kc /\ JobVersion' = VersionOf(d)
        /\ job'.view = object /\ job'.viewFresh
    BY <2>2, <2>3 DEF JobVersion
  <2>5. CalmState' /\ MissingIsEmpty'
    BY <2>1, Zenon DEF CalmState, MissingIsEmpty
  <2>6. JobIsCurrent'
    BY <2>1, <2>2, <2>4 DEF JobIsCurrent
  <2>7. ASSUME NEW e \in events
        PROVE  Traced(e)'
    BY <2>1, IdlePc DEF Traced, VersionOfEvent
  <2>8. ASSUME NEW e, e = [d |-> d, gen |-> gen, kc |-> kc]
        PROVE  Traced(e)'
    <3>1. e.kc = kc /\ VersionOfEvent(e) = VersionOf(d)
      BY <2>3, <2>8 DEF VersionOfEvent
    <3>2. Stored(ctx'[VersionOfEvent(e)]) = object
      BY <2>1, <3>1
    <3> HIDE DEF object
    <3> QED
      BY <2>2, <2>4, <3>1, <3>2 DEF Traced, VersionOfEvent
  <2>9. \A e \in events' : Traced(e)'
    BY <2>2, <2>7, <2>8
  <2> QED
    BY <2>5, <2>6, <2>9 DEF TraceInv
<1>4. ASSUME NEW d \in Deployments, Edit(d)
      PROVE  TraceInv'
  <2>1. /\ UNCHANGED <<ctx, orphans, events>>
        /\ ~Busy => job' = job
        /\ Busy => /\ job'.pc = job.pc /\ job'.d = job.d /\ job'.gen = job.gen
                   /\ job'.view = job.view /\ job'.viewFresh = job.viewFresh
                   /\ job'.kc = job.kc
        /\ \A e \in Deployments : Len(ksd'[e]) = 1
    BY <1>4, CalmEdit
  <2> QED
    BY <2>1, TraceKept DEF TraceInv
<1>5. CASE WriteContext
  <2>1. /\ Busy /\ job.pc = "context"
        /\ JobVersion \in Versions
        /\ job' = [job EXCEPT !.pc = "status"]
        /\ UNCHANGED <<ksd, orphans, events>>
        /\ \A v \in Versions :
             /\ Len(ctx'[v]) = 1
             /\ Stored(ctx'[v]) = IF v = JobVersion THEN WrittenContext
                                                    ELSE Stored(ctx[v])
    BY <1>5, CalmContext
  <2>2. job'.pc = "status"
    BY <2>1, JobTypes DEF Jobs
  <2>3. /\ job.view = Stored(ctx[JobVersion]) /\ job.view.exists /\ job.kc # 0
        /\ job.view.kc # 0 => job.kc = job.view.kc
    BY <2>1 DEF JobIsCurrent
  <2>4. WrittenContext.kc = job.kc /\ WrittenContext.exists
    BY <2>1, <2>3, JobTypes DEF WrittenContext, ContextObjects
  <2>5. CalmState' /\ MissingIsEmpty'
    BY <2>1, <2>4 DEF CalmState, MissingIsEmpty
  <2>6. JobIsCurrent'
    BY <2>2 DEF JobIsCurrent
  <2>7. ASSUME NEW e \in events
        PROVE  Traced(e)'
    <3>1. VersionOfEvent(e) \in Versions /\ Traced(e)
      BY EventTypes
    <3>2. CASE VersionOfEvent(e) = JobVersion
      <4>1. e.kc # 0 /\ job.kc = e.kc
        BY <2>3, <3>1, <3>2 DEF Traced
      <4>2. Stored(ctx'[VersionOfEvent(e)]).kc = job.kc
        BY <2>1, <2>4, <3>1, <3>2
      <4> QED
        BY <4>1, <4>2, Zenon DEF Traced, VersionOfEvent
    <3>3. CASE VersionOfEvent(e) # JobVersion
      <4>1. Stored(ctx'[VersionOfEvent(e)]) = Stored(ctx[VersionOfEvent(e)])
        BY <2>1, <3>1, <3>3
      <4> QED
        BY <3>1, <3>3, <4>1, Zenon DEF Traced, VersionOfEvent
    <3> QED
      BY <3>2, <3>3
  <2> QED
    BY <2>1, <2>5, <2>6, <2>7 DEF TraceInv
<1>6. CASE WriteStatus
  <2>1. /\ job.pc = "status" /\ job' = Idle
        /\ UNCHANGED <<ctx, orphans, events>>
        /\ \A d \in Deployments : Len(ksd'[d]) = 1
    BY <1>6, CalmStatus
  <2>2. job.pc # "context" /\ job'.pc # "context"
    BY <2>1 DEF Idle
  <2> QED
    BY <2>1, <2>2, TraceKept DEF TraceInv
<1>7. ASSUME UNCHANGED <<ksd, ctx, orphans, job, events>>
      PROVE  TraceInv'
  <2>1. \A d \in Deployments : Len(ksd'[d]) = 1
    BY <1>7 DEF CalmState
  <2> QED
    BY <1>7, <2>1, TraceKept DEF TraceInv
<1>8. CASE CreateProject \/ CreateService \/ Recover \/ UNCHANGED vars
  BY <1>7, <1>8 DEF CreateProject, CreateService, Recover, vars, history
<1> QED
  BY <1>1, <1>2, <1>3, <1>4, <1>5, <1>6, <1>8, CalmSplit

\* In the beginning there is nothing to trace.
LEMMA TraceInit == Init => TraceInv
<1> SUFFICES ASSUME Init
             PROVE  TraceInv
  OBVIOUS
<1>1. CalmState
  BY DEF Init, CalmState
<1>2. JobIsCurrent /\ \A e \in events : Traced(e)
  BY DEF Init, JobIsCurrent, Idle
<1>3. MissingIsEmpty
  BY DEF Init, MissingIsEmpty, Stored
<1> QED
  BY <1>1, <1>2, <1>3 DEF TraceInv

TraceWhileCalm == faults = 0 => TraceInv

\* Where the caches are fresh, all events of a version carry one context as
\* long as there is no fault, whatever the stages and however specs are
\* edited: the first context is recorded before another event can be sent.
THEOREM TracesAreOne ==
  ASSUME MaxLag = 0
  PROVE  Spec => [](faults = 0 => OneTracePerVersion)
<1>1. Init => TraceWhileCalm
  BY TraceInit DEF TraceWhileCalm
<1>2. Inv /\ TraceWhileCalm /\ [Next]_vars => TraceWhileCalm'
  <2> SUFFICES ASSUME Inv, TraceWhileCalm, [Next]_vars, faults' = 0
               PROVE  TraceInv'
    BY DEF TraceWhileCalm
  <2>1. faults = 0
    BY FaultsGrow DEF Inv
  <2> QED
    BY <2>1, TraceStep DEF TraceWhileCalm, TraceInv, Inv
<1>3. Inv /\ TraceWhileCalm => (faults = 0 => OneTracePerVersion)
  <2> SUFFICES ASSUME TraceInv, NEW e \in events, NEW f \in events,
                      VersionOfEvent(e) = VersionOfEvent(f)
               PROVE  e.kc = f.kc
    BY DEF TraceWhileCalm, OneTracePerVersion, VersionOfEvent
  <2> QED
    BY DEF TraceInv, Traced
<1> QED
  BY <1>1, <1>2, <1>3, Invariance, PTL DEF Spec

\* In particular where nothing fails at all.
THEOREM OneTrace ==
  ASSUME MaxLag = 0, MaxFaults = 0
  PROVE  Spec => []OneTracePerVersion
<1>1. Inv => faults = 0
  BY DEF Inv, TypeOK
<1> QED
  BY <1>1, Invariance, TracesAreOne, PTL

\* No two deployments share a stage.
StagesDiffer == \A d, e \in Deployments : StageOf[d] = StageOf[e] => d = e

\* The context of an event's version has the spec of the event for its stage.
Served(e) ==
  Stored(ctx[VersionOfEvent(e)]).hash[StageOf[e.d]] = Plan[e.d][e.gen]

\* Once an event was sent nothing it needs is missing, so nothing makes an
\* update pending.
NothingMissing == events # {} => project /\ service /\ api

\* No event is ahead of its object, nor of the worker; the worker's copy is
\* outdated only by a newer generation.
NothingAhead ==
  /\ \A e \in events : e.gen <= Stored(ksd[e.d]).gen
  /\ Busy => \A e \in events : e.d = job.d => e.gen <= job.gen
  /\ Busy /\ ~job.copyFresh => job.gen < Stored(ksd[job.d]).gen

\* The event of the stored generation is on the worker's desk, or recorded
\* and done.
Working(e) == /\ Busy /\ job.d = e.d /\ job.gen = e.gen
              /\ job.pc = "status" => Served(e)
Done(e)    == Served(e) /\ ~Stored(ksd[e.d]).updatePending

OnceInv == /\ NothingMissing
           /\ NothingAhead
           /\ \A e \in events : e.gen = Stored(ksd[e.d]).gen => Working(e) \/ Done(e)

\* A generation with an event is not triggered again.
LEMMA NoSecondEvent ==
  ASSUME Inv, TraceInv, OnceInv, faults = 0, faults' = 0,
         NEW d \in Deployments, Trigger(d),
         NEW e \in events, e.d = d
  PROVE  e.gen # Stored(ksd[d]).gen
<1> SUFFICES ASSUME e.gen = Stored(ksd[d]).gen
             PROVE  FALSE
  OBVIOUS
<1>1. ~Busy /\ Needed(d, Stored(ctx[VersionOf(d)]))
  BY CalmTrigger DEF Inv, TraceInv
<1>2. Done(e)
  BY <1>1 DEF OnceInv, Working
<1>3. Cached(ksd[d]) = Stored(ksd[d]) /\ VersionOf(d) = VersionOfEvent(e)
      /\ SpecOf(d) = Plan[e.d][e.gen]
  BY CalmFacts DEF Inv, TraceInv, VersionOfEvent, SpecOf
<1> QED
  BY <1>1, <1>2, <1>3 DEF Needed, Done, Served

\* In a calm state without faults the record of every sent generation is kept.
LEMMA OnceStep ==
  ASSUME StagesDiffer, MaxLag = 0, TypeOK, JobFollowsEvent, CalmState,
         JobIsCurrent, MissingIsEmpty, OnceInv, faults = 0, faults' = 0,
         [Next]_vars
  PROVE  OnceInv'
<1>0. \A e \in events :
        /\ e.d \in Deployments /\ e.gen \in Nat
        /\ VersionOfEvent(e) \in Versions
        /\ Stored(ksd[e.d]).gen \in Nat
  BY EventTypes, CalmFacts
<1>1. ASSUME NEW d \in Deployments,
             \/ ProjectMissing(d) \/ ProjectFound(d)
             \/ ServiceMissing(d) \/ ServiceFound(d)
      PROVE  OnceInv'
  <2>1. /\ ~Busy
        /\ UNCHANGED <<project, service, api, ctx, orphans, job, events, faults>>
        /\ \A e \in Deployments :
             /\ Stored(ksd'[e]).gen = Stored(ksd[e]).gen
             /\ project /\ service /\ api =>
                  Stored(ksd'[e]).updatePending = Stored(ksd[e]).updatePending
    BY <1>1, CalmWrite
  <2>2. NothingMissing'
    BY <2>1 DEF OnceInv, NothingMissing
  <2>3. ~Busy'
    BY <2>1, Zenon DEF Busy
  <2>4. NothingAhead'
    BY <1>0, <2>1, <2>3, Zenon DEF OnceInv, NothingAhead
  <2>5. ASSUME NEW e \in events, e.gen = Stored(ksd'[e.d]).gen
        PROVE  Done(e)'
    <3>1. e.gen = Stored(ksd[e.d]).gen
      BY <1>0, <2>1, <2>5
    <3>2. Done(e)
      BY <2>1, <3>1 DEF OnceInv, Working
    <3>3. project /\ service /\ api
      BY DEF OnceInv, NothingMissing
    <3>4. Stored(ksd'[e.d]).updatePending = Stored(ksd[e.d]).updatePending
      BY <1>0, <2>1, <3>3
    <3> QED
      BY <2>1, <3>2, <3>4 DEF Done, Served, VersionOfEvent
  <2> QED
    BY <2>1, <2>2, <2>4, <2>5 DEF OnceInv
<1>2. ASSUME NEW d \in Deployments, CreateContext(d)
      PROVE  OnceInv'
  <2>1. /\ ~Busy
        /\ UNCHANGED <<project, service, api, ksd, job, events, faults>>
        /\ VersionOf(d) \in Versions
        /\ ~Stored(ctx[VersionOf(d)]).exists
        /\ \A v \in Versions :
             Stored(ctx'[v]) = IF v = VersionOf(d) THEN NewContext ELSE Stored(ctx[v])
    BY <1>2, CalmCreate
  <2>2. ~Busy'
    BY <2>1, Zenon DEF Busy
  <2>3. NothingMissing' /\ NothingAhead'
    BY <2>1, <2>2, Zenon DEF OnceInv, NothingMissing, NothingAhead
  <2>4. ASSUME NEW e \in events, e.gen = Stored(ksd[e.d]).gen
        PROVE  Done(e)'
    <3>1. Done(e)
      BY <2>1, <2>4 DEF OnceInv, Working
    <3>2. Stored(ctx[VersionOf(d)]) = NoContext
      BY <2>1 DEF MissingIsEmpty
    <3>3. VersionOfEvent(e) # VersionOf(d)
      <4>1. Plan[e.d][e.gen] # NoHash /\ StageOf[e.d] \in Stages
        BY EventTypes, DeploymentAssumption
      <4> QED
        BY <3>1, <3>2, <4>1 DEF Done, Served, NoContext
    <3> QED
      BY <1>0, <2>1, <3>1, <3>3 DEF Done, Served, VersionOfEvent
  <2> QED
    BY <2>1, <2>3, <2>4 DEF OnceInv
<1>3. ASSUME NEW d \in Deployments, Trigger(d)
      PROVE  OnceInv'
  <2> DEFINE object == Stored(ctx[VersionOf(d)])
             gen == Stored(ksd[d]).gen
  <2>1. /\ ~Busy /\ project /\ service /\ api
        /\ UNCHANGED <<project, service, api, ksd, ctx, orphans>>
    BY <1>3, CalmTrigger
  <2>2. PICK kc \in Contexts :
          /\ events' = events \cup {[d |-> d, gen |-> gen, kc |-> kc]}
          /\ job' = [pc |-> "context", d |-> d, gen |-> gen,
                     copy |-> Stored(ksd[d]), copyFresh |-> TRUE,
                     view |-> object, viewFresh |-> TRUE, kc |-> kc]
    BY <1>3, CalmTrigger
  <2>3. /\ job'.pc = "context" /\ job'.d = d /\ job'.gen = gen /\ job'.copyFresh
        /\ gen \in Nat
    BY <2>2, CalmFacts, Zenon
  <2>4. Busy'
    BY <2>3 DEF Busy, Idle
  <2>5. NothingMissing'
    BY <2>1 DEF NothingMissing
  <2>6. NothingAhead'
    BY <1>0, <2>1, <2>2, <2>3 DEF OnceInv, NothingAhead
  <2>7. ASSUME NEW e \in events, e.gen = Stored(ksd[e.d]).gen
        PROVE  Done(e)'
    BY <2>1, <2>7, Zenon DEF OnceInv, Working, Done, Served, VersionOfEvent
  <2>8. ASSUME NEW e, e = [d |-> d, gen |-> gen, kc |-> kc]
        PROVE  Working(e)'
    BY <2>3, <2>4, <2>8 DEF Working
  <2> QED
    BY <2>1, <2>2, <2>5, <2>6, <2>7, <2>8 DEF OnceInv
<1>4. ASSUME NEW d \in Deployments, Edit(d)
      PROVE  OnceInv'
  <2>1. /\ UNCHANGED <<project, service, api, ctx, orphans, events, faults>>
        /\ ~Busy => job' = job
        /\ Busy => /\ Busy'
                   /\ job'.pc = job.pc /\ job'.d = job.d /\ job'.gen = job.gen
                   /\ job'.copyFresh => job.copyFresh
                   /\ job.copyFresh /\ ~job'.copyFresh => job.d = d
        /\ \A e \in Deployments : e # d => Stored(ksd'[e]) = Stored(ksd[e])
        /\ Stored(ksd'[d]).gen = Stored(ksd[d]).gen + 1
    BY <1>4, CalmEdit
  <2>2. Busy' <=> Busy
    BY <2>1, Zenon DEF Busy
  <2>3. NothingMissing'
    BY <2>1 DEF OnceInv, NothingMissing
  <2>4. Stored(ksd[d]).gen \in Nat
    BY CalmFacts
  <2>5. \A e \in events : e.gen <= Stored(ksd'[e.d]).gen
    BY <1>0, <2>1, <2>4 DEF OnceInv, NothingAhead
  <2>6. Busy' => \A e \in events' : e.d = job'.d => e.gen <= job'.gen
    BY <2>1, <2>2 DEF OnceInv, NothingAhead
  <2>7. ASSUME Busy, ~job'.copyFresh
        PROVE  job.gen < Stored(ksd'[job.d]).gen
    <3>1. job.d \in Deployments /\ job.gen \in Nat /\ Stored(ksd[job.d]).gen \in Nat
      <4>1. job.d \in Deployments /\ job.gen \in 1..Len(Plan[job.d])
        BY <2>7, JobTypes DEF Generations
      <4>2. job.gen \in Nat
        BY <4>1, PlanFacts
      <4> QED
        BY <4>1, <4>2, CalmFacts
    <3>2. CASE job.copyFresh
      <4>1. job.d = d /\ Stored(ksd[d]).gen = job.gen
        BY <2>1, <2>7, <3>2 DEF JobFollowsEvent
      <4> QED
        BY <2>1, <3>1, <4>1
    <3>3. CASE ~job.copyFresh
      <4>1. job.gen < Stored(ksd[job.d]).gen
        BY <2>7, <3>3 DEF OnceInv, NothingAhead
      <4> QED
        BY <2>1, <3>1, <4>1
    <3> QED
      BY <3>2, <3>3
  <2>8. NothingAhead'
    BY <2>1, <2>2, <2>5, <2>6, <2>7 DEF NothingAhead
  <2>9. ASSUME NEW e \in events, e.gen = Stored(ksd'[e.d]).gen
        PROVE  Working(e)' \/ Done(e)'
    <3>1. e.d # d
      BY <1>0, <2>1, <2>4, <2>9 DEF OnceInv, NothingAhead
    <3>2. Stored(ksd'[e.d]) = Stored(ksd[e.d])
      BY <1>0, <2>1, <3>1
    <3>3. Working(e) \/ Done(e)
      BY <2>9, <3>2 DEF OnceInv
    <3>4. Served(e)' <=> Served(e)
      BY <2>1 DEF Served, VersionOfEvent
    <3> QED
      BY <2>1, <2>2, <3>2, <3>3, <3>4 DEF Working, Done
  <2> QED
    BY <2>1, <2>3, <2>8, <2>9 DEF OnceInv
<1>5. CASE WriteContext
  <2>1. /\ Busy /\ job.pc = "context"
        /\ JobVersion \in Versions
        /\ job' = [job EXCEPT !.pc = "status"]
        /\ UNCHANGED <<project, service, api, ksd, orphans, events>>
        /\ \A v \in Versions :
             Stored(ctx'[v]) = IF v = JobVersion THEN WrittenContext
                                                 ELSE Stored(ctx[v])
    BY <1>5, CalmContext
  <2>2. /\ job'.pc = "status" /\ job'.d = job.d /\ job'.gen = job.gen
        /\ job'.copyFresh = job.copyFresh
    BY <2>1, JobTypes DEF Jobs
  <2>3. Busy'
    BY <2>2 DEF Busy, Idle
  <2>4. NothingMissing' /\ NothingAhead'
    BY <2>1, <2>2, <2>3 DEF OnceInv, NothingMissing, NothingAhead
  <2>5. /\ job.d \in Deployments /\ job.gen \in Nat
        /\ StageOf[job.d] \in Stages
    BY <2>1, JobTypes, PlanFacts DEF Generations
  <2>6. \A s \in Stages :
          WrittenContext.hash[s] = IF s = StageOf[job.d] THEN Plan[job.d][job.gen]
                                   ELSE Stored(ctx[JobVersion]).hash[s]
    <3>1. job.view = Stored(ctx[JobVersion]) /\ job.view \in ContextObjects
      BY <2>1, JobTypes DEF JobIsCurrent
    <3> QED
      BY <2>5, <3>1 DEF WrittenContext, ContextObjects
  <2>7. job.gen <= Stored(ksd[job.d]).gen
    <3>1. PICK e \in events : e.d = job.d /\ e.gen = job.gen
      BY <2>1 DEF JobFollowsEvent
    <3> QED
      BY <3>1 DEF OnceInv, NothingAhead
  <2>8. ASSUME NEW e \in events, e.gen = Stored(ksd[e.d]).gen
        PROVE  Working(e)' \/ Done(e)'
    <3>1. Working(e) \/ Done(e)
      BY <2>8 DEF OnceInv
    <3>2. StageOf[e.d] \in Stages /\ VersionOfEvent(e) \in Versions
      BY EventTypes
    <3>3. CASE job.d = e.d /\ job.gen = e.gen
      <4>1. VersionOfEvent(e) = JobVersion
        BY <3>3 DEF VersionOfEvent, JobVersion
      <4>2. Stored(ctx'[VersionOfEvent(e)]) = WrittenContext
        BY <2>1, <4>1
      <4>3. Served(e)'
        BY <2>6, <3>2, <3>3, <4>2, Zenon DEF Served, VersionOfEvent
      <4> QED
        BY <2>2, <2>3, <3>3, <4>3 DEF Working
    <3>4. CASE ~(job.d = e.d /\ job.gen = e.gen)
      <4>1. Done(e)
        BY <3>1, <3>4 DEF Working
      <4>2. e.d # job.d
        <5>1. e.d = job.d => e.gen <= job.gen
          BY <2>1 DEF OnceInv, NothingAhead
        <5> QED
          BY <1>0, <2>5, <2>7, <2>8, <3>4, <5>1
      <4>3. StageOf[e.d] # StageOf[job.d]
        BY <1>0, <2>5, <4>2 DEF StagesDiffer
      <4>4. Stored(ctx'[VersionOfEvent(e)]).hash[StageOf[e.d]]
              = Stored(ctx[VersionOfEvent(e)]).hash[StageOf[e.d]]
        BY <2>1, <2>6, <3>2, <4>3
      <4> QED
        BY <2>1, <4>1, <4>4 DEF Done, Served, VersionOfEvent
    <3> QED
      BY <3>3, <3>4
  <2> QED
    BY <2>1, <2>4, <2>8 DEF OnceInv
<1>6. CASE WriteStatus
  <2>1. /\ Busy /\ job.pc = "status"
        /\ job.d \in Deployments
        /\ job' = Idle
        /\ UNCHANGED <<project, service, api, ctx, orphans, events>>
        /\ \A d \in Deployments :
             Stored(ksd'[d]) = IF job.copyFresh /\ d = job.d THEN WrittenStatus
                                                             ELSE Stored(ksd[d])
    BY <1>6, CalmStatus
  <2>2. WrittenStatus.gen = job.gen /\ WrittenStatus.updatePending = FALSE
    <3>1. job.copy \in KsdObjects(job.d) /\ job.copy.gen = job.gen
      BY <2>1, JobTypes DEF JobFollowsEvent
    <3> QED
      BY <3>1 DEF WrittenStatus, KsdObjects
  <2>3. \A d \in Deployments : Stored(ksd'[d]).gen = Stored(ksd[d]).gen
    BY <2>1, <2>2 DEF JobFollowsEvent
  <2>4. ~Busy'
    BY <2>1, Zenon DEF Busy
  <2>5. NothingMissing' /\ NothingAhead'
    BY <1>0, <2>1, <2>3, <2>4 DEF OnceInv, NothingMissing, NothingAhead
  <2>6. ASSUME NEW e \in events, e.gen = Stored(ksd'[e.d]).gen
        PROVE  Done(e)'
    <3>1. e.gen = Stored(ksd[e.d]).gen
      BY <1>0, <2>3, <2>6
    <3>2. Working(e) \/ Done(e)
      BY <3>1 DEF OnceInv
    <3>3. Served(e)
      BY <2>1, <3>2 DEF Working, Done
    <3>4. Served(e)'
      BY <2>1, <3>3 DEF Served, VersionOfEvent
    <3>5. ~Stored(ksd'[e.d]).updatePending
      <4>1. CASE Done(e)
        BY <1>0, <2>1, <2>2, <4>1 DEF Done
      <4>2. CASE Working(e)
        <5>1. job.d = e.d /\ job.gen = e.gen
          BY <4>2 DEF Working
        <5>2. job.copyFresh
          BY <1>0, <2>1, <3>1, <5>1 DEF OnceInv, NothingAhead
        <5> QED
          BY <2>1, <2>2, <5>1, <5>2
      <4> QED
        BY <3>2, <4>1, <4>2
    <3> QED
      BY <3>4, <3>5 DEF Done
  <2> QED
    BY <2>1, <2>5, <2>6 DEF OnceInv
<1>7. ASSUME UNCHANGED <<ksd, ctx, orphans, job, events>>,
             project /\ service /\ api => project' /\ service' /\ api'
      PROVE  OnceInv'
  <2>1. Busy' <=> Busy
    BY <1>7, Zenon DEF Busy
  <2>2. \A e : (Working(e)' <=> Working(e)) /\ (Done(e)' <=> Done(e))
    BY <1>7, <2>1 DEF Working, Done, Served, VersionOfEvent
  <2>3. NothingMissing' /\ NothingAhead'
    BY <1>7, <2>1, Zenon DEF OnceInv, NothingMissing, NothingAhead
  <2> QED
    BY <1>7, <2>2, <2>3, Zenon DEF OnceInv
<1>8. CASE CreateProject \/ CreateService \/ Recover \/ UNCHANGED vars
  BY <1>7, <1>8 DEF CreateProject, CreateService, Recover, vars, history
<1> QED
  BY <1>1, <1>2, <1>3, <1>4, <1>5, <1>6, <1>8, CalmSplit

\* Without faults and with fresh caches no generation is triggered twice.  The
\* stages must differ: deployments of one stage overwrite each other's hash.
THEOREM NoGenerationTwice ==
  ASSUME MaxLag = 0, MaxFaults = 0, StagesDiffer
  PROVE  Spec => TriggeredOnce
<1>1. Init => TraceInv /\ OnceInv
  <2> SUFFICES ASSUME Init
               PROVE  TraceInv /\ OnceInv
    OBVIOUS
  <2>1. TraceInv
    BY TraceInit
  <2>2. OnceInv
    BY DEF Init, OnceInv, NothingMissing, NothingAhead, Busy
  <2> QED
    BY <2>1, <2>2
<1>2. Inv => faults = 0
  BY DEF Inv, TypeOK
<1>3. Inv /\ Inv' /\ TraceInv /\ OnceInv /\ [Next]_vars => TraceInv' /\ OnceInv'
  <2> SUFFICES ASSUME Inv, Inv', TraceInv, OnceInv, [Next]_vars
               PROVE  TraceInv' /\ OnceInv'
    OBVIOUS
  <2>1. faults = 0 /\ faults' = 0
    BY <1>2 DEF Inv, TypeOK
  <2> QED
    BY <2>1, TraceStep, OnceStep DEF Inv, TraceInv
<1>4. Inv /\ Inv' /\ TraceInv /\ OnceInv /\ [Next]_vars
        => [~Busy /\ Busy' => \A e \in events : e.d = job'.d => e.gen # job'.gen]_vars
  <2> SUFFICES ASSUME Inv, Inv', TraceInv, OnceInv, [Next]_vars, ~Busy, Busy',
                      NEW e \in events, e.d = job'.d
               PROVE  e.gen # job'.gen
    OBVIOUS
  <2>1. faults = 0 /\ faults' = 0
    BY <1>2 DEF Inv, TypeOK
  <2>2. PICK d \in Deployments : Trigger(d)
    BY JobBegins
  <2>3. job'.d = d /\ job'.gen = Stored(ksd[d]).gen
    BY <2>1, <2>2, CalmTrigger DEF Inv, TraceInv
  <2> QED
    BY <2>1, <2>2, <2>3, NoSecondEvent
<1> QED
  BY <1>1, <1>3, <1>4, Invariance, PTL DEF Spec, TriggeredOnce

-----------------------------------------------------------------------------
(* What is skipped is deployed.                                            *)

\* No later generation takes a spec back to an earlier one.
NoGenerationReturns == \A d \in Deployments : \A g1, g2, g3 \in Generations(d) :
  g1 < g2 /\ g2 < g3 /\ Plan[d][g1] = Plan[d][g3] => Plan[d][g2] = Plan[d][g1]

\* A spec that a context records, stored or in any version a cache may serve,
\* is what Keptn was last asked to deploy: the controller may skip it.
SkippedIsDeployed ==
  \A d \in Deployments : \A v \in Versions : \A i \in 1..Len(ctx[v]) :
    ctx[v][i].hash[StageOf[d]] = SpecOf(d) => LastSpec(d) = SpecOf(d)

\* The last event of a deployment is the newest.
EventsPast == \A e \in events : e.gen <= last[e.d]

LEMMA PastStep ==
  ASSUME Inv, EventsPast, [Next]_vars
  PROVE  EventsPast'
<1>1. ASSUME NEW d \in Deployments, NEW kc, Accept(d, kc)
      PROVE  EventsPast'
  <2>1. /\ last[d] \in Nat /\ Cached(ksd[d]).gen \in Nat
        /\ last[d] <= Cached(ksd[d]).gen
    BY EndsCovered, PlanFacts DEF Inv, TypeOK, CacheMovesForward, Generations
  <2>2. \A e \in Deployments : last'[e] = IF e = d THEN Cached(ksd[d]).gen ELSE last[e]
    BY <1>1 DEF Accept, Inv, TypeOK
  <2>3. ASSUME NEW e \in events
        PROVE  e.gen <= last'[e.d]
    <3>1. e.d \in Deployments /\ e.gen \in Nat /\ e.gen <= last[e.d]
      BY EventTypes, PlanFacts DEF Inv, EventsPast, Generations
    <3> QED
      BY <2>1, <2>2, <3>1
  <2>4. events' = events \cup {[d |-> d, gen |-> Cached(ksd[d]).gen, kc |-> kc]}
    BY <1>1 DEF Accept
  <2> QED
    BY <2>1, <2>2, <2>3, <2>4 DEF EventsPast
<1>2. CASE \E d \in Deployments : Trigger(d) \/ TriggerAnswerLost(d)
  BY <1>1, <1>2 DEF Trigger, TriggerAnswerLost
<1>3. CASE events' = events /\ last' = last
  BY <1>3 DEF EventsPast
<1> QED
  BY <1>2, <1>3, Zenon
     DEF Next, Reconcile, ProjectMissing, ProjectFound, ServiceMissing,
         ServiceFound, WriteKsd, CreateContext, SyncKsd, Edit, SyncContext,
         CollectContext, WriteContext, WriteStatus, Crash, CreateProject,
         DeleteProject, CreateService, DeleteService, Outage, Recover,
         history, vars

\* The event that a recorded spec was sent with lies between two generations
\* of one spec, and so does the last.
LEMMA SkippedFacts ==
  ASSUME StagesDiffer, NoGenerationReturns, Inv, EventsPast
  PROVE  SkippedIsDeployed
<1> SUFFICES ASSUME NEW d \in Deployments, NEW v \in Versions, NEW i \in 1..Len(ctx[v]),
                    ctx[v][i].hash[StageOf[d]] = SpecOf(d)
             PROVE  LastSpec(d) = SpecOf(d)
  BY DEF SkippedIsDeployed
<1> DEFINE cached == Cached(ksd[d]).gen
<1>1. cached \in Generations(d) /\ SpecOf(d) = Plan[d][cached]
  BY CachedTypes DEF Inv, KsdObjects, SpecOf
<1>2. SpecOf(d) # NoHash /\ StageOf[d] \in Stages
  BY <1>1, PlanFacts, DeploymentAssumption DEF Stages
<1>3. PICK e \in events : StageOf[e.d] = StageOf[d] /\ Plan[e.d][e.gen] = SpecOf(d)
  BY <1>2 DEF Inv, RecordedWasSent, ContextCovered
<1>4. e.d = d /\ e.gen \in Generations(d)
  BY <1>3, EventTypes DEF Inv, StagesDiffer
<1>5. e.gen <= last[d] /\ last[d] <= cached /\ last[d] \in {0} \cup Generations(d)
  BY <1>4 DEF Inv, TypeOK, EventsPast, CacheMovesForward
<1> HIDE DEF cached
<1>6. /\ last[d] \in Generations(d) /\ last[d] # 0
      /\ e.gen \in Nat /\ last[d] \in Nat /\ cached \in Nat
  BY <1>1, <1>4, <1>5, PlanFacts DEF Generations
<1>7. Plan[d][last[d]] = Plan[d][cached]
  <2>1. Plan[d][e.gen] = Plan[d][cached]
    BY <1>1, <1>3, <1>4
  <2>2. e.gen = last[d] \/ last[d] = cached \/ (e.gen < last[d] /\ last[d] < cached)
    BY <1>5, <1>6
  <2>3. CASE e.gen < last[d] /\ last[d] < cached
    <3>1. Plan[d][last[d]] = Plan[d][e.gen]
      BY <1>1, <1>4, <1>6, <2>1, <2>3 DEF NoGenerationReturns
    <3> QED
      BY <2>1, <3>1
  <2> QED
    BY <2>1, <2>2, <2>3
<1> QED
  BY <1>1, <1>6, <1>7 DEF LastSpec

\* A deployment the controller skips for its hash is the one Keptn was last
\* asked for, through stale caches, conflicts, crashes and lost answers; no
\* two deployments may share a stage and no spec may return, for then the
\* code does skip what is not deployed.
THEOREM NothingIsMissed ==
  ASSUME StagesDiffer, NoGenerationReturns
  PROVE  Spec => []SkippedIsDeployed
<1>1. Init => EventsPast
  BY DEF Init, EventsPast
<1>2. Inv /\ EventsPast /\ [Next]_vars => EventsPast'
  BY PastStep
<1>3. Inv /\ EventsPast => SkippedIsDeployed
  BY SkippedFacts
<1> QED
  BY <1>1, <1>2, <1>3, Invariance, PTL DEF Spec
=============================================================================
