----------------------- MODULE PromotionServiceProofs -----------------------
(***************************************************************************)
(* Theorems about PromotionService, for any number of promotions, retries  *)
(* and disturbances.                                                       *)
(***************************************************************************)
EXTENDS PromotionService, PromotedFilesProofs

\* What a handler has reported at each of its phases, and that it reports a
\* pass only after its commit.
ReportsFollowPhase ==
  \A p \in Promotions :
    /\ pc[p] \in {"idle", "waiting", "starting"} => reports[p] = <<>>
    /\ pc[p] \in (Working \ {"starting"}) \cup {"panicked"}
         => reports[p] = <<"started">>
    /\ pc[p] = "passing" => Promoted(p)

\* As long as a handler may still try, its last attempt is not used up.
AttemptsLeft ==
  \A p \in Promotions :
    pc[p] \in {"idle", "waiting", "starting", "checking", "tag", "branch", "push"}
      => attempts[p] <= Retries

\* The inductive invariant.
Inv == TypeOK /\ Serialised /\ ReportsFollowPhase /\ AttemptsLeft

\* The phases are distinct strings: a handler that works has not ended.
LEMMA PhaseFacts ==
  /\ Working \subseteq Phases
  /\ Working \cap (Ended \cup {"idle", "waiting"}) = {}
  /\ NoOne \notin Promotions
BY PromotionAssumption DEF Working, Phases, Ended

\* A branch that grows by one commit keeps the earlier ones, and contains the
\* commits of the old branch and the new one (Commit, KeptnPush).
LEMMA Appended ==
  ASSUME NEW S, NEW s \in Seq(S), NEW x \in S
  PROVE  /\ Append(s, x) \in Seq(S)
         /\ SubSeq(Append(s, x), 1, Len(s)) = s
         /\ \A y : (\E i \in 1..Len(Append(s, x)) : Append(s, x)[i] = y)
                     <=> (y = x \/ \E i \in 1..Len(s) : s[i] = y)
<1>1. Append(s, x) \in Seq(S) /\ Len(Append(s, x)) = Len(s) + 1
  OBVIOUS
<1>2. /\ \A i \in 1..Len(s) : Append(s, x)[i] = s[i]
      /\ Append(s, x)[Len(s) + 1] = x
  OBVIOUS
<1>3. SubSeq(Append(s, x), 1, Len(s)) = s
  <2> DEFINE t == SubSeq(Append(s, x), 1, Len(s))
  <2>1. t \in Seq(S) /\ Len(t) = Len(s)
    BY <1>1
  <2>2. \A i \in 1..Len(s) : t[i] = s[i]
    BY <1>1, <1>2
  <2> QED
    BY <2>1, <2>2
<1>4. ASSUME NEW y
      PROVE  (\E i \in 1..Len(Append(s, x)) : Append(s, x)[i] = y)
               <=> (y = x \/ \E i \in 1..Len(s) : s[i] = y)
  <2>1. 1..Len(Append(s, x)) = 1..Len(s) \cup {Len(s) + 1}
    BY <1>1
  <2> QED
    BY <2>1, <1>2
<1> QED
  BY <1>1, <1>3, <1>4

-----------------------------------------------------------------------------
(* Type correctness.                                                       *)

\* The initial states have the types.
LEMMA InitTypes == Init => TypeOK
<1> SUFFICES ASSUME Init PROVE TypeOK
  OBVIOUS
<1>1. branch \in [Stages -> Seq(Authors)]
  <2>1. <<>> \in Seq(Authors) /\ <<Keptn>> \in Seq(Authors)
    BY DEF Authors
  <2>2. branch \in [Stages -> {<<>>, <<Keptn>>}]
    BY DEF Init
  <2> QED
    BY <2>1, <2>2
<1> QED
  BY <1>1, PromotionAssumption DEF Init, TypeOK, Phases

\* No stage has a promotion at first, whether it has a branch or not.
LEMMA InitialBranch == Init => \A p \in Promotions : ~Promoted(p)
<1> SUFFICES ASSUME Init, NEW p \in Promotions, Promoted(p) PROVE FALSE
  OBVIOUS
<1>1. branch[StageOf[p]] \in {<<>>, <<Keptn>>}
  BY DEF Init, Stages
<1>2. CASE branch[StageOf[p]] = <<>>
  BY <1>2 DEF Promoted
<1>3. CASE branch[StageOf[p]] = <<Keptn>>
  BY <1>3, PromotionAssumption DEF Promoted
<1> QED
  BY <1>1, <1>2, <1>3

\* The three ways a step moves a handler keep the types of pc and holder.
LEMMA MoveTypes ==
  ASSUME TypeOK, NEW p \in Promotions
  PROVE  /\ \A phase \in Phases : Goto(p, phase) =>
              pc' \in [Promotions -> Phases] /\ holder' \in Promotions \cup {NoOne}
         /\ Return(p) =>
              pc' \in [Promotions -> Phases] /\ holder' \in Promotions \cup {NoOne}
         /\ Panic(p) =>
              pc' \in [Promotions -> Phases] /\ holder' \in Promotions \cup {NoOne}
BY DEF TypeOK, Goto, Return, Panic, Phases, Working, Ended

\* A failed attempt is counted, up to one more than the retries.
LEMMA AttemptTypes ==
  ASSUME TypeOK, NEW p \in Promotions, pc[p] \in {"tag", "branch", "push"},
         attempts[p] <= Retries, AttemptFails(p)
  PROVE  /\ pc' \in [Promotions -> Phases]
         /\ holder' \in Promotions \cup {NoOne}
         /\ attempts' \in [Promotions -> 0..Retries + 1]
         /\ base' \in [Promotions -> Nat]
BY PromotionAssumption
   DEF TypeOK, AttemptFails, Goto, Phases, Working, Ended

\* The events Keptn receives have their type (Receive, SendFails).
LEMMA ReceiveTypes ==
  ASSUME TypeOK, NEW p \in Promotions,
         NEW event \in {"started", "pass", "fail"}, Receive(p, event)
  PROVE  reports' \in [Promotions -> Seq({"started", "pass", "fail"})]
<1> DEFINE E == {"started", "pass", "fail"}
<1>1. reports[p] \in Seq(E)
  BY DEF TypeOK
<1>2. Append(reports[p], event) \in Seq(E)
  BY <1>1
<1> HIDE DEF E
<1>3. reports \in [Promotions -> Seq(E)]
  BY DEF TypeOK, E
<1>4. reports' \in [Promotions -> Seq(E)]
  BY <1>2, <1>3 DEF Receive
<1> QED
  BY <1>4 DEF E

\* A branch that gets a commit keeps its type (Commit, KeptnPush).
LEMMA BranchTypes ==
  ASSUME TypeOK, NEW s \in Stages, NEW a \in Authors,
         branch' = [branch EXCEPT ![s] = Append(@, a)]
  PROVE  branch' \in [Stages -> Seq(Authors)]
<1>1. branch[s] \in Seq(Authors)
  BY DEF TypeOK
<1>2. Append(branch[s], a) \in Seq(Authors)
  BY <1>1
<1> QED
  BY <1>2 DEF TypeOK

\* Every disturbance is counted, up to the bound.
LEMMA DisturbTypes ==
  ASSUME TypeOK, NEW kind, Disturb(kind)
  PROVE  disturbances' \in 0..MaxDisturbances
BY PromotionAssumption DEF TypeOK, Disturb

\* Every step keeps the types.
LEMMA TypeStep ==
  ASSUME TypeOK, AttemptsLeft, Next
  PROVE  TypeOK'
<1>1. ASSUME NEW p \in Promotions, Deliver(p) \/ Lock(p)
      PROVE  TypeOK'
  BY <1>1 DEF Deliver, Lock, TypeOK, work, repository, Phases, Working
<1>2. ASSUME NEW p \in Promotions, \/ RejectPayload(p) \/ Validate(p)
                                   \/ DecryptionPanics(p) \/ CloneTag(p)
      PROVE  TypeOK'
  <2>1. pc' \in [Promotions -> Phases] /\ holder' \in Promotions \cup {NoOne}
    BY <1>2, MoveTypes
       DEF RejectPayload, Validate, DecryptionPanics, CloneTag, Phases, Working
  <2> QED
    BY <1>2, <2>1 DEF RejectPayload, Validate, DecryptionPanics, CloneTag, TypeOK,
                      work, repository
<1>3. ASSUME NEW p \in Promotions, SendStarted(p) \/ SendFailed(p) \/ SendPassed(p)
      PROVE  TypeOK'
  <2>1. pc' \in [Promotions -> Phases] /\ holder' \in Promotions \cup {NoOne}
    BY <1>3, MoveTypes
       DEF SendStarted, SendFailed, SendPassed, SendFails, Phases, Working
  <2>2. reports' \in [Promotions -> Seq({"started", "pass", "fail"})]
    <3>1. \/ \E event \in {"started", "pass", "fail"} : Receive(p, event)
          \/ reports' = reports
      BY <1>3 DEF SendStarted, SendFailed, SendPassed, SendFails
    <3> QED
      BY <3>1, ReceiveTypes DEF TypeOK
  <2>3. disturbances' \in 0..MaxDisturbances
    BY <1>3, DisturbTypes
       DEF SendStarted, SendFailed, SendPassed, SendFails, TypeOK
  <2> QED
    BY <1>3, <2>1, <2>2, <2>3
       DEF SendStarted, SendFailed, SendPassed, TypeOK, work, repository
<1>4. ASSUME NEW p \in Promotions,
             \/ TagMissing(p) \/ BranchMissing(p) \/ PushRejected(p)
             \/ PushAnswerLost(p) \/ CallFails(p)
      PROVE  TypeOK'
  <2>1. pc[p] \in {"tag", "branch", "push"} /\ AttemptFails(p)
    BY <1>4 DEF TagMissing, BranchMissing, PushRejected, PushAnswerLost, CallFails
  <2>2. attempts[p] <= Retries
    BY <2>1 DEF AttemptsLeft
  <2>3. /\ pc' \in [Promotions -> Phases]
        /\ holder' \in Promotions \cup {NoOne}
        /\ attempts' \in [Promotions -> 0..Retries + 1]
        /\ base' \in [Promotions -> Nat]
    BY <2>1, <2>2, AttemptTypes
  <2>4. branch' \in [Stages -> Seq(Authors)]
    <3>1. StageOf[p] \in Stages /\ p \in Authors
      BY DEF Stages, Authors
    <3>2. branch' = branch \/ Commit(p)
      BY <1>4 DEF TagMissing, BranchMissing, PushRejected, PushAnswerLost,
                  CallFails, repository
    <3> QED
      BY <3>1, <3>2, BranchTypes DEF Commit, TypeOK
  <2>5. disturbances' \in 0..MaxDisturbances
    BY <1>4, DisturbTypes
       DEF TagMissing, BranchMissing, PushRejected, PushAnswerLost, CallFails,
           TypeOK
  <2>6. tags' = tags /\ reports' = reports
    BY <1>4 DEF TagMissing, BranchMissing, PushRejected, PushAnswerLost, CallFails,
                repository
  <2>7. unanswered' \subseteq Promotions
    BY <1>4 DEF TagMissing, BranchMissing, PushRejected, PushAnswerLost, CallFails,
                repository, TypeOK
  <2> QED
    BY <2>3, <2>4, <2>5, <2>6, <2>7 DEF TypeOK
<1>5. ASSUME NEW p \in Promotions, CloneBranch(p)
      PROVE  TypeOK'
  <2>1. pc' \in [Promotions -> Phases] /\ holder' \in Promotions \cup {NoOne}
    BY <1>5, MoveTypes DEF CloneBranch, Phases, Working
  <2>2. Len(branch[StageOf[p]]) \in Nat
    BY DEF TypeOK, Stages
  <2> QED
    BY <1>5, <2>1, <2>2 DEF CloneBranch, TypeOK, repository
<1>6. ASSUME NEW p \in Promotions, Push(p)
      PROVE  TypeOK'
  <2>1. pc' \in [Promotions -> Phases] /\ holder' \in Promotions \cup {NoOne}
    BY <1>6, MoveTypes DEF Push, Succeed, Phases, Working
  <2>2. branch' \in [Stages -> Seq(Authors)]
    BY <1>6, BranchTypes DEF Push, Commit, Stages, Authors
  <2> QED
    BY <1>6, <2>1, <2>2 DEF Push, TypeOK, work
<1>7. ASSUME Crash
      PROVE  TypeOK'
  <2>1. disturbances' \in 0..MaxDisturbances
    BY <1>7, DisturbTypes DEF Crash
  <2> QED
    BY <1>7, <2>1 DEF Crash, TypeOK, work, repository, Phases, Ended
<1>8. ASSUME NEW s \in Stages, KeptnPush(s)
      PROVE  TypeOK'
  <2>1. branch' \in [Stages -> Seq(Authors)]
    BY <1>8, BranchTypes DEF KeptnPush, Authors
  <2>2. disturbances' \in 0..MaxDisturbances
    BY <1>8, DisturbTypes DEF KeptnPush
  <2> QED
    BY <1>8, <2>1, <2>2 DEF KeptnPush, TypeOK, work
<1>9. ASSUME NEW t \in Tags, ReplaceTag(t)
      PROVE  TypeOK'
  <2>1. disturbances' \in 0..MaxDisturbances
    BY <1>9, DisturbTypes DEF ReplaceTag
  <2> QED
    BY <1>9, <2>1 DEF ReplaceTag, TypeOK, work
<1> QED
  BY <1>1, <1>2, <1>3, <1>4, <1>5, <1>6, <1>7, <1>8, <1>9 DEF Next, Handle

-----------------------------------------------------------------------------
(* The mutex, the attempts and the reports.                                *)

\* Every step keeps the attempts in bounds (AttemptFails, Validate, Lock).
LEMMA AttemptsStep ==
  ASSUME TypeOK, AttemptsLeft, Next
  PROVE  AttemptsLeft'
<1>1. ASSUME NEW p \in Promotions,
             \/ TagMissing(p) \/ BranchMissing(p) \/ PushRejected(p)
             \/ PushAnswerLost(p) \/ CallFails(p)
      PROVE  AttemptsLeft'
  <2>1. AttemptFails(p)
    BY <1>1 DEF TagMissing, BranchMissing, PushRejected, PushAnswerLost, CallFails
  <2> QED
    BY <2>1, PromotionAssumption DEF TypeOK, AttemptsLeft, AttemptFails, Goto
<1>2. ASSUME NEW p \in Promotions,
             \/ Deliver(p) \/ Lock(p) \/ RejectPayload(p) \/ Validate(p)
             \/ DecryptionPanics(p) \/ CloneTag(p) \/ CloneBranch(p) \/ Push(p)
      PROVE  AttemptsLeft'
  BY <1>2 DEF Deliver, Lock, RejectPayload, Validate, DecryptionPanics, CloneTag,
              CloneBranch, Push, Succeed, Panic, Goto, Return, TypeOK, AttemptsLeft,
              work
<1>3. ASSUME NEW p \in Promotions, SendStarted(p) \/ SendFailed(p) \/ SendPassed(p)
      PROVE  AttemptsLeft'
  BY <1>3 DEF SendStarted, SendFailed, SendPassed, SendFails, Goto, Return,
              TypeOK, AttemptsLeft, work
<1>4. ASSUME \/ Crash
             \/ \E s \in Stages : KeptnPush(s)
             \/ \E t \in Tags : ReplaceTag(t)
      PROVE  AttemptsLeft'
  BY <1>4 DEF Crash, KeptnPush, ReplaceTag, TypeOK, AttemptsLeft, work
<1> QED
  BY <1>1, <1>2, <1>3, <1>4 DEF Next, Handle

\* Every step keeps the mutex: it is given to one waiter when it is free, the
\* handler that holds it is the one that moves, and only a return frees it.
LEMMA SerialisedStep ==
  ASSUME TypeOK, Serialised, Next
  PROVE  Serialised'
<1> USE PhaseFacts
<1>1. ASSUME NEW p \in Promotions, Deliver(p) \/ Lock(p)
      PROVE  Serialised'
  BY <1>1 DEF Deliver, Lock, Serialised, TypeOK, Working
<1>2. ASSUME NEW p \in Promotions, pc[p] \in Working,
             \/ \E phase \in Working \cup {"panicked"} : Goto(p, phase)
             \/ Return(p)
      PROVE  Serialised'
  BY <1>2 DEF Goto, Return, Serialised, TypeOK, Working
<1>3. ASSUME NEW p \in Promotions, Handle(p)
      PROVE  Serialised'
  <2>1. pc[p] \in Working
    BY <1>3 DEF Handle, Working, RejectPayload, SendStarted, Validate,
                DecryptionPanics, CloneTag, TagMissing, CloneBranch, BranchMissing,
                Push, PushRejected, PushAnswerLost, CallFails, SendFailed,
                SendPassed
  <2>2. \/ \E phase \in Working \cup {"panicked"} : Goto(p, phase)
        \/ Return(p)
    BY <1>3 DEF Handle, Working, RejectPayload, SendStarted, Validate,
                DecryptionPanics, CloneTag, TagMissing, CloneBranch, BranchMissing,
                Push, PushRejected, PushAnswerLost, CallFails, SendFailed,
                SendPassed, SendFails, AttemptFails, Succeed, Panic
  <2> QED
    BY <2>1, <2>2, <1>2
<1>4. ASSUME Crash
      PROVE  Serialised'
  BY <1>4 DEF Crash, Serialised, TypeOK, Working
<1>5. ASSUME \/ \E s \in Stages : KeptnPush(s)
             \/ \E t \in Tags : ReplaceTag(t)
      PROVE  Serialised'
  BY <1>5 DEF KeptnPush, ReplaceTag, Serialised
<1> QED
  BY <1>1, <1>3, <1>4, <1>5 DEF Next

\* A commit by a to the branch of s promotes a, if a is promoted to s, and
\* nobody else (Commit, KeptnPush).
LEMMA PromotedGrows ==
  ASSUME TypeOK, NEW s \in Stages, NEW a \in Authors,
         branch' = [branch EXCEPT ![s] = Append(@, a)]
  PROVE  /\ SubSeq(branch'[s], 1, Len(branch[s])) = branch[s]
         /\ \A p \in Promotions :
              Promoted(p)' <=> (Promoted(p) \/ (StageOf[p] = s /\ p = a))
<1>1. branch[s] \in Seq(Authors) /\ branch'[s] = Append(branch[s], a)
  BY DEF TypeOK
<1>2. /\ SubSeq(branch'[s], 1, Len(branch[s])) = branch[s]
      /\ \A y : (\E i \in 1..Len(branch'[s]) : branch'[s][i] = y)
                  <=> (y = a \/ \E i \in 1..Len(branch[s]) : branch[s][i] = y)
  BY <1>1, Appended
<1>3. ASSUME NEW p \in Promotions
      PROVE  Promoted(p)' <=> (Promoted(p) \/ (StageOf[p] = s /\ p = a))
  <2>1. CASE StageOf[p] = s
    BY <2>1, <1>2 DEF Promoted
  <2>2. CASE StageOf[p] # s
    <3>1. branch'[StageOf[p]] = branch[StageOf[p]]
      BY <2>2 DEF TypeOK, Stages
    <3> QED
      BY <2>2, <3>1 DEF Promoted
  <2> QED
    BY <2>1, <2>2
<1> QED
  BY <1>2, <1>3

\* What a step does to the stage branches: nothing, or one commit.
LEMMA BranchSteps ==
  ASSUME Next
  PROVE  \/ branch' = branch
         \/ \E s \in Stages, a \in Authors :
              /\ branch' = [branch EXCEPT ![s] = Append(@, a)]
              /\ a # Keptn => pc[a] = "push" /\ StageOf[a] = s
<1>1. ASSUME NEW p \in Promotions, Push(p) \/ PushAnswerLost(p)
      PROVE  /\ StageOf[p] \in Stages /\ p \in Authors /\ pc[p] = "push"
             /\ branch' = [branch EXCEPT ![StageOf[p]] = Append(@, p)]
  BY <1>1 DEF Push, PushAnswerLost, Commit, Stages, Authors
<1>2. ASSUME NEW s \in Stages, KeptnPush(s)
      PROVE  Keptn \in Authors /\ branch' = [branch EXCEPT ![s] = Append(@, Keptn)]
  BY <1>2 DEF KeptnPush, Authors
<1>3. ASSUME NEW p \in Promotions, Deliver(p) \/ Lock(p)
      PROVE  branch' = branch
  BY <1>3 DEF Deliver, Lock, repository
<1>4. ASSUME NEW p \in Promotions, Handle(p), ~Push(p), ~PushAnswerLost(p)
      PROVE  branch' = branch
  BY <1>4 DEF Handle, RejectPayload, SendStarted, Validate, DecryptionPanics,
              CloneTag, TagMissing, CloneBranch, BranchMissing, PushRejected,
              CallFails, SendFailed, SendPassed, repository
<1>5. ASSUME Crash \/ \E t \in Tags : ReplaceTag(t)
      PROVE  branch' = branch
  BY <1>5 DEF Crash, ReplaceTag, repository
<1> QED
  BY <1>1, <1>2, <1>3, <1>4, <1>5 DEF Next

\* No step takes a promotion back.
LEMMA PromotedStays ==
  ASSUME TypeOK, Next, NEW p \in Promotions, Promoted(p)
  PROVE  Promoted(p)'
<1>1. CASE branch' = branch
  BY <1>1 DEF Promoted
<1>2. ASSUME NEW s \in Stages, NEW a \in Authors,
             branch' = [branch EXCEPT ![s] = Append(@, a)]
      PROVE  Promoted(p)'
  BY <1>2, PromotedGrows
<1> QED
  BY <1>1, <1>2, BranchSteps

\* Every step keeps reports and phases in agreement: a handler that moves on
\* has reported what its next phase requires, and has committed before it
\* reports a pass (SendStarted, Push, Succeed).
LEMMA ReportsStep ==
  ASSUME TypeOK, ReportsFollowPhase, Next
  PROVE  ReportsFollowPhase'
<1> DEFINE Fits(p) ==
      /\ pc[p] \in {"idle", "waiting", "starting"} => reports[p] = <<>>
      /\ pc[p] \in (Working \ {"starting"}) \cup {"panicked"}
           => reports[p] = <<"started">>
      /\ pc[p] = "passing" => Promoted(p)
<1>1. ASSUME NEW p \in Promotions, NEW phase \in Phases,
             pc' = [pc EXCEPT ![p] = phase],
             \A q \in Promotions \ {p} : reports'[q] = reports[q],
             Fits(p)'
      PROVE  ReportsFollowPhase'
  <2>1. ASSUME NEW q \in Promotions \ {p}
        PROVE  pc'[q] = pc[q] /\ reports'[q] = reports[q] /\ (Promoted(q) => Promoted(q)')
    BY <1>1, PromotedStays DEF TypeOK
  <2>2. ASSUME NEW q \in Promotions \ {p}
        PROVE  Fits(q)'
    BY <2>1, <2>2 DEF ReportsFollowPhase
  <2> QED
    BY <1>1, <2>2 DEF ReportsFollowPhase
<1>2. ASSUME NEW p \in Promotions, Deliver(p) \/ Lock(p)
      PROVE  ReportsFollowPhase'
  <2>1. \E phase \in {"waiting", "starting"} : pc' = [pc EXCEPT ![p] = phase]
    BY <1>2 DEF Deliver, Lock
  <2>2. reports' = reports /\ reports[p] = <<>>
    BY <1>2 DEF Deliver, Lock, ReportsFollowPhase
  <2>3. Fits(p)'
    BY <2>1, <2>2 DEF TypeOK, Working
  <2> QED
    BY <1>1, <2>1, <2>2, <2>3 DEF Phases, Working
<1>3. ASSUME NEW p \in Promotions, RejectPayload(p) \/ SendFailed(p) \/ SendPassed(p)
                                   \/ SendStarted(p)
      PROVE  ReportsFollowPhase'
  <2>1. \A q \in Promotions \ {p} : reports'[q] = reports[q]
    BY <1>3 DEF RejectPayload, SendFailed, SendPassed, SendStarted, SendFails,
                Receive, TypeOK
  <2>2. CASE Return(p)
    <3>1. pc' = [pc EXCEPT ![p] = "done"] /\ Fits(p)'
      BY <2>2 DEF Return, TypeOK, Working
    <3> QED
      BY <1>1, <2>1, <3>1 DEF Phases, Ended
  <2>3. CASE ~Return(p)
    <3>1. SendStarted(p) /\ Receive(p, "started") /\ Goto(p, "checking")
      BY <1>3, <2>3 DEF RejectPayload, SendFailed, SendPassed, SendStarted, SendFails
    <3>2. reports[p] = <<>> /\ pc' = [pc EXCEPT ![p] = "checking"]
      BY <3>1 DEF SendStarted, Goto, ReportsFollowPhase
    <3>3. reports'[p] = <<"started">>
      BY <3>1, <3>2 DEF Receive, TypeOK
    <3>4. Fits(p)'
      BY <3>2, <3>3 DEF TypeOK, Working
    <3> QED
      BY <1>1, <2>1, <3>2, <3>4 DEF Phases, Working
  <2> QED
    BY <2>2, <2>3
<1>4. ASSUME NEW p \in Promotions,
             \/ Validate(p) \/ DecryptionPanics(p) \/ CloneTag(p) \/ CloneBranch(p)
             \/ TagMissing(p) \/ BranchMissing(p) \/ PushRejected(p)
             \/ PushAnswerLost(p) \/ CallFails(p)
      PROVE  ReportsFollowPhase'
  <2>1. reports' = reports /\ pc[p] \in Working \ {"starting"}
    BY <1>4 DEF Validate, DecryptionPanics, CloneTag, CloneBranch, TagMissing,
                BranchMissing, PushRejected, PushAnswerLost, CallFails, Working
  <2>2. \E phase \in {"tag", "branch", "push", "failed", "panicked"} :
          pc' = [pc EXCEPT ![p] = phase]
    BY <1>4 DEF Validate, DecryptionPanics, CloneTag, CloneBranch, TagMissing,
                BranchMissing, PushRejected, PushAnswerLost, CallFails,
                AttemptFails, Panic, Goto
  <2>3. Fits(p)'
    BY <2>1, <2>2 DEF TypeOK, ReportsFollowPhase
  <2> QED
    BY <1>1, <2>1, <2>2, <2>3 DEF Phases, Working, Ended
<1>5. ASSUME NEW p \in Promotions, Push(p)
      PROVE  ReportsFollowPhase'
  <2>1. reports' = reports /\ reports[p] = <<"started">>
    BY <1>5 DEF Push, ReportsFollowPhase, Working
  <2>2. \E phase \in {"passing", "panicked"} : pc' = [pc EXCEPT ![p] = phase]
    BY <1>5 DEF Push, Succeed, Panic, Goto
  <2>3. Promoted(p)'
    <3>1. StageOf[p] \in Stages /\ p \in Authors
      BY DEF Stages, Authors
    <3> QED
      BY <1>5, <3>1, PromotedGrows DEF Push, Commit
  <2>4. Fits(p)'
    BY <2>1, <2>2, <2>3 DEF TypeOK
  <2> QED
    BY <1>1, <2>1, <2>2, <2>4 DEF Phases, Working, Ended
<1>6. CASE Crash
  <2>1. ASSUME NEW q \in Promotions
        PROVE  Fits(q)'
    <3>1. reports'[q] = reports[q] /\ (Promoted(q) => Promoted(q)')
      BY <1>6, PromotedStays DEF Crash
    <3>2. pc'[q] \in {"lost", "idle", "panicked", "done"}
          /\ (pc'[q] # "lost" => pc'[q] = pc[q])
      BY <1>6 DEF Crash, TypeOK, Phases, Ended
    <3> QED
      BY <3>1, <3>2 DEF ReportsFollowPhase, Working
  <2> QED
    BY <2>1 DEF ReportsFollowPhase
<1>7. CASE (\E s \in Stages : KeptnPush(s)) \/ (\E t \in Tags : ReplaceTag(t))
  <2>1. pc' = pc /\ reports' = reports
    BY <1>7 DEF KeptnPush, ReplaceTag
  <2>2. \A q \in Promotions : Promoted(q) => Promoted(q)'
    BY PromotedStays
  <2> QED
    BY <2>1, <2>2 DEF ReportsFollowPhase
<1> QED
  BY <1>2, <1>3, <1>4, <1>5, <1>6, <1>7 DEF Next, Handle

-----------------------------------------------------------------------------
(* The theorems.                                                           *)

\* The inductive invariant holds initially.
LEMMA InitInv == Init => Inv
<1>1. ASSUME Init
      PROVE  Serialised /\ ReportsFollowPhase /\ AttemptsLeft
  BY <1>1, PromotionAssumption
     DEF Init, Serialised, ReportsFollowPhase, AttemptsLeft, Working
<1> QED
  BY <1>1, InitTypes DEF Inv

\* The inductive invariant: types, one handler at a time inside the mutex,
\* reports that agree with the phase of every handler, attempts in bounds.
THEOREM Invariance == Spec => []Inv
<1>1. Inv /\ [Next]_vars => Inv'
  <2> SUFFICES ASSUME Inv, [Next]_vars PROVE Inv'
    OBVIOUS
  <2>1. CASE Next
    BY <2>1, TypeStep, AttemptsStep, SerialisedStep, ReportsStep DEF Inv
  <2>2. CASE UNCHANGED vars
    BY <2>2 DEF Inv, TypeOK, Serialised, ReportsFollowPhase, AttemptsLeft, Promoted,
                vars, work, repository
  <2> QED
    BY <2>1, <2>2
<1> QED
  BY <1>1, InitInv, PTL DEF Spec

\* The service keeps its types for any number of promotions and retries.
THEOREM TypeCorrect == Spec => []TypeOK
<1>1. Inv => TypeOK
  BY DEF Inv
<1> QED
  BY <1>1, Invariance, PTL

\* The mutex of main.go serialises the handlers, through failed sends, panics
\* and restarts: at most one works on the upstream repository.
THEOREM MutualExclusion == Spec => []Serialised
<1>1. Inv => Serialised
  BY DEF Inv
<1> QED
  BY <1>1, Invariance, PTL

\* No push of the service, and no interleaving with the pushes of others,
\* loses a commit of a stage branch.
THEOREM NoCommitIsLost == Spec => NothingOverwritten
<1> DEFINE Kept == \A s \in Stages : SubSeq(branch'[s], 1, Len(branch[s])) = branch[s]
<1>1. ASSUME TypeOK, NEW s \in Stages
      PROVE  SubSeq(branch[s], 1, Len(branch[s])) = branch[s]
  BY <1>1 DEF TypeOK
<1>2. TypeOK /\ [Next]_vars => [Kept]_vars
  <2> SUFFICES ASSUME TypeOK, Next PROVE Kept
    BY DEF vars
  <2>1. CASE branch' = branch
    BY <2>1, <1>1
  <2>2. ASSUME NEW s \in Stages, NEW a \in Authors,
               branch' = [branch EXCEPT ![s] = Append(@, a)]
        PROVE  Kept
    <3>1. ASSUME NEW z \in Stages \ {s}
          PROVE  branch'[z] = branch[z]
      BY <2>2 DEF TypeOK
    <3>2. SubSeq(branch'[s], 1, Len(branch[s])) = branch[s]
      BY <2>2, PromotedGrows
    <3> QED
      BY <3>1, <3>2, <1>1
  <2> QED
    BY <2>1, <2>2, BranchSteps
<1> QED
  BY <1>2, TypeCorrect, PTL DEF Spec, NothingOverwritten

-----------------------------------------------------------------------------
(* A promotion that has failed has left its stage alone.                   *)

\* Phases of a handler whose commit is not in the stage branch.
BeforeCommit == {"idle", "waiting", "starting", "checking", "tag", "branch", "push",
                 "failed"}

Claims(p) == pc[p] \in BeforeCommit \/ reports[p] = <<"started", "fail">>

\* FailedMeansUntouched, with the handlers that are on their way to a failure.
Untouched == \A p \in Promotions \ unanswered : Claims(p) => ~Promoted(p)

\* A handler that is about to push, or that has failed, is at its beginning or
\* came from there; only a pass follows a commit (SendPassed, Crash).
LEMMA ClaimsShrink ==
  ASSUME TypeOK, ReportsFollowPhase, Next, NEW q \in Promotions, Claims(q)'
  PROVE  Claims(q)
<1>1. ASSUME NEW p \in Promotions, NEW phase \in Phases, pc[p] \in BeforeCommit,
             pc' = [pc EXCEPT ![p] = phase],
             \A z \in Promotions \ {p} : reports'[z] = reports[z]
      PROVE  Claims(q)
  BY <1>1 DEF Claims, TypeOK
<1>2. ASSUME NEW p \in Promotions, Deliver(p) \/ Lock(p)
      PROVE  Claims(q)
  <2>1. /\ pc[p] \in BeforeCommit /\ reports' = reports
        /\ \E phase \in {"waiting", "starting"} : pc' = [pc EXCEPT ![p] = phase]
    BY <1>2 DEF Deliver, Lock, BeforeCommit
  <2> QED
    BY <2>1, <1>1 DEF Phases, Working
<1>3. ASSUME NEW p \in Promotions, Handle(p), ~SendPassed(p)
      PROVE  Claims(q)
  <2>1. pc[p] \in BeforeCommit
    BY <1>3 DEF Handle, BeforeCommit, RejectPayload, SendStarted, Validate,
                DecryptionPanics, CloneTag, TagMissing, CloneBranch, BranchMissing,
                Push, PushRejected, PushAnswerLost, CallFails, SendFailed
  <2>2. \E phase \in Phases : pc' = [pc EXCEPT ![p] = phase]
    BY <1>3 DEF Handle, Phases, Working, Ended, RejectPayload, SendStarted,
                Validate, DecryptionPanics, CloneTag, TagMissing, CloneBranch,
                BranchMissing, Push, PushRejected, PushAnswerLost, CallFails,
                SendFailed, SendFails, AttemptFails, Succeed, Panic, Goto, Return
  <2>3. \A z \in Promotions \ {p} : reports'[z] = reports[z]
    BY <1>3 DEF Handle, RejectPayload, SendStarted, Validate, DecryptionPanics,
                CloneTag, TagMissing, CloneBranch, BranchMissing, Push,
                PushRejected, PushAnswerLost, CallFails, SendFailed, SendFails,
                Receive, TypeOK
  <2> QED
    BY <2>1, <2>2, <2>3, <1>1
<1>4. ASSUME NEW p \in Promotions, SendPassed(p)
      PROVE  Claims(q)
  <2>1. pc[p] = "passing" /\ pc' = [pc EXCEPT ![p] = "done"]
    BY <1>4 DEF SendPassed, SendFails, Return
  <2>2. CASE q # p
    BY <1>4, <2>1, <2>2 DEF SendPassed, SendFails, Receive, Claims, TypeOK
  <2>3. CASE q = p
    <3>1. reports[q] = <<"started">>
      BY <2>1, <2>3 DEF ReportsFollowPhase, Working
    <3>2. reports'[q] \in {<<"started">>, <<"started", "pass">>}
      BY <1>4, <2>3, <3>1 DEF SendPassed, SendFails, Receive, TypeOK
    <3>3. /\ <<"started">> # <<"started", "fail">>
          /\ <<"started", "pass">> # <<"started", "fail">>
      <4>1. <<"started", "pass">>[2] # <<"started", "fail">>[2]
        OBVIOUS
      <4> QED
        BY <4>1
    <3>4. pc'[q] = "done"
      BY <2>1, <2>3 DEF TypeOK
    <3> QED
      BY <3>2, <3>3, <3>4 DEF Claims, BeforeCommit
  <2> QED
    BY <2>2, <2>3
<1>5. CASE Crash
  <2>1. reports' = reports /\ pc'[q] \in {"lost", pc[q]}
    BY <1>5 DEF Crash, TypeOK
  <2> QED
    BY <2>1 DEF Claims, BeforeCommit
<1>6. CASE (\E s \in Stages : KeptnPush(s)) \/ (\E t \in Tags : ReplaceTag(t))
  BY <1>6 DEF KeptnPush, ReplaceTag, Claims
<1> QED
  BY <1>2, <1>3, <1>4, <1>5, <1>6 DEF Next

\* A commit of q moves its handler on to report a pass, or goes unanswered.
LEMMA CommitEndsClaim ==
  ASSUME TypeOK, ReportsFollowPhase, Next, NEW q \in Promotions \ unanswered',
         ~Promoted(q), Promoted(q)'
  PROVE  ~Claims(q)'
<1>1. ASSUME NEW p \in Promotions, Push(p) \/ PushAnswerLost(p)
      PROVE  p = q
  <2>1. /\ StageOf[p] \in Stages /\ p \in Authors
        /\ branch' = [branch EXCEPT ![StageOf[p]] = Append(@, p)]
    BY <1>1 DEF Push, PushAnswerLost, Commit, Stages, Authors
  <2> QED
    BY <2>1, PromotedGrows
<1>2. CASE Push(q)
  <2>1. \E phase \in {"passing", "panicked"} : pc' = [pc EXCEPT ![q] = phase]
    BY <1>2 DEF Push, Succeed, Panic, Goto
  <2>2. reports'[q] = <<"started">>
    BY <1>2 DEF Push, ReportsFollowPhase, Working
  <2> QED
    BY <2>1, <2>2 DEF Claims, BeforeCommit, TypeOK
<1>3. CASE PushAnswerLost(q)
  BY <1>3 DEF PushAnswerLost
<1>4. ASSUME NEW s \in Stages, KeptnPush(s)
      PROVE  FALSE
  <2>1. Keptn \in Authors /\ branch' = [branch EXCEPT ![s] = Append(@, Keptn)]
    BY <1>4 DEF KeptnPush, Authors
  <2> QED
    BY <2>1, PromotedGrows, PromotionAssumption
<1>5. branch' # branch
  BY DEF Promoted
<1>6. ASSUME NEW p \in Promotions, Handle(p), ~Push(p), ~PushAnswerLost(p)
      PROVE  FALSE
  BY <1>6, <1>5 DEF Handle, RejectPayload, SendStarted, Validate, DecryptionPanics,
                    CloneTag, TagMissing, CloneBranch, BranchMissing, PushRejected,
                    CallFails, SendFailed, SendPassed, repository
<1>7. ASSUME NEW p \in Promotions, Deliver(p) \/ Lock(p)
      PROVE  FALSE
  BY <1>7, <1>5 DEF Deliver, Lock, repository
<1>8. ASSUME Crash \/ \E t \in Tags : ReplaceTag(t)
      PROVE  FALSE
  BY <1>8, <1>5 DEF Crash, ReplaceTag, repository
<1> QED
  BY <1>1, <1>2, <1>3, <1>4, <1>6, <1>7, <1>8 DEF Next

\* An answer once lost stays lost.
LEMMA UnansweredGrows ==
  ASSUME Next
  PROVE  unanswered \subseteq unanswered'
<1>1. ASSUME NEW p \in Promotions, Deliver(p) \/ Lock(p) \/ Handle(p)
      PROVE  unanswered \subseteq unanswered'
  BY <1>1 DEF Deliver, Lock, Handle, RejectPayload, SendStarted, Validate,
              DecryptionPanics, CloneTag, TagMissing, CloneBranch, BranchMissing,
              Push, PushRejected, PushAnswerLost, CallFails, SendFailed, SendPassed,
              repository
<1>2. ASSUME \/ Crash
             \/ \E s \in Stages : KeptnPush(s)
             \/ \E t \in Tags : ReplaceTag(t)
      PROVE  unanswered \subseteq unanswered'
  BY <1>2 DEF Crash, KeptnPush, ReplaceTag, repository
<1> QED
  BY <1>1, <1>2 DEF Next

\* What is reported as failed is not in the stage, through any number of
\* rejected pushes and retries, unless the answer to a push was lost.
THEOREM FailuresLeaveTheStage == Spec => []FailedMeansUntouched
<1>1. Init => Untouched
  BY InitialBranch DEF Untouched
<1>2. Inv /\ Untouched /\ [Next]_vars => Untouched'
  <2> SUFFICES ASSUME Inv, Untouched, [Next]_vars PROVE Untouched'
    OBVIOUS
  <2>1. CASE Next
    <3>1. ASSUME NEW q \in Promotions \ unanswered', Claims(q)'
          PROVE  ~Promoted(q)'
      <4>1. Claims(q) /\ q \notin unanswered
        BY <2>1, <3>1, ClaimsShrink, UnansweredGrows DEF Inv
      <4>2. ~Promoted(q)
        BY <4>1 DEF Untouched
      <4> QED
        BY <2>1, <3>1, <4>2, CommitEndsClaim DEF Inv
    <3> QED
      BY <3>1 DEF Untouched
  <2>2. CASE UNCHANGED vars
    BY <2>2 DEF Untouched, Claims, Promoted, vars, repository
  <2> QED
    BY <2>1, <2>2
<1>3. Untouched => FailedMeansUntouched
  BY DEF Untouched, Claims, FailedMeansUntouched
<1> QED
  BY <1>1, <1>2, <1>3, Invariance, PTL DEF Spec

-----------------------------------------------------------------------------
(* The service implements TaskProtocol.                                    *)

\* The promotions whose stage branch has their commit.
Done == {p \in Promotions : Promoted(p)}

\* What a step means for the task protocol.
Started(p) == reports[p] = <<>> /\ Receive(p, "started") /\ Done' = Done
Worked(p)  == reports[p] = <<"started">> /\ Done' = Done \cup {p} /\ reports' = reports
Passed(p)  == reports[p] = <<"started">> /\ p \in Done /\ Receive(p, "pass") /\ Done' = Done
Failed(p)  == reports[p] = <<"started">> /\ Receive(p, "fail") /\ Done' = Done
Nothing    == reports' = reports /\ Done' = Done

\* A second event makes a pair.
LEMMA AppendPair ==
  ASSUME NEW a, NEW b, NEW s, s = <<a>>
  PROVE  Append(s, b) = <<a, b>>
<1> DEFINE t == Append(s, b)
<1>1. s \in Seq({a, b}) /\ Len(s) = 1 /\ s[1] = a
  OBVIOUS
<1>2. t \in Seq({a, b}) /\ Len(t) = 2 /\ t[1] = a /\ t[2] = b
  BY <1>1
<1> HIDE DEF t
<1>3. t = <<t[1], t[2]>>
  BY <1>2
<1> QED
  BY <1>2, <1>3 DEF t

\* Each of them is a step of TaskProtocol, or a stutter.
LEMMA MeaningIsAbstract ==
  ASSUME TypeOK,
         Nothing \/ \E p \in Promotions : Started(p) \/ Worked(p) \/ Passed(p) \/ Failed(p)
  PROVE  [Abstract!Next]_(Abstract!vars)
<1>1. CASE Nothing
  BY <1>1 DEF Nothing, Done, Abstract!vars
<1>2. ASSUME NEW p \in Promotions, Started(p)
      PROVE  Abstract!Start(p)
  <2>1. reports' = [reports EXCEPT ![p] = <<"started">>]
    <3>1. Append(<<>>, "started") = <<"started">>
      OBVIOUS
    <3>2. reports' = [reports EXCEPT ![p] = Append(reports[p], "started")] /\ reports[p] = <<>>
      BY <1>2 DEF Started, Receive
    <3> QED
      BY <3>1, <3>2
  <2> QED
    BY <1>2, <2>1 DEF Started, Done, Abstract!Start
<1>3. ASSUME NEW p \in Promotions, Worked(p)
      PROVE  Abstract!Work(p)
  BY <1>3 DEF Worked, Done, Abstract!Work
<1>4. ASSUME NEW p \in Promotions, Passed(p)
      PROVE  Abstract!Pass(p)
  <2>1. reports' = [reports EXCEPT ![p] = <<"started", "pass">>]
    <3>1. reports' = [reports EXCEPT ![p] = Append(reports[p], "pass")] /\ reports[p] = <<"started">>
      BY <1>4 DEF Passed, Receive
    <3>2. Append(reports[p], "pass") = <<"started", "pass">>
      BY <3>1, AppendPair
    <3> QED
      BY <3>1, <3>2
  <2> QED
    BY <1>4, <2>1 DEF Passed, Done, Abstract!Pass
<1>5. ASSUME NEW p \in Promotions, Failed(p)
      PROVE  Abstract!Fail(p)
  <2>1. reports' = [reports EXCEPT ![p] = <<"started", "fail">>]
    <3>1. reports' = [reports EXCEPT ![p] = Append(reports[p], "fail")] /\ reports[p] = <<"started">>
      BY <1>5 DEF Failed, Receive
    <3>2. Append(reports[p], "fail") = <<"started", "fail">>
      BY <3>1, AppendPair
    <3> QED
      BY <3>1, <3>2
  <2> QED
    BY <1>5, <2>1 DEF Failed, Done, Abstract!Fail
<1> QED
  BY <1>1, <1>2, <1>3, <1>4, <1>5 DEF Abstract!Next

\* What the steps that leave the branches alone mean.
LEMMA SameBranch == branch' = branch => Done' = Done
BY DEF Done, Promoted

\* A commit of p is p's work; anybody else's commit is nobody's.
LEMMA CommitIsWork ==
  ASSUME TypeOK, NEW s \in Stages, NEW a \in Authors,
         branch' = [branch EXCEPT ![s] = Append(@, a)],
         a # Keptn => StageOf[a] = s
  PROVE  Done' = IF a = Keptn THEN Done ELSE Done \cup {a}
<1>1. \A p \in Promotions : Promoted(p)' <=> (Promoted(p) \/ (StageOf[p] = s /\ p = a))
  BY PromotedGrows
<1> QED
  BY <1>1, PromotionAssumption DEF Done, Authors

\* Every step of the service means one of them.
LEMMA StepMeaning ==
  ASSUME Inv, Next
  PROVE  Nothing \/ \E p \in Promotions : Started(p) \/ Worked(p) \/ Passed(p) \/ Failed(p)
<1> USE DEF Inv
<1>1. ASSUME NEW p \in Promotions, SendStarted(p)
      PROVE  Started(p) \/ Nothing
  <2>1. reports[p] = <<>> /\ branch' = branch /\ (Receive(p, "started") \/ reports' = reports)
    BY <1>1 DEF SendStarted, SendFails, ReportsFollowPhase, repository
  <2> QED
    BY <2>1, SameBranch DEF Started, Nothing
<1>2. ASSUME NEW p \in Promotions, SendFailed(p)
      PROVE  Failed(p) \/ Nothing
  <2>1. /\ reports[p] = <<"started">> /\ branch' = branch
        /\ Receive(p, "fail") \/ reports' = reports
    BY <1>2 DEF SendFailed, SendFails, ReportsFollowPhase, Working, repository
  <2> QED
    BY <2>1, SameBranch DEF Failed, Nothing
<1>3. ASSUME NEW p \in Promotions, SendPassed(p)
      PROVE  Passed(p) \/ Nothing
  <2>1. /\ reports[p] = <<"started">> /\ p \in Done /\ branch' = branch
        /\ Receive(p, "pass") \/ reports' = reports
    BY <1>3 DEF SendPassed, SendFails, ReportsFollowPhase, Working, repository, Done
  <2> QED
    BY <2>1, SameBranch DEF Passed, Nothing
<1>4. ASSUME NEW p \in Promotions, Push(p) \/ PushAnswerLost(p)
      PROVE  Worked(p)
  <2>1. /\ StageOf[p] \in Stages /\ p \in Authors /\ p # Keptn
        /\ branch' = [branch EXCEPT ![StageOf[p]] = Append(@, p)]
    BY <1>4, PromotionAssumption DEF Push, PushAnswerLost, Commit, Stages, Authors
  <2>2. Done' = Done \cup {p}
    BY <2>1, CommitIsWork
  <2>3. reports[p] = <<"started">> /\ reports' = reports
    BY <1>4 DEF Push, PushAnswerLost, ReportsFollowPhase, Working
  <2> QED
    BY <2>2, <2>3 DEF Worked
<1>5. ASSUME NEW p \in Promotions,
             \/ Deliver(p) \/ Lock(p) \/ RejectPayload(p) \/ Validate(p)
             \/ DecryptionPanics(p) \/ CloneTag(p) \/ TagMissing(p) \/ CloneBranch(p)
             \/ BranchMissing(p) \/ PushRejected(p) \/ CallFails(p)
      PROVE  Nothing
  BY <1>5, SameBranch DEF Deliver, Lock, RejectPayload, Validate, DecryptionPanics,
                          CloneTag, TagMissing, CloneBranch, BranchMissing,
                          PushRejected, CallFails, repository, Nothing
<1>6. ASSUME Crash \/ \E t \in Tags : ReplaceTag(t)
      PROVE  Nothing
  BY <1>6, SameBranch DEF Crash, ReplaceTag, repository, Nothing
<1>7. ASSUME NEW s \in Stages, KeptnPush(s)
      PROVE  Nothing
  <2>1. Keptn \in Authors /\ branch' = [branch EXCEPT ![s] = Append(@, Keptn)]
    BY <1>7 DEF KeptnPush, Authors
  <2> QED
    BY <1>7, <2>1, CommitIsWork DEF KeptnPush, Nothing
<1> QED
  BY <1>1, <1>2, <1>3, <1>4, <1>5, <1>6, <1>7 DEF Next, Handle

\* Keptn sees of every promotion one started event, then at most one finished
\* event, and a pass only if the commit is in the stage branch, whatever
\* fails, is retried or restarts.
THEOREM Refinement == Spec => ImplementsTask
<1>1. Init => Abstract!Init
  BY InitialBranch DEF Init, Abstract!Init
<1>2. Inv /\ [Next]_vars => [Abstract!Next]_(Abstract!vars)
  <2> SUFFICES ASSUME Inv, [Next]_vars PROVE [Abstract!Next]_(Abstract!vars)
    OBVIOUS
  <2>1. CASE Next
    BY <2>1, StepMeaning, MeaningIsAbstract DEF Inv
  <2>2. CASE UNCHANGED vars
    BY <2>2 DEF vars, repository, Promoted, Abstract!vars
  <2> QED
    BY <2>1, <2>2
<1> QED
  BY <1>1, <1>2, Invariance, PTL DEF Spec, ImplementsTask, Abstract!Spec

-----------------------------------------------------------------------------
(* What a promotion commits.                                               *)

\* The merged values of a promotion are what the stage and base say of every
\* path of keys, for values files of any depth (MergeValues).
THEOREM PromotionMergesRight == Spec => []MergeIsRight
<1>1. MergeIsRight
  BY MergeFollowsPaths DEF MergeIsRight
<1> QED
  BY <1>1, PTL

\* A promotion commits all files of a service and no others, from directories
\* with any files, where no name above the service's contains its name
\* (UpdateGitRepo).
THEOREM PromotionCommitsAll == NamesAreApart => (Spec => []PromotedIsComplete)
<1> SUFFICES ASSUME NamesAreApart PROVE Spec => []PromotedIsComplete
  OBVIOUS
<1>1. PromotedIsComplete
  BY PromotionIsComplete DEF PromotedIsComplete
<1> QED
  BY <1>1, PTL
=============================================================================
