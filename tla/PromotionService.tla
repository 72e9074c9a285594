-------------------------- MODULE PromotionService --------------------------
(***************************************************************************)
(* The promotion service: for every promotion.triggered event it copies an *)
(* artifact, found under a tag of the upstream repository, into the branch *)
(* of a stage, and reports to Keptn.  Events arrive concurrently, one      *)
(* mutex lets one handler work at a time, and a failed update of the       *)
(* repository is retried.  Others push to the stage branches and replace   *)
(* the tags meanwhile (gitops-operator replaces a tag by deleting it       *)
(* first).  What a promotion commits is a matter of PromotedFiles.         *)
(***************************************************************************)
EXTENDS PromotedFiles

CONSTANTS
  Promotions,      \* the promotion.triggered events
  StageOf,         \* the stage of each
  TagOf,           \* the tag it promotes: service-version-configVersion
  Defect,          \* what is wrong with each, see Defects
  NewStages,       \* the stages whose branch may not be there yet
  Retries,         \* further attempts after a failed one: 6 in the code
  Keptn,           \* whoever else commits to a stage branch
  NoOne,           \* the mutex is free
  Disturbances,    \* the kinds of disturbance the environment makes
  MaxDisturbances  \* bound on their number

Stages  == {StageOf[p] : p \in Promotions}
Tags    == {TagOf[p] : p \in Promotions}
Authors == Promotions \cup {Keptn}

\* "payload": it cannot be parsed; "label": it names no version;
\* "credentials": the password of the project cannot be decrypted.  Decryption
\* then returns an error, or it panics, as for a key that is no PEM block.
Defects == {"none", "payload", "label", "credentials"}

Kinds == {"crash", "send", "network", "answer", "push", "tag"}

ASSUME PromotionAssumption ==
  /\ StageOf \in [Promotions -> Stages]
  /\ TagOf \in [Promotions -> Tags]
  /\ Defect \in [Promotions -> Defects]
  /\ NewStages \subseteq Stages
  /\ Retries \in Nat
  /\ Keptn \notin Promotions
  /\ NoOne \notin Promotions
  /\ Disturbances \subseteq Kinds
  /\ MaxDisturbances \in Nat

VARIABLES
  pc,           \* pc[p]: where the handler of p is
  holder,       \* the handler that holds the mutex
  attempts,     \* attempts[p]: failed updates of the repository so far
  base,         \* base[p]: length of the stage branch p has cloned
  branch,       \* branch[s]: the commits of a stage branch, by their authors;
                \* none as long as there is no such branch
  tags,         \* the tags the upstream repository has
  unanswered,   \* the promotions with a commit whose answer was lost
  reports,      \* reports[p]: the events Keptn has received for p, in order
  disturbances  \* disturbances so far

vars == <<pc, holder, attempts, base, branch, tags, unanswered, reports,
          disturbances>>
work       == <<attempts, base>>
repository == <<branch, tags, unanswered>>

\* Handlers that are inside the critical section.
Working  == {"starting", "checking", "tag", "branch", "push", "failed", "passing"}
Ended    == {"done", "panicked", "lost"}
Phases   == {"idle", "waiting"} \cup Working \cup Ended

Disturb(kind) == /\ kind \in Disturbances
                 /\ disturbances < MaxDisturbances
                 /\ disturbances' = disturbances + 1

Init ==
  /\ pc = [p \in Promotions |-> "idle"]
  /\ holder = NoOne
  /\ attempts = [p \in Promotions |-> 0]
  /\ base = [p \in Promotions |-> 0]
  /\ branch \in [Stages -> {<<>>, <<Keptn>>}]
  /\ \A s \in Stages \ NewStages : branch[s] # <<>>
  /\ tags \in SUBSET Tags
  /\ unanswered = {}
  /\ reports = [p \in Promotions |-> <<>>]
  /\ disturbances = 0

-----------------------------------------------------------------------------
(* main.go: an event arrives, its handler waits for the mutex.             *)

Deliver(p) ==
  /\ pc[p] = "idle"
  /\ pc' = [pc EXCEPT ![p] = "waiting"]
  /\ UNCHANGED <<holder, work, repository, reports, disturbances>>

\* Mutant: no mutex.
Lock_Free(p) ==
  /\ pc[p] = "waiting"
  /\ pc' = [pc EXCEPT ![p] = "starting"]
  /\ holder' = p
  /\ UNCHANGED <<work, repository, reports, disturbances>>

Lock(p) ==
  /\ pc[p] = "waiting"
  /\ holder = NoOne
  /\ pc' = [pc EXCEPT ![p] = "starting"]
  /\ holder' = p
  /\ UNCHANGED <<work, repository, reports, disturbances>>

Goto(p, phase) == /\ pc' = [pc EXCEPT ![p] = phase]
                  /\ holder' = holder

\* The handler returns and the mutex is unlocked.
Return(p) == /\ pc' = [pc EXCEPT ![p] = "done"]
             /\ holder' = NoOne

\* It panics instead: the receiver recovers, nothing unlocks the mutex.
Panic(p) == Goto(p, "panicked")

-----------------------------------------------------------------------------
(* HandlePromotionTriggeredEvent.                                          *)

Receive(p, event) == reports' = [reports EXCEPT ![p] = Append(@, event)]

\* Sending an event fails, whether Keptn got it or not: the handler returns.
SendFails(p, event) ==
  /\ Disturb("send")
  /\ Receive(p, event) \/ reports' = reports
  /\ Return(p)

RejectPayload(p) ==
  /\ pc[p] = "starting"
  /\ Defect[p] = "payload"
  /\ Return(p)
  /\ UNCHANGED <<work, repository, reports, disturbances>>

SendStarted(p) ==
  /\ pc[p] = "starting"
  /\ Defect[p] # "payload"
  /\ \/ /\ Receive(p, "started")
        /\ Goto(p, "checking")
        /\ UNCHANGED disturbances
     \/ SendFails(p, "started")
  /\ UNCHANGED <<work, repository>>

Validate(p) ==
  /\ pc[p] = "checking"
  /\ Goto(p, IF Defect[p] = "none" THEN "tag" ELSE "failed")
  /\ UNCHANGED <<work, repository, reports, disturbances>>

DecryptionPanics(p) ==
  /\ pc[p] = "checking"
  /\ Defect[p] = "credentials"
  /\ Panic(p)
  /\ UNCHANGED <<work, repository, reports, disturbances>>

\* Mutant: the mutex is not unlocked after a failure.
SendFailed_KeepsLock(p) ==
  /\ pc[p] = "failed"
  /\ Receive(p, "fail")
  /\ Goto(p, "done")
  /\ UNCHANGED <<work, repository, disturbances>>

SendFailed(p) ==
  /\ pc[p] = "failed"
  /\ \/ /\ Receive(p, "fail")
        /\ Return(p)
        /\ UNCHANGED disturbances
     \/ SendFails(p, "fail")
  /\ UNCHANGED <<work, repository>>

\* Mutant: success is reported with the other helper.
SendPassed_AsFailure(p) ==
  /\ pc[p] = "passing"
  /\ Receive(p, "fail")
  /\ Return(p)
  /\ UNCHANGED <<work, repository, disturbances>>

SendPassed(p) ==
  /\ pc[p] = "passing"
  /\ \/ /\ Receive(p, "pass")
        /\ Return(p)
        /\ UNCHANGED disturbances
     \/ SendFails(p, "pass")
  /\ UNCHANGED <<work, repository>>

-----------------------------------------------------------------------------
(* UpdateGitRepo and its retries.                                          *)

\* Mutant: one attempt more.
AttemptFails_OneMore(p) ==
  /\ attempts' = [attempts EXCEPT ![p] = @ + 1]
  /\ Goto(p, IF attempts[p] <= Retries THEN "tag" ELSE "failed")
  /\ base' = base

\* After an error the whole update is tried again, up to Retries times.
AttemptFails(p) ==
  /\ attempts' = [attempts EXCEPT ![p] = @ + 1]
  /\ Goto(p, IF attempts[p] < Retries THEN "tag" ELSE "failed")
  /\ base' = base

\* After a retry the handler reports err.Error() of an error that is nil.
Succeed(p) == IF attempts[p] = 0 THEN Goto(p, "passing") ELSE Panic(p)

CloneTag(p) ==
  /\ pc[p] = "tag"
  /\ TagOf[p] \in tags
  /\ Goto(p, "branch")
  /\ UNCHANGED <<work, repository, reports, disturbances>>

TagMissing(p) ==
  /\ pc[p] = "tag"
  /\ TagOf[p] \notin tags
  /\ AttemptFails(p)
  /\ UNCHANGED <<repository, reports, disturbances>>

BranchMissing(p) ==
  /\ pc[p] = "branch"
  /\ branch[StageOf[p]] = <<>>
  /\ AttemptFails(p)
  /\ UNCHANGED <<repository, reports, disturbances>>

CloneBranch(p) ==
  /\ pc[p] = "branch"
  /\ branch[StageOf[p]] # <<>>
  /\ base' = [base EXCEPT ![p] = Len(branch[StageOf[p]])]
  /\ Goto(p, "push")
  /\ UNCHANGED <<attempts, repository, reports, disturbances>>

Commit(p) == branch' = [branch EXCEPT ![StageOf[p]] = Append(@, p)]

UpToDate(p) == base[p] = Len(branch[StageOf[p]])

\* Mutant: the push is forced.
Push_Forced(p) ==
  /\ pc[p] = "push"
  /\ branch' = [branch EXCEPT ![StageOf[p]] = Append(SubSeq(@, 1, base[p]), p)]
  /\ Succeed(p)
  /\ UNCHANGED <<work, tags, unanswered, reports, disturbances>>

Push(p) ==
  /\ pc[p] = "push"
  /\ UpToDate(p)
  /\ Commit(p)
  /\ Succeed(p)
  /\ UNCHANGED <<work, tags, unanswered, reports, disturbances>>

\* Mutant: the error of a rejected push is only logged.
PushRejected_Logged(p) ==
  /\ pc[p] = "push"
  /\ ~UpToDate(p)
  /\ Succeed(p)
  /\ UNCHANGED <<work, repository, reports, disturbances>>

\* Not a fast-forward: somebody pushed since the branch was cloned.
PushRejected(p) ==
  /\ pc[p] = "push"
  /\ ~UpToDate(p)
  /\ AttemptFails(p)
  /\ UNCHANGED <<repository, reports, disturbances>>

\* The repository takes the commit but the answer is lost.
PushAnswerLost(p) ==
  /\ pc[p] = "push"
  /\ UpToDate(p)
  /\ Disturb("answer")
  /\ Commit(p)
  /\ AttemptFails(p)
  /\ unanswered' = unanswered \cup {p}
  /\ UNCHANGED <<tags, reports>>

\* A clone, the preparation of the files or the push fails.
CallFails(p) ==
  /\ pc[p] \in {"tag", "branch", "push"}
  /\ Disturb("network")
  /\ AttemptFails(p)
  /\ UNCHANGED <<repository, reports>>

-----------------------------------------------------------------------------
(* The environment.                                                        *)

\* The pod restarts: every handler in flight is gone, the mutex is free.
Crash ==
  /\ \E p \in Promotions : pc[p] \in {"waiting", "panicked"} \cup Working
  /\ Disturb("crash")
  /\ pc' = [p \in Promotions |->
              IF pc[p] \in {"waiting"} \cup Working THEN "lost" ELSE pc[p]]
  /\ holder' = NoOne
  /\ UNCHANGED <<work, repository, reports>>

\* Keptn, or a user, commits to a stage branch, or creates it.
KeptnPush(s) ==
  /\ Disturb("push")
  /\ branch' = [branch EXCEPT ![s] = Append(@, Keptn)]
  /\ UNCHANGED <<pc, holder, work, tags, unanswered, reports>>

\* gitops-operator deletes a tag, or pushes one.
ReplaceTag(t) ==
  /\ Disturb("tag")
  /\ tags' = IF t \in tags THEN tags \ {t} ELSE tags \cup {t}
  /\ UNCHANGED <<pc, holder, work, branch, unanswered, reports>>

-----------------------------------------------------------------------------
Handle(p) ==
  \/ RejectPayload(p) \/ SendStarted(p) \/ Validate(p) \/ DecryptionPanics(p)
  \/ CloneTag(p) \/ TagMissing(p) \/ CloneBranch(p) \/ BranchMissing(p)
  \/ Push(p) \/ PushRejected(p) \/ PushAnswerLost(p) \/ CallFails(p)
  \/ SendFailed(p) \/ SendPassed(p)

Next ==
  \/ \E p \in Promotions : Deliver(p) \/ Lock(p) \/ Handle(p)
  \/ Crash
  \/ \E s \in Stages : KeptnPush(s)
  \/ \E t \in Tags : ReplaceTag(t)

Spec == Init /\ [][Next]_vars

\* A goroutine that runs goes on, and a free mutex goes to some waiter.
Fairness == /\ \A p \in Promotions : WF_vars(Handle(p))
            /\ WF_vars(\E p \in Promotions : Lock(p))

FairSpec == Spec /\ Fairness

-----------------------------------------------------------------------------
(* Properties. *)

\* Type invariant.
TypeOK ==
  /\ pc \in [Promotions -> Phases]
  /\ holder \in Promotions \cup {NoOne}
  /\ attempts \in [Promotions -> 0..Retries + 1]
  /\ base \in [Promotions -> Nat]
  /\ branch \in [Stages -> Seq(Authors)]
  /\ tags \subseteq Tags
  /\ unanswered \subseteq Promotions
  /\ reports \in [Promotions -> Seq({"started", "pass", "fail"})]
  /\ disturbances \in 0..MaxDisturbances

\* One handler at a time works on the upstream repository, and the mutex is
\* taken exactly while one does, or for ever after one has panicked.
Serialised ==
  /\ \A p \in Promotions : pc[p] \in Working => holder = p
  /\ holder # NoOne => pc[holder] \in Working \cup {"panicked"}

Promoted(p) == \E i \in 1..Len(branch[StageOf[p]]) : branch[StageOf[p]][i] = p
Finished(p) == reports[p] # <<>> /\ reports[p][Len(reports[p])] \in {"pass", "fail"}

\* The events are those Keptn expects of a task: one started, then one
\* finished, and a pass only once the stage branch has the commit.
Abstract == INSTANCE TaskProtocol
  WITH Tasks <- Promotions, worked <- {p \in Promotions : Promoted(p)}
ImplementsTask == Abstract!Spec

\* Whoever commits, no commit of a stage branch is ever lost.
NothingOverwritten ==
  [][\A s \in Stages : SubSeq(branch'[s], 1, Len(branch[s])) = branch[s]]_vars

\* A promotion that is reported as failed has left the stage as it was,
\* through rejected pushes and retries, unless the answer to its push was lost.
FailedMeansUntouched ==
  \A p \in Promotions \ unanswered :
    reports[p] = <<"started", "fail">> => ~Promoted(p)

\* The two properties below are about constants: one state is enough.
AtFirst == /\ tags = {} /\ disturbances = 0
           /\ \A s \in NewStages : branch[s] = <<>>
           /\ \A p \in Promotions : pc[p] = "idle"

\* Merging values.yaml of base and stage keeps every value the stage sets, and
\* of base all that the stage does not set, wherever they are in the tree, and
\* makes up nothing: the recursive merge agrees with a statement by paths.
MergeIsRight == AtFirst => MergesPaths

\* Whatever base, the stage and earlier promotions have, missing and invalid
\* values files included, a promotion commits exactly the files of the service,
\* those of the stage before those of base, and touches no other service, as
\* long as no directory above the service's has a name that contains its name.
PromotedIsComplete == AtFirst => AllComplete

\* What ends a handler without an answer: a restart, an event Keptn did not
\* take, and the panic of a handler, which keeps the mutex from all others.
Unable(p) == \/ pc[p] = "lost"
             \/ pc[p] = "done" /\ disturbances > 0
             \/ \E q \in Promotions : pc[q] = "panicked"

\* Every event that can be parsed is answered in the end, even when several
\* wait for the mutex and some of them fail, unless one of the above happens.
EveryEventIsAnswered ==
  \A p \in Promotions :
    pc[p] = "waiting" /\ Defect[p] # "payload" ~> Finished(p) \/ Unable(p)

\* eventhandlers_test.go:63 of the repository: "Promotion successful - send
\* promotion.started and promotion.finished event".
PromotedIsFinished == \A p \in Promotions : Promoted(p) ~> Finished(p)
=============================================================================
