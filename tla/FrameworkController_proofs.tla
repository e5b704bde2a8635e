--------------------- MODULE FrameworkController_proofs ---------------------
(***************************************************************************)
(* What FrameworkController guarantees for any framework: any tasks, retry *)
(* and completion policy, and any number of failures, lost answers, late   *)
(* timeouts, restarts, orders and deletions.                               *)
(***************************************************************************)
EXTENDS FrameworkController, FiniteSetTheorems, TLAPS

(***************************************************************************)
(* Facts about the constants and the pure operators.                       *)
(***************************************************************************)
\* Every nonempty set of natural numbers has a least element.
LEMMA LeastExists ==
    ASSUME NEW S \in SUBSET Nat, S # {}
    PROVE  \E m \in S : \A n \in S : m <= n
<1> DEFINE R == OpToRel(<, Nat)
<1>1. IsWellFoundedOn(R, Nat)
  BY NatLessThanWellFounded
<1> HIDE DEF R
<1>2. PICK m \in S : \A n \in S : <<n, m>> \notin R
  BY <1>1, WFMin
<1>3. \A n \in S : n < m => <<n, m>> \in R
  BY DEF R, OpToRel
<1>4. \A n \in S : n \in Nat
  OBVIOUS
<1>5. \A n \in S : ~(n < m)
  BY <1>2, <1>3
<1> QED BY <1>4, <1>5

\* The framework is one of those given, and its tasks can be synced in order.
LEMMA JobFacts ==
    ASSUME job \in Frameworks
    PROVE  /\ job \in Framework
           /\ Tasks \in SUBSET Nat /\ IsFiniteSet(Tasks) /\ Tasks # {}
           /\ Results \subseteq Codes /\ GracePeriod \in BOOLEAN
           /\ MinFailed \in Int /\ MinSucceeded \in Int
           /\ job.bounds \in [BoundNames -> Nat]
<1>1. job \in Framework /\ IsFiniteSet(job.tasks) /\ job.tasks # {}
  BY ControllerConstants
<1> QED
  BY <1>1 DEF Framework, Tasks, Results, GracePeriod, MinFailed, MinSucceeded, Codes,
              Transient, Permanent, Refusals

\* The framework does not change, so neither do the sets built from it.
LEMMA StaticSets ==
    ASSUME UNCHANGED job
    PROVE  /\ Tasks' = Tasks /\ Results' = Results /\ GracePeriod' = GracePeriod
           /\ Status' = Status /\ Pod' = Pod /\ Worker' = Worker
           /\ MinFailed' = MinFailed /\ MinSucceeded' = MinSucceeded
BY DEF Tasks, Results, GracePeriod, Status, Pod, Worker, MinFailed, MinSucceeded

\* No step changes the framework that is explored.
LEMMA NextKeepsJob == ASSUME [Next]_vars PROVE UNCHANGED job
<1>1. CASE WorkerNext
  <2>1. CASE BeginSync \/ PushExpectedStatus \/ UpdateStatus
    BY <2>1 DEF BeginSync, PushExpectedStatus, UpdateStatus, specVars
  <2>2. CASE SyncFramework
    BY <2>2 DEF SyncFramework, CreateStatus, BackUpGracePeriod, SkipCompleted,
        CleanUpConfigMap, WaitForConfigMap, GiveUpOnConfigMap, ConfigMapDisappeared,
        RequestConfigMapDeletion, SyncAttempt, ConfigMapDeleting, CompleteFramework,
        DelayRetry, RetryFramework, StopBeforeCreation, CreateConfigMap, Decide, GoOn,
        Abort, specVars
  <2>3. CASE SyncTask
    BY <2>3 DEF SyncTask, SkipCompletedTask, CleanUpPod, WaitForPod, GiveUpOnPod,
        PodDisappeared, RequestPodDeletion, WaitPodDeletion, ObservePod, PodDeleting,
        RetryTask, CompleteTask, CreatePod, RejectPod, DecideTask, SkipTask, FailTask,
        NextTask, specVars
  <2> QED BY <1>1, <2>1, <2>2, <2>3 DEF WorkerNext
<1>2. CASE InformerNext
  BY <1>2 DEF InformerNext, SeeFramework, SeeConfigMap, SeePod, FireTimer, specVars
<1>3. CASE ClusterNext
  BY <1>3 DEF ClusterNext, SetExecution, RemoveConfigMap, DeleteConfigMapByOthers,
      StartPod, RemovePod, CollectPod, DeletePodByOthers, EndPod, PodStep, ClusterStep
<1>4. CASE Restart
  BY <1>4 DEF Restart
<1>5. CASE UNCHANGED vars
  BY <1>5 DEF vars, specVars
<1> QED BY <1>1, <1>2, <1>3, <1>4, <1>5 DEF Next

(***************************************************************************)
(* The invariant of the statuses.  There are up to three: the persisted    *)
(* one, the expected one, and the one of the sync in progress; each is as  *)
(* late as the one before it.                                              *)
(***************************************************************************)
Held == ({remote} \union (IF expected = NoInfo THEN {} ELSE {expected.status})
                  \union (IF worker = Idle THEN {} ELSE {worker.status})) \ {NoStatus}

\* What clients may see after the old status: MonotonicallyExposed, for two statuses.
Exposed(new, old) ==
    old # NoStatus =>
        /\ new # NoStatus /\ Later(new, old)
        /\ new.retried = old.retried => \A t \in Tasks : Later(new.tasks[t], old.tasks[t])

\* A task is still in the same attempt, with the same pod, and has not moved.
SameInstance(ts, old) == ts.state = old.state /\ ts.uid = old.uid /\ ts.retried = old.retried

\* The states of an attempt whose instance was seen in the cache.
HasInstance == {"AttemptPreparing", "AttemptRunning"} \union Completing

\* The expected status is the persisted one, or comes after it.
ExpectedFits ==
    expected # NoInfo =>
        /\ expected.synced => expected.status = remote
        /\ Exposed(expected.status, remote)

\* A sync decides on a status that is persisted.  While it goes through the tasks of an
\* attempt, those that are left are as they were persisted.
WorkerFits ==
    worker # Idle =>
        /\ expected # NoInfo
        /\ Exposed(worker.status, expected.status)
        /\ worker.stage \in {"push", "sync"} => worker.status = expected.status
        /\ worker.stage # "push" => expected.synced
        /\ worker.stage = "update" => worker.status \in Status
        /\ worker.stage = "tasks" =>
              /\ worker.status \in Status /\ expected.status \in Status
              /\ worker.status.state \in HasInstance /\ worker.status.uid # 0
              /\ worker.status.retried = expected.status.retried
              /\ worker.todo # {}
              /\ \A t \in worker.todo :
                    SameInstance(worker.status.tasks[t], expected.status.tasks[t])

\* The framework that the platform submits, see SucceededMeansAllSucceeded.
PlatformPolicy == MinFailed = 1 /\ MinSucceeded = Cardinality(Tasks)

\* With that policy only an attempt of which every task succeeded is a success.
SucceedsAsGang(s) ==
    /\ s.code = "Succeeded" =>
          \A t \in Tasks : s.tasks[t].state = "Completed" /\ s.tasks[t].code = "Succeeded"
    /\ s.state \notin Completing \union Ended => FailedTasks(s) = {}

\* What every status says about itself: no instance before one is created, how an
\* attempt that ended did so, and that it succeeded only with all its tasks.
Sound(s) ==
    /\ s.state = "AttemptCreationPending" => s.uid = 0
    /\ \A t \in Tasks : s.tasks[t].state = "AttemptCreationPending" => s.tasks[t].uid = 0
    /\ s.state \in Ended => s.code # NoCode /\ \A t \in Tasks : s.tasks[t].state = "Completed"
    /\ \A t \in Tasks : s.tasks[t].state \in Ended => s.tasks[t].code # NoCode
    /\ PlatformPolicy => SucceedsAsGang(s)

\* UIDs are not used twice, and the cache of pods does not run ahead of the pods.
CacheFollows(t) ==
    /\ \A pod \in {pods[t], podCache[t]} : pod # NoObject => pod.uid <= uids.pod[t]
    /\ /\ pods[t] # NoObject /\ podCache[t] # NoObject /\ pods[t].uid = podCache[t].uid
       /\ podCache[t].phase # "Pending"
       => pods[t].phase # "Pending"

\* A task that runs was seen running.
RunningWasSeen(s) ==
    \A t \in Tasks : s.tasks[t].state = "AttemptRunning" =>
        \A pod \in {pods[t], podCache[t]} :
            pod # NoObject /\ pod.uid = s.tasks[t].uid => pod.phase # "Pending"

\* The invariant of the statuses, conjunct by conjunct as above.
StatusInv ==
    /\ TypeOK
    /\ ExpectedFits /\ WorkerFits
    /\ \A s \in Held : Sound(s) /\ RunningWasSeen(s)
    /\ \A t \in Tasks : CacheFollows(t)

(***************************************************************************)
(* Facts about types.                                                      *)
(***************************************************************************)
StatusTyped == /\ remote \in Status \union {NoStatus}
               /\ expected \in [status : Status \union {NoStatus}, synced : BOOLEAN]
                                  \union {NoInfo}
SpecTyped   == /\ job \in Frameworks
               /\ exec \in {"Start", "Stop"} /\ fCache \in {"Start", "Stop"} /\ fNews \in BOOLEAN
ObjTyped    == /\ cm \in ConfigMap \union {NoObject}
               /\ pods \in [Tasks -> Pod \union {NoObject}]
               /\ uids \in [cm : Nat, pod : [Tasks -> Nat]]
CacheTyped  == /\ cmCache \in ConfigMap \union {NoObject}
               /\ podCache \in [Tasks -> Pod \union {NoObject}]
QueueTyped  == queued \in BOOLEAN /\ timer \in BOOLEAN

\* The type invariant, by the groups of variables that the steps change together.
LEMMA TypesByGroup ==
    /\ TypeOK <=> /\ StatusTyped /\ SpecTyped /\ ObjTyped /\ CacheTyped /\ QueueTyped
                  /\ worker \in Worker \union {Idle} /\ budget \in [BoundNames -> Nat]
BY DEF TypeOK, StatusTyped, SpecTyped, ObjTyped, CacheTyped, QueueTyped

\* A status has more fields than NoStatus, so it is another value; so are a sync in
\* progress, an expected status and an object.
LEMMA NotNothing ==
    /\ NoStatus \notin Status /\ NoInfo \notin [status : Status \union {NoStatus}, synced : BOOLEAN]
    /\ Idle \notin Worker
    /\ NoObject \notin ConfigMap /\ NoObject \notin Pod
<1>1. ASSUME NEW s \in Status PROVE s # NoStatus
  <2>1. DOMAIN s = {"state", "retried", "accounted", "uid", "code", "delayed", "graced", "tasks"}
    BY DEF Status
  <2>2. DOMAIN NoStatus = {"status"}
    BY DEF NoStatus
  <2> QED BY <2>1, <2>2
<1>2. ASSUME NEW s \in [status : Status \union {NoStatus}, synced : BOOLEAN] PROVE s # NoInfo
  <2>1. DOMAIN s = {"status", "synced"}
    OBVIOUS
  <2>2. DOMAIN NoInfo = {"info"}
    BY DEF NoInfo
  <2> QED BY <2>1, <2>2
<1>3. ASSUME NEW w \in Worker PROVE w # Idle
  BY DEF Worker, Idle
<1>4. ASSUME NEW o \in ConfigMap PROVE o # NoObject
  <2>1. DOMAIN o = {"uid", "deleting", "foreground"}
    BY DEF ConfigMap
  <2>2. DOMAIN NoObject = {"object"}
    BY DEF NoObject
  <2> QED BY <2>1, <2>2
<1>5. ASSUME NEW o \in Pod PROVE o # NoObject
  <2>1. DOMAIN o = {"uid", "owner", "deleting", "phase"}
    BY DEF Pod
  <2>2. DOMAIN NoObject = {"object"}
    BY DEF NoObject
  <2> QED BY <2>1, <2>2
<1> QED BY <1>1, <1>2, <1>3, <1>4, <1>5

\* The task to be synced next is one of those left.
LEMMA TaskIsLeft ==
    ASSUME StatusInv, Tasking
    PROVE  /\ Task \in worker.todo /\ Task \in Tasks
           /\ worker \in Worker /\ worker # Idle /\ Status0 \in Status /\ TS \in TaskStatus
           /\ job \in Frameworks
<1>1. worker # Idle /\ worker \in Worker /\ job \in Frameworks
  BY DEF StatusInv, TypeOK, Tasking, Idle
<1>2. worker.status \in Status /\ worker.todo # {}
  BY <1>1 DEF StatusInv, WorkerFits, Tasking
<1>3. worker.todo \in SUBSET Tasks /\ worker.todo \in SUBSET Nat
  BY <1>1, JobFacts DEF Worker
<1>4. \E t \in worker.todo : \A u \in worker.todo : t <= u
  BY <1>2, <1>3, LeastExists
<1>5. Task \in worker.todo
  BY <1>4 DEF Task
<1> QED BY <1>1, <1>2, <1>3, <1>5 DEF Status0, TS, Status

\* The states, one by one.
LEMMA StatesListed ==
    States = {"AttemptCreationPending", "AttemptCreationRequested", "AttemptPreparing",
              "AttemptRunning", "AttemptDeletionPending", "AttemptDeletionRequested",
              "AttemptDeleting", "AttemptCompleted", "Completed"}
<1>1. DOMAIN StateOrder = 1..9
  BY DEF StateOrder
<1>2. \A i \in 1..9 : i = 1 \/ i = 2 \/ i = 3 \/ i = 4 \/ i = 5 \/ i = 6 \/ i = 7 \/ i = 8 \/ i = 9
  OBVIOUS
<1> QED BY <1>1, <1>2 DEF States, StateOrder

\* What the completion of an attempt makes of a task ...
LEMMA TaskCompletion ==
    ASSUME NEW ts \in TaskStatus, NEW force \in BOOLEAN, NEW c \in Codes
    PROVE  LET n == CompleteTaskAttempt(ts, force, c)
           IN  /\ n \in TaskStatus
               /\ n.state = IF force THEN "AttemptCompleted" ELSE "AttemptDeletionPending"
               /\ n.retried = ts.retried /\ n.uid = ts.uid
               /\ n.code = IF ts.code = NoCode THEN c ELSE ts.code
BY DEF CompleteTaskAttempt, WithCode, TaskStatus, States, StateOrder

\* ... and of the framework.
LEMMA FrameworkCompletion ==
    ASSUME NEW s \in Status, NEW force \in BOOLEAN, NEW c \in Codes
    PROVE  LET n == CompleteFrameworkAttempt(s, force, c)
           IN  /\ n \in Status
               /\ n.state = IF force THEN "AttemptCompleted" ELSE "AttemptDeletionPending"
               /\ n.retried = s.retried /\ n.uid = s.uid
               /\ n.code = IF s.code = NoCode THEN c ELSE s.code
               /\ \A t \in Tasks :
                     /\ n.tasks[t].state = IF force THEN "Completed" ELSE s.tasks[t].state
                     /\ n.tasks[t].retried = s.tasks[t].retried /\ n.tasks[t].uid = s.tasks[t].uid
                     /\ n.tasks[t].code = IF s.tasks[t].code = NoCode
                                          THEN "FrameworkAttemptCompletion" ELSE s.tasks[t].code
<1> DEFINE ended(ts) == LET coded == WithCode(ts, "FrameworkAttemptCompletion")
                        IN  IF force THEN [coded EXCEPT !.state = "Completed"] ELSE coded
           w == WithCode(s, c)
           n == CompleteFrameworkAttempt(s, force, c)
           m == IF force THEN "AttemptCompleted" ELSE "AttemptDeletionPending"
<1>1. /\ w \in Status /\ w.state = s.state /\ w.retried = s.retried /\ w.uid = s.uid
      /\ w.tasks = s.tasks /\ w.code = IF s.code = NoCode THEN c ELSE s.code
  BY DEF WithCode, Status
<1>2. "Completed" \in States /\ m \in States /\ "FrameworkAttemptCompletion" \in Codes
  BY StatesListed DEF Codes, Permanent
<1>3. ASSUME NEW ts \in TaskStatus
      PROVE  /\ ended(ts) \in TaskStatus
             /\ ended(ts).state = IF force THEN "Completed" ELSE ts.state
             /\ ended(ts).retried = ts.retried /\ ended(ts).uid = ts.uid
             /\ ended(ts).code = IF ts.code = NoCode THEN "FrameworkAttemptCompletion" ELSE ts.code
  BY <1>2 DEF WithCode, TaskStatus
<1>4. \A t \in Tasks : s.tasks[t] \in TaskStatus
  BY DEF Status
<1> HIDE DEF ended, w, m
<1>5. n = [w EXCEPT !.state = m, !.tasks = [t \in Tasks |-> ended(s.tasks[t])]]
  BY DEF CompleteFrameworkAttempt, ended, w, m
<1>6. [t \in Tasks |-> ended(s.tasks[t])] \in [Tasks -> TaskStatus]
  BY <1>3, <1>4
<1> HIDE DEF n
<1>7. /\ n \in Status /\ n.state = m /\ n.retried = w.retried /\ n.uid = w.uid /\ n.code = w.code
      /\ n.tasks = [t \in Tasks |-> ended(s.tasks[t])]
  BY <1>1, <1>2, <1>5, <1>6 DEF Status
<1>8. \A t \in Tasks : n.tasks[t] = ended(s.tasks[t])
  BY <1>7
<1> QED BY <1>1, <1>3, <1>4, <1>7, <1>8 DEF n, m

\* Unless it is forced, the tasks keep their instances.
LEMMA CompletionKeepsInstances ==
    ASSUME NEW s \in Status, NEW c \in Codes
    PROVE  LET n == CompleteFrameworkAttempt(s, FALSE, c)
           IN  /\ n.state = "AttemptDeletionPending" /\ n.uid = s.uid /\ n.retried = s.retried
               /\ \A t \in Tasks : SameInstance(n.tasks[t], s.tasks[t])
<1> DEFINE n == CompleteFrameworkAttempt(s, FALSE, c)
<1>1. /\ n.state = IF FALSE THEN "AttemptCompleted" ELSE "AttemptDeletionPending"
      /\ n.uid = s.uid /\ n.retried = s.retried
  BY FrameworkCompletion, Zenon
<1>2. \A t \in Tasks :
          /\ n.tasks[t].state = IF FALSE THEN "Completed" ELSE s.tasks[t].state
          /\ n.tasks[t].retried = s.tasks[t].retried /\ n.tasks[t].uid = s.tasks[t].uid
          /\ n.tasks[t].code = IF s.tasks[t].code = NoCode
                               THEN "FrameworkAttemptCompletion" ELSE s.tasks[t].code
  BY FrameworkCompletion, Zenon
<1> QED BY <1>1, <1>2 DEF SameInstance

\* The ranks of the states, in the order an attempt goes through them.
LEMMA Ranks ==
    /\ Rank("AttemptCreationPending") = 1 /\ Rank("AttemptCreationRequested") = 2
    /\ Rank("AttemptPreparing") = 3       /\ Rank("AttemptRunning") = 4
    /\ Rank("AttemptDeletionPending") = 5 /\ Rank("AttemptDeletionRequested") = 6
    /\ Rank("AttemptDeleting") = 7        /\ Rank("AttemptCompleted") = 8
    /\ Rank("Completed") = 9
<1>1. DOMAIN StateOrder = 1..9
  BY DEF StateOrder
<1>2. ASSUME NEW i \in 1..9 PROVE Rank(StateOrder[i]) = i
  <2>1. \A j \in 1..9 : StateOrder[j] = StateOrder[i] => j = i
    BY DEF StateOrder
  <2> QED BY <1>1, <2>1 DEF Rank
<1> QED BY <1>2 DEF StateOrder

\* Every state has its place in the order of an attempt.
LEMMA RankTyped == \A state \in States : Rank(state) \in 1..9
BY StatesListed, Ranks

\* A status is as late as itself, and what is later than a later one is later.
LEMMA ExposedReflexive == ASSUME NEW s \in Status \union {NoStatus} PROVE Exposed(s, s)
BY RankTyped DEF Exposed, Later, Status, TaskStatus

\* Later than a later status is later ...
LEMMA LaterTransitive ==
    ASSUME NEW S \in {Status, TaskStatus}, NEW a \in S, NEW b \in S, NEW c \in S,
           Later(a, b), Later(b, c)
    PROVE  Later(a, c)
<1>1. /\ a.retried \in Nat /\ b.retried \in Nat /\ c.retried \in Nat
      /\ Rank(a.state) \in 1..9 /\ Rank(b.state) \in 1..9 /\ Rank(c.state) \in 1..9
  <2>1. CASE S = Status
    BY <2>1, RankTyped DEF Status
  <2>2. CASE S = TaskStatus
    BY <2>2, RankTyped DEF TaskStatus
  <2> QED BY <2>1, <2>2
<1> QED BY <1>1 DEF Later

\* ... and so it is for what clients may see.
LEMMA ExposedTransitive ==
    ASSUME NEW a \in Status \union {NoStatus}, NEW b \in Status \union {NoStatus},
           NEW c \in Status \union {NoStatus}, Exposed(a, b), Exposed(b, c)
    PROVE  Exposed(a, c)
<1> SUFFICES ASSUME c # NoStatus PROVE Exposed(a, c)
  BY DEF Exposed
<1>1. /\ a \in Status /\ b \in Status /\ c \in Status
      /\ Later(a, b) /\ Later(b, c) /\ a # NoStatus
  BY DEF Exposed
<1>2. Later(a, c)
  BY <1>1, LaterTransitive
<1>3. ASSUME a.retried = c.retried, NEW t \in Tasks PROVE Later(a.tasks[t], c.tasks[t])
  <2>1. a.retried \in Nat /\ b.retried \in Nat /\ c.retried \in Nat
    BY <1>1 DEF Status
  <2>2. a.retried = b.retried /\ b.retried = c.retried
    BY <1>1, <1>3, <2>1 DEF Later
  <2>3. Later(a.tasks[t], b.tasks[t]) /\ Later(b.tasks[t], c.tasks[t])
    BY <1>1, <2>2 DEF Exposed
  <2>4. a.tasks[t] \in TaskStatus /\ b.tasks[t] \in TaskStatus /\ c.tasks[t] \in TaskStatus
    BY <1>1 DEF Status
  <2> QED BY <2>3, <2>4, LaterTransitive
<1> QED BY <1>1, <1>2, <1>3 DEF Exposed

(***************************************************************************)
(* The decisions of the sync of the framework.                             *)
(***************************************************************************)
\* What a decision may make of the status of the framework.
FrameworkMove(new) ==
    /\ new \in Status /\ Exposed(new, Status0) /\ Sound(new)
    /\ \A t \in Tasks : new.tasks[t].state = "AttemptRunning" =>
          /\ Status0 \in Status /\ Status0.tasks[t].state = "AttemptRunning"
          /\ new.tasks[t].uid = Status0.tasks[t].uid

\* The decisions that go on with the tasks.
GoesOn(new) ==
    /\ Status0 \in Status
    /\ new.state \in HasInstance /\ new.uid # 0 /\ new.retried = Status0.retried
    /\ \A t \in Tasks : SameInstance(new.tasks[t], Status0.tasks[t])

\* What every decision starts from.
LEMMA SyncFacts ==
    ASSUME StatusInv, Syncing
    PROVE  /\ worker \in Worker /\ worker # Idle /\ job \in Frameworks
           /\ Status0 \in Status \union {NoStatus}
           /\ expected # NoInfo /\ Status0 = expected.status /\ Status0 = remote
           /\ Status0 # NoStatus => Status0 \in Status /\ Sound(Status0) /\ RunningWasSeen(Status0)
<1>1. worker # Idle /\ worker \in Worker /\ job \in Frameworks
  BY DEF StatusInv, TypeOK, Syncing, Idle
<1>2. expected # NoInfo /\ worker.status = expected.status /\ expected.status = remote
  BY <1>1 DEF StatusInv, WorkerFits, ExpectedFits, Syncing
<1>3. worker.status \in Status \union {NoStatus}
  BY <1>1 DEF Worker
<1>4. worker.status # NoStatus => worker.status \in Held
  BY <1>1 DEF Held
<1> QED BY <1>1, <1>2, <1>3, <1>4 DEF StatusInv, Status0

\* The absence of a completion status is not one.
LEMMA NoCodeIsNoCode == NoCode \notin Codes
BY DEF NoCode, Codes, Transient, Permanent, Refusals

\* The completion of an attempt is a move, and as a success only if all tasks succeeded.
LEMMA CompletionMoves ==
    ASSUME NEW s \in Status, NEW force \in BOOLEAN, NEW c \in Codes,
           s.state \notin Ended, force \/ s.state \notin Completing,
           \A t \in Tasks : s.tasks[t].state = "AttemptCreationPending" => s.tasks[t].uid = 0,
           PlatformPolicy /\ "Succeeded" \in {c, s.code} =>
               \A t \in Tasks : s.tasks[t].state = "Completed" /\ s.tasks[t].code = "Succeeded"
    PROVE  LET n == CompleteFrameworkAttempt(s, force, c)
           IN  n \in Status /\ Exposed(n, s) /\ Sound(n)
<1> DEFINE n == CompleteFrameworkAttempt(s, force, c)
<1>1. /\ n \in Status
      /\ n.state = IF force THEN "AttemptCompleted" ELSE "AttemptDeletionPending"
      /\ n.retried = s.retried /\ n.uid = s.uid
      /\ n.code = IF s.code = NoCode THEN c ELSE s.code
      /\ \A t \in Tasks :
            /\ n.tasks[t].state = IF force THEN "Completed" ELSE s.tasks[t].state
            /\ n.tasks[t].retried = s.tasks[t].retried /\ n.tasks[t].uid = s.tasks[t].uid
            /\ n.tasks[t].code = IF s.tasks[t].code = NoCode
                                 THEN "FrameworkAttemptCompletion" ELSE s.tasks[t].code
  BY FrameworkCompletion
<1> HIDE DEF n
<1>2. s.state \in States /\ s.retried \in Nat /\ \A t \in Tasks : s.tasks[t] \in TaskStatus
  BY DEF Status
<1>3. Later(n, s)
  BY <1>1, <1>2, Ranks, StatesListed DEF Later, Ended, Completing
<1>4. ASSUME NEW t \in Tasks PROVE Later(n.tasks[t], s.tasks[t])
  BY <1>1, <1>2, Ranks, RankTyped DEF Later, TaskStatus
<1>5. Exposed(n, s)
  BY <1>1, <1>3, <1>4, NotNothing DEF Exposed
<1>6. n.code # NoCode /\ \A t \in Tasks : n.tasks[t].code # NoCode
  BY <1>1, NoCodeIsNoCode DEF NoCode
<1>7. ASSUME PlatformPolicy PROVE SucceedsAsGang(n)
  <2>1. n.state \in Completing \union Ended
    BY <1>1 DEF Completing, Ended
  <2>2. n.code = "Succeeded" =>
          \A t \in Tasks : s.tasks[t].state = "Completed" /\ s.tasks[t].code = "Succeeded"
    BY <1>1, <1>7
  <2> QED BY <1>1, <2>1, <2>2 DEF SucceedsAsGang, NoCode
<1>8. Sound(n)
  BY <1>1, <1>6, <1>7 DEF Sound, Ended
<1> QED BY <1>1, <1>5, <1>8 DEF n

\* As many tasks as there are: all of them.
LEMMA CountFacts ==
    ASSUME NEW S, IsFiniteSet(S), NEW T \in SUBSET S
    PROVE  /\ Cardinality(T) >= Cardinality(S) => T = S
           /\ T # {} => Cardinality(T) >= 1
<1>1. /\ IsFiniteSet(T) /\ Cardinality(T) <= Cardinality(S)
      /\ Cardinality(S) = Cardinality(T) => S = T
  BY FS_Subset
<1>2. Cardinality(T) \in Nat /\ Cardinality(S) \in Nat
  BY <1>1, FS_CardinalityType
<1>3. Cardinality(T) = 0 <=> T = {}
  BY <1>1, FS_EmptySet
<1> QED BY <1>1, <1>2, <1>3

\* The codes of completed tasks, and what a policy that waits for all tasks counts.
LEMMA TaskCounts ==
    ASSUME job \in Frameworks, NEW s \in Status,
           \A t \in Tasks : s.tasks[t].state \in Ended => s.tasks[t].code # NoCode
    PROVE  /\ CompletedTasks(s) \subseteq Tasks /\ FailedTasks(s) \subseteq CompletedTasks(s)
           /\ \A t \in FailedTasks(s) : s.tasks[t].code \in Codes \ {"Succeeded"}
           /\ PlatformPolicy => MinFailed >= 1
           /\ PlatformPolicy /\ FailedTasks(s) # {} => Cardinality(FailedTasks(s)) >= MinFailed
           /\ PlatformPolicy /\ Cardinality(SucceededTasks(s)) >= MinSucceeded =>
                 SucceededTasks(s) = Tasks
<1>1. IsFiniteSet(Tasks)
  BY JobFacts
<1>2. \A t \in Tasks : s.tasks[t].code \in Codes \union {NoCode}
  BY DEF Status, TaskStatus
<1>3. /\ CompletedTasks(s) \in SUBSET Tasks /\ FailedTasks(s) \in SUBSET Tasks
      /\ SucceededTasks(s) \in SUBSET Tasks
  BY DEF CompletedTasks, FailedTasks, SucceededTasks
<1>4. \A t \in FailedTasks(s) : s.tasks[t].code \in Codes \ {"Succeeded"}
  BY <1>2 DEF FailedTasks, CompletedTasks, Ended
<1>5. PlatformPolicy /\ FailedTasks(s) # {} => Cardinality(FailedTasks(s)) >= MinFailed
  BY <1>1, <1>3, CountFacts DEF PlatformPolicy
<1>6. PlatformPolicy /\ Cardinality(SucceededTasks(s)) >= MinSucceeded => SucceededTasks(s) = Tasks
  BY <1>1, <1>3, CountFacts DEF PlatformPolicy
<1>7. PlatformPolicy => MinFailed >= 1
  BY DEF PlatformPolicy
<1>8. FailedTasks(s) \subseteq CompletedTasks(s)
  BY DEF FailedTasks
<1> QED BY <1>3, <1>4, <1>5, <1>6, <1>7, <1>8

\* A completion policy ends an attempt with the code of a failed task, or as a success;
\* under the policy of the platform as a success only if all tasks succeeded.
LEMMA TriggeredIsRight ==
    ASSUME job \in Frameworks, NEW s \in Status, Sound(s), NEW c \in TriggeredCodes(s)
    PROVE  /\ c \in Codes
           /\ c = "Succeeded" /\ PlatformPolicy =>
                 \A t \in Tasks : s.tasks[t].state = "Completed" /\ s.tasks[t].code = "Succeeded"
<1> DEFINE failed == IF MinFailed >= 1 /\ Cardinality(FailedTasks(s)) >= MinFailed
                     THEN { s.tasks[t].code : t \in FailedTasks(s) } ELSE {}
           succeeded == IF MinSucceeded >= 1 /\ Cardinality(SucceededTasks(s)) >= MinSucceeded
                        THEN {"Succeeded"} ELSE {}
<1>1. \/ c \in failed
      \/ c \in succeeded
      \/ failed \union succeeded = {} /\ CompletedTasks(s) = Tasks /\ c = "Succeeded"
  BY DEF TriggeredCodes
<1> USE DEF Sound
<1>2. \A d \in failed : d \in Codes \ {"Succeeded"}
  BY TaskCounts
<1>3. "Succeeded" \in Codes
  BY DEF Codes
<1>4. c \in Codes
  BY <1>1, <1>2, <1>3
<1>5. ASSUME c = "Succeeded", PlatformPolicy PROVE SucceededTasks(s) = Tasks
  <2>1. CASE c \in succeeded
    BY <1>5, <2>1, TaskCounts
  <2>2. CASE failed \union succeeded = {} /\ CompletedTasks(s) = Tasks
    <3>1. FailedTasks(s) = {}
      BY <1>5, <2>2, TaskCounts
    <3> QED BY <2>2, <3>1 DEF SucceededTasks
  <2> QED BY <1>1, <1>2, <1>5, <2>1, <2>2
<1>6. \A t \in SucceededTasks(s) : s.tasks[t].state = "Completed" /\ s.tasks[t].code = "Succeeded"
  BY DEF SucceededTasks, FailedTasks, CompletedTasks
<1> QED BY <1>4, <1>5, <1>6

\* A decision that leaves the tasks as they are.
LEMMA SameTasksMove ==
    ASSUME NEW old \in Status, Sound(old), NEW new \in Status,
           \A t \in Tasks : new.tasks[t] = old.tasks[t],
           Later(new, old),
           new.state = "AttemptCreationPending" => new.uid = 0,
           new.state \in Ended => old.state \in Ended /\ new.code # NoCode,
           old.state \in Completing \union Ended => new.state \in Completing \union Ended,
           new.code = "Succeeded" => old.code = "Succeeded"
    PROVE  Exposed(new, old) /\ Sound(new)
<1>1. \A t \in Tasks : old.tasks[t] \in TaskStatus
  BY DEF Status
<1>2. \A t \in Tasks : Later(new.tasks[t], old.tasks[t])
  BY <1>1, RankTyped DEF Later, TaskStatus
<1>3. Exposed(new, old)
  BY <1>2, NotNothing DEF Exposed
<1>4. FailedTasks(new) = FailedTasks(old)
  BY DEF FailedTasks, CompletedTasks
<1>5. ASSUME PlatformPolicy PROVE SucceedsAsGang(new)
  BY <1>4, <1>5 DEF Sound, SucceedsAsGang
<1>6. Sound(new)
  BY <1>5 DEF Sound
<1> QED BY <1>3, <1>6

\* The status of a new task attempt is one.
LEMMA NewTaskStatusTyped ==
    \A retried, accounted \in Nat :
        /\ NewTaskStatus(retried, accounted) \in TaskStatus
        /\ NewTaskStatus(retried, accounted).state = "AttemptCreationPending"
        /\ NewTaskStatus(retried, accounted).retried = retried
        /\ NewTaskStatus(retried, accounted).uid = 0
        /\ NewTaskStatus(retried, accounted).code = NoCode
BY StatesListed DEF NewTaskStatus, TaskStatus

\* A new attempt has nothing yet.
LEMMA NewStatusIsSound ==
    ASSUME NEW retried \in Nat, NEW accounted \in Nat
    PROVE  LET n == NewStatus(retried, accounted)
           IN  /\ n \in Status /\ Sound(n) /\ n.retried = retried
               /\ n.state = "AttemptCreationPending"
               /\ \A t \in Tasks : n.tasks[t].state = "AttemptCreationPending"
<1> DEFINE n == NewStatus(retried, accounted)
<1>1. NewTaskStatus(0, 0) \in TaskStatus /\ NewTaskStatus(0, 0).state = "AttemptCreationPending"
      /\ NewTaskStatus(0, 0).uid = 0
  BY NewTaskStatusTyped
<1>2. /\ n \in Status /\ n.retried = retried /\ n.state = "AttemptCreationPending" /\ n.uid = 0
      /\ n.code = NoCode /\ \A t \in Tasks : n.tasks[t] = NewTaskStatus(0, 0)
  BY <1>1, StatesListed DEF NewStatus, Status
<1> HIDE DEF n
<1>3. FailedTasks(n) = {}
  BY <1>1, <1>2 DEF FailedTasks, CompletedTasks
<1>4. Sound(n)
  BY <1>1, <1>2, <1>3 DEF Sound, SucceedsAsGang, Ended, NoCode
<1> QED BY <1>1, <1>2, <1>4 DEF n

\* A decided status is a move ...
LEMMA DecideMoves ==
    ASSUME StatusInv, Syncing,
           \/ CreateStatus \/ BackUpGracePeriod \/ SkipCompleted \/ WaitForConfigMap
           \/ ConfigMapDisappeared \/ CompleteFramework \/ DelayRetry \/ RetryFramework
    PROVE  \E new : Decide(new) /\ FrameworkMove(new)
<1> USE SyncFacts
<1>1. CASE CreateStatus
  <2> DEFINE n == NewStatus(0, 0)
  <2>1. n \in Status /\ Sound(n) /\ \A t \in Tasks : n.tasks[t].state = "AttemptCreationPending"
    BY NewStatusIsSound
  <2>2. Status0 = NoStatus /\ Decide(n)
    BY <1>1 DEF CreateStatus
  <2> HIDE DEF n
  <2> QED BY <2>1, <2>2 DEF FrameworkMove, Exposed
<1>2. CASE SkipCompleted \/ WaitForConfigMap
  <2>1. Decide(Status0) /\ Status0 # NoStatus
    BY <1>2 DEF SkipCompleted, WaitForConfigMap, Settled
  <2>2. Exposed(Status0, Status0)
    BY ExposedReflexive
  <2> QED BY <2>1, <2>2 DEF FrameworkMove
<1>3. CASE BackUpGracePeriod \/ CompleteFramework \/ DelayRetry
  <2>1. Status0 \in Status /\ Sound(Status0)
    BY <1>3 DEF BackUpGracePeriod, CompleteFramework, DelayRetry, Settled
  <2>2. GracePeriod \in BOOLEAN /\ "Completed" \in States
    BY JobFacts, StatesListed
  <2>3. PICK new \in Status :
          /\ Decide(new) /\ new.tasks = Status0.tasks /\ new.retried = Status0.retried
          /\ new.uid = Status0.uid /\ new.code = Status0.code
          /\ \/ new.state = Status0.state
             \/ Status0.state = "AttemptCompleted" /\ new.state = "Completed"
    <3>1. CASE BackUpGracePeriod
      <4>1. [Status0 EXCEPT !.graced = GracePeriod] \in Status
        BY <2>1, <2>2 DEF Status
      <4> QED BY <2>1, <4>1, <3>1 DEF BackUpGracePeriod, Status
    <3>2. CASE CompleteFramework
      <4>1. [Status0 EXCEPT !.state = "Completed"] \in Status
        BY <2>1, <2>2 DEF Status
      <4> QED BY <2>1, <4>1, <3>2 DEF CompleteFramework, Status
    <3>3. CASE DelayRetry
      <4>1. [Status0 EXCEPT !.delayed = TRUE] \in Status
        BY <2>1, <2>2 DEF Status
      <4> QED BY <2>1, <4>1, <3>3 DEF DelayRetry, Status
    <3> QED BY <1>3, <3>1, <3>2, <3>3
  <2>4. Later(new, Status0)
    BY <2>1, <2>3, Ranks, RankTyped DEF Later, Status
  <2>5. Exposed(new, Status0) /\ Sound(new)
    BY <2>1, <2>3, <2>4, SameTasksMove DEF Ended, Completing, Sound
  <2> QED BY <2>1, <2>3, <2>5 DEF FrameworkMove
<1>4. CASE ConfigMapDisappeared
  <2> DEFINE n == CompleteFrameworkAttempt(Status0, TRUE, "ConfigMapExternalDeleted")
  <2>1. Status0 \in Status /\ Sound(Status0) /\ Status0.state \notin Ended /\ Decide(n)
    BY <1>4 DEF ConfigMapDisappeared, Settled
  <2>2. "ConfigMapExternalDeleted" \in Codes
    BY DEF Codes, Transient
  <2>3. n \in Status /\ Exposed(n, Status0) /\ Sound(n)
    BY <2>1, <2>2, CompletionMoves DEF Sound, SucceedsAsGang
  <2>4. \A t \in Tasks : n.tasks[t].state = "Completed"
    BY <2>1, <2>2, FrameworkCompletion
  <2> HIDE DEF n
  <2> QED BY <2>1, <2>3, <2>4 DEF FrameworkMove
<1>5. CASE RetryFramework
  <2> DEFINE accounted == Status0.accounted + IF Decision0.counted THEN 1 ELSE 0
             n == NewStatus(Status0.retried + 1, accounted)
  <2>1. Status0 \in Status /\ Decide(n)
    BY <1>5 DEF RetryFramework, Settled
  <2>2. Status0.retried \in Nat /\ Status0.retried + 1 \in Nat /\ accounted \in Nat
    BY <2>1 DEF Status
  <2>3. /\ n \in Status /\ Sound(n) /\ n.retried = Status0.retried + 1
        /\ \A t \in Tasks : n.tasks[t].state = "AttemptCreationPending"
    BY <2>2, NewStatusIsSound
  <2> HIDE DEF n
  <2>4. Exposed(n, Status0)
    BY <2>2, <2>3, NotNothing DEF Exposed, Later
  <2> QED BY <2>1, <2>3, <2>4 DEF FrameworkMove
<1> QED BY <1>1, <1>2, <1>3, <1>4, <1>5

\* ... unless a call fails, or deletes another object under the name.
Cleans ==
    /\ worker' = [worker EXCEPT !.cleaned = TRUE]
    /\ UNCHANGED <<specVars, cacheVars, statusVars, queueVars>>

\* What the sync decides after a call on the ConfigMap.
LEMMA CallsMove ==
    ASSUME StatusInv, Syncing,
           CleanUpConfigMap \/ GiveUpOnConfigMap \/ StopBeforeCreation \/ CreateConfigMap
    PROVE  Abort \/ Cleans \/ \E new : Decide(new) /\ FrameworkMove(new)
<1> USE SyncFacts
<1> SUFFICES ASSUME ~Abort PROVE Cleans \/ \E new : Decide(new) /\ FrameworkMove(new)
  OBVIOUS
<1>1. CASE CleanUpConfigMap
  BY <1>1 DEF CleanUpConfigMap, Cleans
<1>2. CASE GiveUpOnConfigMap \/ StopBeforeCreation
  <2>1. Status0 \in Status /\ Sound(Status0) /\ Status0.state \notin Ended
    BY <1>2 DEF GiveUpOnConfigMap, StopBeforeCreation, Settled, Ended
  <2>2. PICK c \in {"StopFrameworkRequested", "ConfigMapCreationTimeout"} :
            Decide(CompleteFrameworkAttempt(Status0, TRUE, c))
    BY <1>2 DEF GiveUpOnConfigMap, StopBeforeCreation
  <2> DEFINE n == CompleteFrameworkAttempt(Status0, TRUE, c)
  <2>3. c \in Codes /\ c # "Succeeded"
    BY DEF Codes, Transient, Permanent
  <2>4. n \in Status /\ Exposed(n, Status0) /\ Sound(n)
    BY <2>1, <2>3, CompletionMoves DEF Sound, SucceedsAsGang
  <2>5. \A t \in Tasks : n.tasks[t].state = "Completed"
    BY <2>1, <2>3, FrameworkCompletion
  <2> HIDE DEF n
  <2>6. Decide(n)
    BY <2>2 DEF n
  <2> QED BY <2>1, <2>4, <2>5, <2>6 DEF FrameworkMove
<1>3. CASE CreateConfigMap
  <2> DEFINE u == uids.cm + 1
             n == [Status0 EXCEPT !.uid = u, !.state = "AttemptCreationRequested"]
  <2>1. Status0 \in Status /\ Sound(Status0) /\ Status0.state = "AttemptCreationPending"
    BY <1>3 DEF CreateConfigMap, Settled
  <2>2. u \in Nat /\ "AttemptCreationRequested" \in States
    BY StatesListed DEF StatusInv, TypeOK
  <2> HIDE DEF u
  <2>3. /\ n \in Status /\ n.state = "AttemptCreationRequested" /\ n.retried = Status0.retried
        /\ n.code = Status0.code /\ n.tasks = Status0.tasks
    BY <2>1, <2>2 DEF Status
  <2>4. Decide(n)
    <3>1. /\ NewConfigMap
          /\ Decide([Status0 EXCEPT !.uid = cm'.uid, !.state = "AttemptCreationRequested"])
      BY <1>3 DEF CreateConfigMap
    <3>2. cm'.uid = u
      BY <3>1 DEF NewConfigMap, u
    <3> QED BY <3>1, <3>2
  <2> HIDE DEF n
  <2>5. Later(n, Status0)
    BY <2>1, <2>3, Ranks DEF Later, Sound, Status
  <2>6. Exposed(n, Status0) /\ Sound(n)
    BY <2>1, <2>3, <2>5, SameTasksMove DEF Ended, Completing
  <2> QED BY <2>1, <2>3, <2>4, <2>6 DEF FrameworkMove
<1> QED BY <1>1, <1>2, <1>3

\* A decision that goes on with the tasks: the managed ConfigMap was seen.
LEMMA GoOnMoves ==
    ASSUME StatusInv, Syncing, RequestConfigMapDeletion \/ SyncAttempt \/ ConfigMapDeleting
    PROVE  Abort \/ \E new : GoOn(new) /\ FrameworkMove(new) /\ GoesOn(new)
<1> USE SyncFacts
<1> SUFFICES ASSUME ~Abort
             PROVE  \E new : GoOn(new) /\ FrameworkMove(new) /\ GoesOn(new)
  OBVIOUS
<1>1. Status0 \in Status /\ Sound(Status0) /\ CmSeen
  BY DEF RequestConfigMapDeletion, SyncAttempt, ConfigMapDeleting, Settled
<1>2. Status0.uid # 0 /\ Status0.state # "AttemptCreationPending"
  BY <1>1 DEF StatusInv, TypeOK, CmSeen, ConfigMap, Sound
<1>3. /\ Status0.state \in States /\ Status0.retried \in Nat /\ Status0.uid \in Nat
      /\ Status0.code \in Codes \union {NoCode}
      /\ \A t \in Tasks : Status0.tasks[t] \in TaskStatus
  BY <1>1 DEF Status
<1>4. ASSUME NEW s \in Status, GoOn(s), s.tasks = Status0.tasks, s.uid = Status0.uid,
             s.state \in HasInstance, Later(s, Status0), s.retried = Status0.retried,
             s.code = "Succeeded" => Status0.code = "Succeeded",
             Status0.state \in Completing \union Ended => s.state \in Completing \union Ended
      PROVE  \E new : GoOn(new) /\ FrameworkMove(new) /\ GoesOn(new)
  <2>1. Exposed(s, Status0) /\ Sound(s)
    BY <1>1, <1>4, SameTasksMove DEF HasInstance, Completing, Ended
  <2> QED BY <1>1, <1>2, <1>4, <2>1 DEF FrameworkMove, GoesOn, SameInstance
<1>5. CASE RequestConfigMapDeletion
  <2> DEFINE n == [Status0 EXCEPT !.state = "AttemptDeletionRequested"]
  <2>1. /\ n \in Status /\ n.state = "AttemptDeletionRequested" /\ n.tasks = Status0.tasks
        /\ n.uid = Status0.uid /\ n.code = Status0.code /\ n.retried = Status0.retried
    BY <1>1, StatesListed DEF Status
  <2>2. GoOn(n) /\ Status0.state = "AttemptDeletionPending"
    BY <1>5 DEF RequestConfigMapDeletion
  <2> HIDE DEF n
  <2> QED BY <1>3, <1>4, <2>1, <2>2, Ranks DEF Later, HasInstance, Completing
<1>6. CASE ConfigMapDeleting
  <2> DEFINE n == [WithCode(Status0, "ConfigMapExternalDeleted") EXCEPT !.state = "AttemptDeleting"]
  <2>1. /\ n \in Status /\ n.state = "AttemptDeleting" /\ n.tasks = Status0.tasks
        /\ n.uid = Status0.uid /\ n.retried = Status0.retried
        /\ n.code = IF Status0.code = NoCode THEN "ConfigMapExternalDeleted" ELSE Status0.code
    BY <1>1, StatesListed DEF Status, WithCode, Codes, Transient
  <2>2. GoOn(n) /\ Status0.state \notin Ended
    BY <1>6 DEF ConfigMapDeleting
  <2> HIDE DEF n
  <2>3. Later(n, Status0)
    BY <1>3, <2>1, <2>2, Ranks, StatesListed DEF Later, Ended
  <2> QED BY <1>4, <2>1, <2>2, <2>3 DEF HasInstance, Completing
<1>7. CASE SyncAttempt
  <2> DEFINE s == IF Status0.state = "AttemptCreationRequested"
                  THEN [Status0 EXCEPT !.state = "AttemptPreparing"] ELSE Status0
  <2>1. Status0.state \notin Ended \union {"AttemptDeletionPending"}
    BY <1>7 DEF SyncAttempt
  <2>2. /\ s \in Status /\ s.tasks = Status0.tasks /\ s.uid = Status0.uid
        /\ s.retried = Status0.retried /\ s.code = Status0.code
        /\ s.state = IF Status0.state = "AttemptCreationRequested" THEN "AttemptPreparing"
                     ELSE Status0.state
    BY <1>1, StatesListed DEF Status
  <2>3. \/ GoOn(s)
        \/ s.state \notin Completing /\ GoOn(CompleteFrameworkAttempt(s, FALSE, "StopFrameworkRequested"))
        \/ s.state \notin Completing /\
           \E c \in TriggeredCodes(s) : GoOn(CompleteFrameworkAttempt(s, FALSE, c))
    BY <1>7 DEF SyncAttempt
  <2> HIDE DEF s
  <2>4. s.state \in HasInstance
    BY <1>2, <1>3, <2>1, <2>2, StatesListed DEF HasInstance, Completing, Ended
  <2>5. Later(s, Status0)
    BY <1>3, <2>2, Ranks, RankTyped DEF Later
  <2>6. Exposed(s, Status0) /\ Sound(s)
    BY <1>1, <2>2, <2>4, <2>5, SameTasksMove DEF HasInstance, Completing, Ended
  <2>7. ASSUME NEW c \in Codes, s.state \notin Completing,
               GoOn(CompleteFrameworkAttempt(s, FALSE, c)),
               c = "Succeeded" /\ PlatformPolicy =>
                  \A t \in Tasks : s.tasks[t].state = "Completed" /\ s.tasks[t].code = "Succeeded"
        PROVE  \E new : GoOn(new) /\ FrameworkMove(new) /\ GoesOn(new)
    <3> DEFINE n == CompleteFrameworkAttempt(s, FALSE, c)
    <3>1. n \in Status /\ Exposed(n, s) /\ Sound(n)
      <4>1. /\ \A t \in Tasks : s.tasks[t].state = "AttemptCreationPending" => s.tasks[t].uid = 0
            /\ PlatformPolicy /\ "Succeeded" \in {c, s.code} =>
                 \A t \in Tasks : s.tasks[t].state = "Completed" /\ s.tasks[t].code = "Succeeded"
        BY <2>6, <2>7 DEF Sound, SucceedsAsGang
      <4> QED
        BY <2>1, <2>2, <2>4, <2>7, <4>1, CompletionMoves DEF Ended, HasInstance, Completing
    <3>2. /\ n.state = "AttemptDeletionPending" /\ n.uid = s.uid /\ n.retried = s.retried
          /\ \A t \in Tasks : SameInstance(n.tasks[t], s.tasks[t])
      BY <2>2, CompletionKeepsInstances
    <3>3. GoOn(n)
      BY <2>7
    <3> HIDE DEF n
    <3>4. Exposed(n, Status0)
      BY <2>2, <2>6, <3>1, ExposedTransitive
    <3> QED
      BY <1>1, <1>2, <2>2, <3>1, <3>2, <3>3, <3>4
      DEF FrameworkMove, GoesOn, SameInstance, HasInstance, Completing
  <2>8. CASE GoOn(s)
    BY <1>1, <1>2, <2>2, <2>4, <2>6, <2>8 DEF FrameworkMove, GoesOn, SameInstance
  <2>9. "StopFrameworkRequested" \in Codes
    BY DEF Codes, Permanent
  <2> QED BY <2>2, <2>3, <2>6, <2>7, <2>8, <2>9, TriggeredIsRight
<1> QED BY <1>5, <1>6, <1>7

(***************************************************************************)
(* The steps of the sync of the framework keep the invariant.              *)
(***************************************************************************)
\* What is said of a status does not depend on the step.
LEMMA SoundStays == ASSUME UNCHANGED job, NEW s, Sound(s) PROVE Sound(s)'
BY DEF Sound, PlatformPolicy, SucceedsAsGang, FailedTasks, CompletedTasks, Tasks, MinFailed,
       MinSucceeded

\* What clients may see does not depend on the state, only on the framework.
LEMMA ExposedStays == ASSUME UNCHANGED job, NEW new, NEW old, Exposed(new, old)
                      PROVE  Exposed(new, old)'
BY DEF Exposed, Tasks

\* What is left of the bounds is a number.
LEMMA SpendTyped ==
    ASSUME budget \in [BoundNames -> Nat], NEW what \in BoundNames, Spend(what)
    PROVE  budget' \in [BoundNames -> Nat]
BY DEF Spend

\* Untouched objects keep their type.
LEMMA ObjectsKept ==
    ASSUME ObjTyped, UNCHANGED <<job, cm, pods, uids>>
    PROVE  ObjTyped'
BY StaticSets DEF ObjTyped

\* A ConfigMap that is marked is a ConfigMap.
LEMMA MarkConfigMapTyped ==
    ASSUME ObjTyped, UNCHANGED job, NEW uid, MarkConfigMap(uid)
    PROVE  ObjTyped' /\ UNCHANGED <<pods, uids>>
<1>1. cm' \in ConfigMap \union {NoObject}
  BY DEF MarkConfigMap, ObjTyped, ConfigMap
<1> QED BY <1>1, StaticSets DEF MarkConfigMap, ObjTyped, ConfigMap

\* So is a new one.
LEMMA NewConfigMapTyped ==
    ASSUME ObjTyped, UNCHANGED job, NewConfigMap
    PROVE  ObjTyped' /\ UNCHANGED pods /\ uids'.pod = uids.pod
<1> DEFINE u == uids.cm + 1
<1>1. u \in Nat \ {0} /\ uids \in [cm : Nat, pod : [Tasks -> Nat]]
  BY DEF ObjTyped
<1>2. cm' = [uid |-> u, deleting |-> FALSE, foreground |-> TRUE] /\ uids' = [uids EXCEPT !.cm = u]
      /\ UNCHANGED pods
  BY DEF NewConfigMap
<1> HIDE DEF u
<1>3. cm' \in ConfigMap /\ uids' \in [cm : Nat, pod : [Tasks -> Nat]] /\ uids'.pod = uids.pod
  BY <1>1, <1>2 DEF ConfigMap
<1> QED BY <1>2, <1>3, StaticSets DEF ObjTyped, ConfigMap

\* What a step of the sync of the framework leaves alone, and what it may do to objects.
LEMMA FrameworkCalls ==
    ASSUME StatusInv, SyncFramework
    PROVE  /\ Syncing /\ UNCHANGED <<specVars, cacheVars, statusVars, pods>>
           /\ uids'.pod = uids.pod
           /\ ObjTyped' /\ QueueTyped' /\ budget' \in [BoundNames -> Nat]
<1> USE DEF specVars, cacheVars, statusVars, queueVars, objVars, Settled, Decide, GoOn, Abort,
            Finish, Enqueue, StartTimer, NoEnqueue, NoCall
<1>1. /\ ObjTyped /\ QueueTyped /\ budget \in [BoundNames -> Nat]
      /\ "errors" \in BoundNames /\ "timeouts" \in BoundNames
  BY TypesByGroup DEF StatusInv, BoundNames
<1>2. ASSUME UNCHANGED <<job, objVars>> PROVE ObjTyped' /\ uids'.pod = uids.pod
  BY <1>1, <1>2, ObjectsKept
<1>3. CASE CreateStatus \/ BackUpGracePeriod \/ SkipCompleted \/ WaitForConfigMap
  BY <1>1, <1>2, <1>3 DEF CreateStatus, BackUpGracePeriod, SkipCompleted, WaitForConfigMap,
     QueueTyped
<1>4. CASE ConfigMapDisappeared \/ SyncAttempt \/ ConfigMapDeleting
  BY <1>1, <1>2, <1>4 DEF ConfigMapDisappeared, SyncAttempt, ConfigMapDeleting, QueueTyped
<1>5. CASE CompleteFramework \/ DelayRetry \/ RetryFramework
  BY <1>1, <1>2, <1>5 DEF CompleteFramework, DelayRetry, RetryFramework, QueueTyped
<1>6. ASSUME CleanUpConfigMap \/ GiveUpOnConfigMap \/ RequestConfigMapDeletion
             \/ StopBeforeCreation \/ CreateConfigMap
      PROVE  /\ Syncing /\ UNCHANGED <<specVars, cacheVars, statusVars>>
             /\ QueueTyped' /\ budget' \in [BoundNames -> Nat]
             /\ \/ UNCHANGED objVars \/ NewConfigMap \/ \E uid : MarkConfigMap(uid)
  <2>1. CASE CleanUpConfigMap
    BY <1>1, <2>1, SpendTyped DEF CleanUpConfigMap, QueueTyped
  <2>2. CASE GiveUpOnConfigMap
    BY <1>1, <2>2, SpendTyped DEF GiveUpOnConfigMap, QueueTyped
  <2>3. CASE RequestConfigMapDeletion
    BY <1>1, <2>3, SpendTyped DEF RequestConfigMapDeletion, QueueTyped
  <2>4. CASE StopBeforeCreation
    BY <1>1, <2>4, SpendTyped DEF StopBeforeCreation, QueueTyped
  <2>5. CASE CreateConfigMap
    BY <1>1, <2>5, SpendTyped DEF CreateConfigMap, QueueTyped
  <2> QED BY <1>6, <2>1, <2>2, <2>3, <2>4, <2>5
<1>7. CASE CleanUpConfigMap \/ GiveUpOnConfigMap \/ RequestConfigMapDeletion
           \/ StopBeforeCreation \/ CreateConfigMap
  <2>1. ObjTyped' /\ UNCHANGED pods /\ uids'.pod = uids.pod
    BY <1>1, <1>2, <1>6, <1>7, MarkConfigMapTyped, NewConfigMapTyped
  <2> QED BY <1>6, <1>7, <2>1
<1> QED BY <1>3, <1>4, <1>5, <1>7 DEF SyncFramework

\* The type invariant from its groups, after a step.
LEMMA TypesJoin ==
    ASSUME StatusTyped', SpecTyped', ObjTyped', CacheTyped', QueueTyped',
           (worker \in Worker \union {Idle})', budget' \in [BoundNames -> Nat]
    PROVE  TypeOK'
BY DEF TypeOK, StatusTyped, SpecTyped, ObjTyped, CacheTyped, QueueTyped

\* A step that leaves the specification, the caches and the other statuses alone keeps
\* their types, and what is said of them.
LEMMA OthersStay ==
    ASSUME StatusInv, UNCHANGED <<specVars, cacheVars, statusVars>>
    PROVE  /\ StatusTyped' /\ SpecTyped' /\ CacheTyped' /\ ExpectedFits'
           /\ UNCHANGED <<job, remote, expected, podCache>>
           /\ Status' = Status /\ Worker' = Worker /\ Tasks' = Tasks
           /\ worker' = Idle => Held' \subseteq Held
           /\ worker' # Idle => Held' \subseteq Held \union ({worker'.status} \ {NoStatus})
<1>1. UNCHANGED <<job, exec, fCache, fNews, cmCache, podCache, remote, expected>>
  BY DEF specVars, cacheVars, statusVars
<1>2. StatusTyped /\ SpecTyped /\ CacheTyped /\ ExpectedFits
  BY TypesByGroup DEF StatusInv
<1>3. /\ Status' = Status /\ Worker' = Worker /\ Tasks' = Tasks /\ Pod' = Pod
  BY <1>1, StaticSets
<1>4. StatusTyped' /\ SpecTyped' /\ CacheTyped'
  BY <1>1, <1>2, <1>3 DEF StatusTyped, SpecTyped, CacheTyped
<1>5. ExpectedFits'
  BY <1>1, <1>2, ExposedStays DEF ExpectedFits
<1>6. /\ worker' = Idle => Held' \subseteq Held
      /\ worker' # Idle => Held' \subseteq Held \union ({worker'.status} \ {NoStatus})
  BY <1>1 DEF Held
<1> QED BY <1>1, <1>3, <1>4, <1>5, <1>6

\* A decided status is persisted later, or goes through the tasks.
LEMMA DecidedOK ==
    ASSUME StatusInv, SyncFramework, NEW new, FrameworkMove(new),
           Decide(new) \/ (GoOn(new) /\ GoesOn(new))
    PROVE  StatusInv'
<1>1. /\ Syncing /\ UNCHANGED <<specVars, cacheVars, statusVars, pods>>
      /\ uids'.pod = uids.pod
      /\ ObjTyped' /\ QueueTyped' /\ budget' \in [BoundNames -> Nat]
  BY FrameworkCalls
<1>2. /\ worker \in Worker /\ expected # NoInfo /\ Status0 = expected.status
      /\ expected.synced /\ Status0 \in Status \union {NoStatus}
      /\ Status0 \in Status => RunningWasSeen(Status0)
  BY <1>1, SyncFacts, NotNothing DEF StatusInv, WorkerFits, Syncing
<1>3. /\ new \in Status /\ Exposed(new, Status0) /\ Sound(new)
  BY DEF FrameworkMove
<1>4. /\ worker' \in Worker /\ worker'.status = new
      /\ \/ worker'.stage = "update"
         \/ worker'.stage = "tasks" /\ worker'.todo = Tasks /\ GoesOn(new)
  BY <1>2, <1>3 DEF Decide, GoOn, Worker
<1>5. /\ StatusTyped' /\ SpecTyped' /\ CacheTyped' /\ ExpectedFits'
      /\ UNCHANGED <<job, remote, expected, podCache>>
      /\ Status' = Status /\ Worker' = Worker /\ Tasks' = Tasks
      /\ Held' \subseteq Held \union {new}
  BY <1>1, <1>4, OthersStay, NotNothing
<1>6. TypeOK'
  BY <1>1, <1>4, <1>5, TypesJoin
<1>7. WorkerFits'
  <2>1. Exposed(worker.status, expected.status)'
    BY <1>2, <1>3, <1>4, <1>5, ExposedStays
  <2>2. Tasks # {}
    BY JobFacts DEF StatusInv, TypeOK
  <2>3. expected' # NoInfo /\ expected'.synced
    BY <1>2, <1>5
  <2>4. worker'.stage = "tasks" =>
          /\ expected'.status \in Status'
          /\ new.state \in HasInstance /\ new.uid # 0 /\ new.retried = expected'.status.retried
          /\ worker'.todo # {} /\ worker'.todo = Tasks
          /\ \A t \in Tasks : SameInstance(new.tasks[t], expected'.status.tasks[t])
    BY <1>2, <1>4, <1>5, <2>2 DEF GoesOn
  <2> QED BY <1>3, <1>4, <1>5, <2>1, <2>3, <2>4 DEF WorkerFits
<1>8. ASSUME NEW s \in Held' PROVE Sound(s)' /\ RunningWasSeen(s)'
  <2>1. CASE s \in Held
    BY <1>1, <1>5, <2>1, SoundStays DEF StatusInv, RunningWasSeen
  <2>2. CASE s = new
    <3>1. RunningWasSeen(new)
      BY <1>2 DEF FrameworkMove, RunningWasSeen
    <3> QED BY <1>1, <1>3, <1>5, <2>2, <3>1, SoundStays DEF RunningWasSeen
  <2> QED BY <1>5, <2>1, <2>2
<1>9. \A t \in Tasks' : CacheFollows(t)'
  BY <1>1, <1>5 DEF StatusInv, CacheFollows
<1> QED BY <1>5, <1>6, <1>7, <1>8, <1>9 DEF StatusInv

\* A sync that is given up, or that has deleted another object under the name.
LEMMA AbortOrCleanOK ==
    ASSUME StatusInv, SyncFramework, Abort \/ Cleans
    PROVE  StatusInv'
<1>1. /\ Syncing /\ UNCHANGED <<specVars, cacheVars, statusVars, pods>>
      /\ uids'.pod = uids.pod
      /\ ObjTyped' /\ QueueTyped' /\ budget' \in [BoundNames -> Nat]
  BY FrameworkCalls
<1>2. /\ worker \in Worker /\ worker # Idle
  BY <1>1, SyncFacts
<1>3. \/ worker' = Idle
      \/ /\ worker' \in Worker /\ worker'.status = worker.status
         /\ worker'.stage = "sync"
  BY <1>1, <1>2 DEF Abort, Cleans, Finish, Worker, Syncing
<1>4. /\ StatusTyped' /\ SpecTyped' /\ CacheTyped' /\ ExpectedFits'
      /\ UNCHANGED <<job, remote, expected, podCache>>
      /\ Status' = Status /\ Worker' = Worker /\ Tasks' = Tasks
      /\ Held' \subseteq Held
  BY <1>1, <1>2, <1>3, OthersStay DEF Held
<1>5. TypeOK'
  BY <1>1, <1>3, <1>4, TypesJoin
<1>6. WorkerFits'
  BY <1>1, <1>2, <1>3, <1>4, ExposedStays DEF WorkerFits, StatusInv, Syncing
<1>7. ASSUME NEW s \in Held' PROVE Sound(s)' /\ RunningWasSeen(s)'
  BY <1>1, <1>4, SoundStays DEF StatusInv, RunningWasSeen
<1>8. \A t \in Tasks' : CacheFollows(t)'
  BY <1>1, <1>4 DEF StatusInv, CacheFollows
<1> QED BY <1>5, <1>4, <1>6, <1>7, <1>8 DEF StatusInv

\* Every step of the sync of the framework keeps the invariant.
LEMMA SyncFrameworkOK == ASSUME StatusInv, SyncFramework PROVE StatusInv'
<1>1. Syncing
  BY FrameworkCalls
<1> QED
  BY <1>1, DecideMoves, CallsMove, GoOnMoves, DecidedOK, AbortOrCleanOK DEF SyncFramework

(***************************************************************************)
(* The decisions of the sync of a task.                                    *)
(***************************************************************************)
\* What a decision about a task may make of the status.  A task runs only if it did
\* before, or if its pod was just seen running.
TaskMove(new) ==
    /\ new \in Status /\ Exposed(new, Status0) /\ Sound(new)
    /\ new.state \in HasInstance /\ new.uid = Status0.uid /\ new.retried = Status0.retried
    /\ \A u \in Tasks \ {Task} : SameInstance(new.tasks[u], Status0.tasks[u])
    /\ \A t \in Tasks : new.tasks[t].state = "AttemptRunning" =>
          \/ Status0.tasks[t].state = "AttemptRunning" /\ new.tasks[t].uid = Status0.tasks[t].uid
          \/ t = Task /\ PodSeen /\ PodObj.phase = "Running" /\ new.tasks[t].uid = TS.uid

\* What every decision about a task starts from.
LEMMA TaskFacts ==
    ASSUME StatusInv, Tasking
    PROVE  /\ Sound(Status0) /\ RunningWasSeen(Status0)
           /\ Status0.state \in HasInstance /\ Status0.uid \in Nat \ {0}
           /\ Status0.state \notin Ended
           /\ \A t \in Tasks : Status0.tasks[t] \in TaskStatus
           /\ TS.state \in States /\ TS.retried \in Nat /\ TS.uid \in Nat
           /\ TS.code \in Codes \union {NoCode}
           /\ expected # NoInfo /\ expected.synced /\ expected.status = remote
           /\ remote \in Status /\ Exposed(Status0, remote) /\ Status0.retried = remote.retried
           /\ Task \in worker.todo
           /\ \A t \in worker.todo : SameInstance(Status0.tasks[t], remote.tasks[t])
<1>1. /\ worker \in Worker /\ worker # Idle /\ Status0 \in Status /\ TS \in TaskStatus
      /\ Task \in worker.todo
  BY TaskIsLeft
<1>2. Status0 \in Held
  BY <1>1, NotNothing DEF Held, Status0
<1>3. /\ Status0.state \in HasInstance /\ Status0.uid # 0
      /\ expected # NoInfo /\ expected.synced /\ expected.status \in Status
      /\ Exposed(Status0, expected.status) /\ Status0.retried = expected.status.retried
      /\ \A t \in worker.todo : SameInstance(Status0.tasks[t], expected.status.tasks[t])
  BY <1>1 DEF StatusInv, WorkerFits, Tasking, Status0
<1>4. expected.status = remote
  BY <1>3 DEF StatusInv, ExpectedFits
<1> QED
  BY <1>1, <1>2, <1>3, <1>4
  DEF StatusInv, Status, TaskStatus, HasInstance, Completing, Ended

\* Nothing is decided.
LEMMA SkipMoves == ASSUME StatusInv, Tasking PROVE TaskMove(Status0)
<1>1. Status0 \in Status /\ \A t \in Tasks : Status0.tasks[t] \in TaskStatus
  BY TaskIsLeft, TaskFacts
<1>2. Exposed(Status0, Status0)
  BY <1>1, ExposedReflexive
<1> QED BY <1>1, <1>2, TaskFacts DEF TaskMove, SameInstance

\* A decision about one task that does not complete it.
LEMMA OneTaskMoves ==
    ASSUME StatusInv, Tasking, NEW ts \in TaskStatus, Later(ts, TS),
           ts.state = "AttemptCreationPending" => ts.uid = 0,
           ts.state \in Ended => ts.code # NoCode,
           ts.state # "Completed", TS.state # "Completed",
           ts.state = "AttemptRunning" =>
              ts.uid = TS.uid /\ (TS.state = "AttemptRunning" \/ (PodSeen /\ PodObj.phase = "Running"))
    PROVE  TaskMove([Status0 EXCEPT !.tasks[Task] = ts])
<1> DEFINE n == [Status0 EXCEPT !.tasks[Task] = ts]
<1>1. Status0 \in Status /\ Task \in Tasks /\ worker.todo \subseteq Tasks
  BY TaskIsLeft DEF Worker
<1>2. /\ n \in Status /\ n.state = Status0.state /\ n.uid = Status0.uid
      /\ n.retried = Status0.retried /\ n.code = Status0.code
      /\ n.tasks = [Status0.tasks EXCEPT ![Task] = ts]
  BY <1>1 DEF Status
<1>3. n.tasks[Task] = ts /\ \A u \in Tasks \ {Task} : n.tasks[u] = Status0.tasks[u]
  BY <1>1, <1>2 DEF Status
<1> HIDE DEF n
<1>4. Status0.state \in States /\ \A t \in Tasks : Status0.tasks[t] \in TaskStatus
  BY <1>1 DEF Status
<1>5. Later(n, Status0)
  BY <1>2, <1>4, <1>1, RankTyped DEF Later, Status
<1>6. ASSUME NEW t \in Tasks PROVE Later(n.tasks[t], Status0.tasks[t])
  <2>1. CASE t = Task
    BY <1>3, <2>1 DEF TS
  <2>2. CASE t # Task
    BY <1>3, <1>4, <2>2, RankTyped DEF Later, TaskStatus
  <2> QED BY <2>1, <2>2
<1>7. Exposed(n, Status0)
  BY <1>2, <1>5, <1>6, NotNothing DEF Exposed
<1>8. FailedTasks(n) = FailedTasks(Status0)
  BY <1>3, <1>1 DEF FailedTasks, CompletedTasks, TS
<1>9. Sound(n)
  <2>1. Sound(Status0) /\ Status0.state \notin Ended /\ n.state # "AttemptCreationPending"
    BY <1>2, TaskFacts DEF HasInstance, Completing
  <2>2. ASSUME NEW t \in Tasks
        PROVE  /\ n.tasks[t].state = "AttemptCreationPending" => n.tasks[t].uid = 0
               /\ n.tasks[t].state \in Ended => n.tasks[t].code # NoCode
    BY <1>3, <2>1 DEF Sound
  <2>3. ASSUME PlatformPolicy PROVE SucceedsAsGang(n)
    BY <1>1, <1>2, <1>8, <2>1, <2>3 DEF Sound, SucceedsAsGang, TS
  <2> QED BY <1>2, <2>1, <2>2, <2>3 DEF Sound
<1>10. \A u \in Tasks \ {Task} : SameInstance(n.tasks[u], Status0.tasks[u])
  BY <1>1, <1>3 DEF SameInstance
<1>11. \A t \in Tasks : n.tasks[t].state = "AttemptRunning" =>
          \/ Status0.tasks[t].state = "AttemptRunning" /\ n.tasks[t].uid = Status0.tasks[t].uid
          \/ t = Task /\ PodSeen /\ PodObj.phase = "Running" /\ n.tasks[t].uid = TS.uid
  BY <1>3 DEF TS
<1> QED BY <1>2, <1>7, <1>9, <1>10, <1>11, TaskFacts DEF TaskMove, n

\* The attempt of a task is completed, or starts to be.
LEMMA TaskCompletionMoves ==
    ASSUME StatusInv, Tasking, NEW force \in BOOLEAN, NEW c \in Codes,
           TS.state \notin Ended, force \/ TS.state \notin Completing
    PROVE  TaskMove([Status0 EXCEPT !.tasks[Task] = CompleteTaskAttempt(TS, force, c)])
<1> DEFINE ts == CompleteTaskAttempt(TS, force, c)
<1>1. TS \in TaskStatus
  BY TaskIsLeft
<1>2. /\ ts \in TaskStatus
      /\ ts.state = IF force THEN "AttemptCompleted" ELSE "AttemptDeletionPending"
      /\ ts.retried = TS.retried /\ ts.uid = TS.uid
      /\ ts.code = IF TS.code = NoCode THEN c ELSE TS.code
  BY <1>1, TaskCompletion
<1> HIDE DEF ts
<1>3. TS.state \in States /\ TS.retried \in Nat
  BY TaskFacts
<1>4. Later(ts, TS)
  BY <1>2, <1>3, Ranks, StatesListed DEF Later, Ended, Completing
<1>5. ts.code # NoCode /\ ts.state # "Completed" /\ TS.state # "Completed"
      /\ ts.state # "AttemptCreationPending" /\ ts.state # "AttemptRunning"
  BY <1>2, NoCodeIsNoCode DEF Ended, NoCode
<1>6. TaskMove([Status0 EXCEPT !.tasks[Task] = ts])
  BY <1>2, <1>4, <1>5, OneTaskMoves
<1> QED BY <1>6 DEF ts

\* The task goes to a later state, with its instance and code.
LEMMA TaskStateMoves ==
    ASSUME StatusInv, Tasking, NEW ts \in TaskStatus,
           ts.retried = TS.retried, ts.uid = TS.uid,
           ts.code = TS.code \/ TS.code = NoCode,
           Rank(ts.state) >= Rank(TS.state),
           ts.state \notin Ended \union {"AttemptCreationPending"}, TS.state # "Completed",
           ts.state = "AttemptRunning" => PodSeen /\ PodObj.phase = "Running"
    PROVE  TaskMove([Status0 EXCEPT !.tasks[Task] = ts])
<1>1. TS.retried \in Nat
  BY TaskFacts
<1>2. Later(ts, TS)
  BY <1>1 DEF Later
<1> QED BY <1>2, OneTaskMoves DEF Ended

\* A completion policy asked when one task has completed, see TriggeredIsRight.
LEMMA TriggeredByIsRight ==
    ASSUME job \in Frameworks, NEW s \in Status, NEW t \in Tasks, NEW c \in TriggeredCodesBy(s, t),
           s.tasks[t].state = "Completed",
           \A u \in Tasks : s.tasks[u].state \in Ended => s.tasks[u].code # NoCode,
           PlatformPolicy => FailedTasks(s) \subseteq {t}
    PROVE  /\ c \in Codes
           /\ c = "Succeeded" /\ PlatformPolicy =>
                 \A u \in Tasks : s.tasks[u].state = "Completed" /\ s.tasks[u].code = "Succeeded"
<1> DEFINE failed == MinFailed >= 1 /\ t \in FailedTasks(s)
                     /\ Cardinality(FailedTasks(s)) >= MinFailed
           succeeded == MinSucceeded >= 1 /\ t \in SucceededTasks(s)
                        /\ Cardinality(SucceededTasks(s)) >= MinSucceeded
<1>1. /\ FailedTasks(s) \subseteq CompletedTasks(s) /\ CompletedTasks(s) \subseteq Tasks
      /\ \A u \in FailedTasks(s) : s.tasks[u].code \in Codes \ {"Succeeded"}
      /\ PlatformPolicy => MinFailed >= 1
      /\ PlatformPolicy /\ FailedTasks(s) # {} => Cardinality(FailedTasks(s)) >= MinFailed
      /\ PlatformPolicy /\ Cardinality(SucceededTasks(s)) >= MinSucceeded =>
            SucceededTasks(s) = Tasks
  BY TaskCounts
<1>2. "Succeeded" \in Codes
  BY DEF Codes
<1>3. \/ failed /\ c = s.tasks[t].code
      \/ succeeded /\ c = "Succeeded"
      \/ ~failed /\ CompletedTasks(s) = Tasks /\ c = "Succeeded"
  <2>0. t \notin FailedTasks(s) \/ t \notin SucceededTasks(s)
    BY DEF SucceededTasks
  <2>1. TriggeredCodesBy(s, t) =
          IF failed THEN {s.tasks[t].code}
          ELSE IF succeeded THEN {"Succeeded"}
          ELSE IF CompletedTasks(s) = Tasks THEN {"Succeeded"} ELSE {}
    BY <2>0 DEF TriggeredCodesBy
  <2> QED BY <2>1
<1>4. c \in Codes
  BY <1>1, <1>2, <1>3
<1>5. ASSUME c = "Succeeded", PlatformPolicy PROVE SucceededTasks(s) = Tasks
  <2>1. CASE succeeded
    BY <1>1, <1>5, <2>1
  <2>2. CASE ~failed /\ CompletedTasks(s) = Tasks
    BY <1>1, <1>5, <2>2 DEF SucceededTasks
  <2> QED BY <1>1, <1>3, <1>5, <2>1, <2>2
<1>6. \A u \in SucceededTasks(s) : s.tasks[u].state = "Completed" /\ s.tasks[u].code = "Succeeded"
  BY DEF SucceededTasks, FailedTasks, CompletedTasks
<1> QED BY <1>4, <1>5, <1>6

\* The last attempt of a task completes the task, and the attempt of the framework if its
\* policy says so.
LEMMA CompleteTaskMoves ==
    ASSUME StatusInv, CompleteTask
    PROVE  \E new : NextTask(new, FALSE) /\ TaskMove(new)
<1> DEFINE s == [Status0 EXCEPT !.tasks[Task].state = "Completed"]
<1>1. Tasking /\ TS.state = "AttemptCompleted"
  BY DEF CompleteTask
<1>2. /\ Status0 \in Status /\ Task \in Tasks /\ worker.todo \subseteq Tasks
      /\ job \in Frameworks
  BY <1>1, TaskIsLeft DEF Worker
<1>3. /\ Sound(Status0) /\ Status0.state \in HasInstance /\ Status0.state \notin Ended
      /\ \A t \in Tasks : Status0.tasks[t] \in TaskStatus
  BY <1>1, TaskFacts
<1>4. /\ s \in Status /\ s.state = Status0.state /\ s.uid = Status0.uid
      /\ s.retried = Status0.retried /\ s.code = Status0.code
      /\ s.tasks = [Status0.tasks EXCEPT ![Task] = [Status0.tasks[Task] EXCEPT !.state = "Completed"]]
  <2>1. [Status0.tasks[Task] EXCEPT !.state = "Completed"] \in TaskStatus
    BY <1>2, <1>3, StatesListed DEF TaskStatus
  <2> QED BY <1>2, <2>1 DEF Status
<1>5. /\ s.tasks[Task].state = "Completed" /\ s.tasks[Task].code = TS.code
      /\ s.tasks[Task].uid = TS.uid /\ s.tasks[Task].retried = TS.retried
      /\ \A u \in Tasks \ {Task} : s.tasks[u] = Status0.tasks[u]
  BY <1>2, <1>3, <1>4 DEF Status, TaskStatus, TS
<1>6. \/ /\ s.state \in Completing \/ TriggeredCodesBy(s, Task) = {}
         /\ NextTask(s, FALSE)
      \/ /\ s.state \notin Completing
         /\ \E c \in TriggeredCodesBy(s, Task) : NextTask(CompleteFrameworkAttempt(s, FALSE, c), FALSE)
  BY DEF CompleteTask
<1> HIDE DEF s
<1>7. Exposed(s, Status0)
  <2>1. \A t \in Tasks \ {Task} : Later(s.tasks[t], Status0.tasks[t])
    BY <1>3, <1>5, RankTyped DEF Later, TaskStatus
  <2>2. Later(s.tasks[Task], TS)
    BY <1>1, <1>2, <1>3, <1>5, Ranks DEF Later, TaskStatus, TS
  <2>3. Later(s, Status0)
    BY <1>2, <1>4, RankTyped DEF Later, Status
  <2> QED BY <1>4, <2>1, <2>2, <2>3, NotNothing DEF Exposed, TS
<1>8. \A t \in Tasks :
        /\ s.tasks[t].state = "AttemptCreationPending" => s.tasks[t].uid = 0
        /\ s.tasks[t].state \in Ended => s.tasks[t].code # NoCode
        /\ s.tasks[t].state = "AttemptRunning" =>
              Status0.tasks[t].state = "AttemptRunning" /\ s.tasks[t].uid = Status0.tasks[t].uid
  BY <1>1, <1>2, <1>3, <1>5 DEF Sound, Ended, TS
<1>9. FailedTasks(s) \subseteq FailedTasks(Status0) \union {Task}
  BY <1>5 DEF FailedTasks, CompletedTasks
<1>10. PlatformPolicy => s.code # "Succeeded"
  BY <1>1, <1>2, <1>3, <1>4 DEF Sound, SucceedsAsGang, TS
<1>11. PlatformPolicy /\ s.state \notin Completing => FailedTasks(s) \subseteq {Task}
  BY <1>3, <1>4, <1>9 DEF Sound, SucceedsAsGang
<1>12. \A u \in Tasks \ {Task} : SameInstance(s.tasks[u], Status0.tasks[u])
  BY <1>2, <1>5 DEF SameInstance
<1>13. CASE (s.state \in Completing \/ TriggeredCodesBy(s, Task) = {}) /\ NextTask(s, FALSE)
  <2>1. PlatformPolicy /\ s.state \notin Completing => FailedTasks(s) = {}
    <3> SUFFICES ASSUME PlatformPolicy, s.state \notin Completing, Task \in FailedTasks(s)
                 PROVE  FALSE
      BY <1>11
    <3>1. /\ MinFailed >= 1
          /\ FailedTasks(s) # {} => Cardinality(FailedTasks(s)) >= MinFailed
      BY <1>2, <1>4, <1>8, TaskCounts
    <3>0. Task \notin SucceededTasks(s)
      BY DEF SucceededTasks
    <3>2. TriggeredCodesBy(s, Task) = {s.tasks[Task].code}
      BY <3>0, <3>1 DEF TriggeredCodesBy
    <3> QED BY <1>13, <3>2
  <2>2. Sound(s)
    BY <1>3, <1>4, <1>8, <1>10, <2>1 DEF Sound, SucceedsAsGang, HasInstance, Completing
  <2>3. TaskMove(s)
    BY <1>3, <1>4, <1>7, <1>8, <1>12, <2>2 DEF TaskMove
  <2> QED BY <1>13, <2>3
<1>14. ASSUME s.state \notin Completing, NEW c \in TriggeredCodesBy(s, Task),
              NextTask(CompleteFrameworkAttempt(s, FALSE, c), FALSE)
       PROVE  \E new : NextTask(new, FALSE) /\ TaskMove(new)
  <2> DEFINE n == CompleteFrameworkAttempt(s, FALSE, c)
  <2>1. /\ c \in Codes
        /\ c = "Succeeded" /\ PlatformPolicy =>
             \A u \in Tasks : s.tasks[u].state = "Completed" /\ s.tasks[u].code = "Succeeded"
    BY <1>2, <1>4, <1>5, <1>8, <1>11, <1>14, TriggeredByIsRight
  <2>2. n \in Status /\ Exposed(n, s) /\ Sound(n)
    BY <1>3, <1>4, <1>8, <1>10, <1>14, <2>1, CompletionMoves
  <2>3. /\ n.state = "AttemptDeletionPending" /\ n.uid = s.uid /\ n.retried = s.retried
        /\ \A t \in Tasks : SameInstance(n.tasks[t], s.tasks[t])
    BY <1>4, <2>1, CompletionKeepsInstances
  <2>4. NextTask(n, FALSE)
    BY <1>14
  <2> HIDE DEF n
  <2>5. Exposed(n, Status0)
    BY <1>2, <1>4, <1>7, <2>2, ExposedTransitive
  <2>6. TaskMove(n)
    BY <1>2, <1>4, <1>8, <1>12, <2>2, <2>3, <2>5
    DEF TaskMove, SameInstance, HasInstance, Completing
  <2> QED BY <2>4, <2>6
<1> QED BY <1>6, <1>13, <1>14

\* A task whose pod of this attempt was not recorded is left for the next look at it.
CleansPod ==
    /\ worker' = [worker EXCEPT !.cleaned = TRUE]
    /\ UNCHANGED <<specVars, cacheVars, statusVars>>

\* Every step of the sync of a task cleans up a pod, or decides a status that fits.
LEMMA TaskMoves ==
    ASSUME StatusInv, SyncTask
    PROVE  \/ CleansPod
           \/ \E new, failed : failed \in BOOLEAN /\ NextTask(new, failed) /\ TaskMove(new)
<1> SUFFICES ASSUME ~CleansPod
             PROVE  \E new, failed : failed \in BOOLEAN /\ NextTask(new, failed) /\ TaskMove(new)
  OBVIOUS
<1>1. Tasking
  BY DEF SyncTask, SkipCompletedTask, CleanUpPod, WaitForPod, GiveUpOnPod, PodDisappeared,
     RequestPodDeletion, WaitPodDeletion, ObservePod, PodDeleting, RetryTask, CompleteTask,
     CreatePod, RejectPod
<1>2. ASSUME SkipTask \/ FailTask
      PROVE  \E new, failed : failed \in BOOLEAN /\ NextTask(new, failed) /\ TaskMove(new)
  BY <1>1, <1>2, SkipMoves DEF SkipTask, FailTask
<1>3. ASSUME NEW ts, TaskMove([Status0 EXCEPT !.tasks[Task] = ts]), NEW failed \in BOOLEAN,
             NextTask([Status0 EXCEPT !.tasks[Task] = ts], failed)
      PROVE  \E new, f : f \in BOOLEAN /\ NextTask(new, f) /\ TaskMove(new)
  BY <1>3
<1>4. TS \in TaskStatus /\ Status0 \in Status /\ job \in Frameworks /\ Task \in Tasks
  BY <1>1, TaskIsLeft
<1>5. /\ TS.state \in States /\ TS.retried \in Nat /\ TS.uid \in Nat
      /\ TS.code \in Codes \union {NoCode} /\ TS.accounted \in Nat
      /\ TS.state = "AttemptCreationPending" => TS.uid = 0
  BY <1>1, <1>4, TaskFacts DEF Sound, TS, TaskStatus
<1>6. ASSUME NEW force \in BOOLEAN, NEW c \in Codes, TS.state \notin Ended,
             force \/ TS.state \notin Completing,
             DecideTask(CompleteTaskAttempt(TS, force, c))
      PROVE  \E new, f : f \in BOOLEAN /\ NextTask(new, f) /\ TaskMove(new)
  BY <1>1, <1>6, TaskCompletionMoves DEF DecideTask
<1>7. CASE SkipCompletedTask \/ CleanUpPod \/ WaitForPod \/ WaitPodDeletion
  BY <1>2, <1>7 DEF SkipCompletedTask, CleanUpPod, WaitForPod, WaitPodDeletion, CleansPod
<1>8. CASE GiveUpOnPod
  <2>1. FailTask \/ DecideTask(CompleteTaskAttempt(TS, TRUE, "PodCreationTimeout"))
    BY <1>8 DEF GiveUpOnPod
  <2>2. TS.state \notin Ended /\ "PodCreationTimeout" \in Codes
    BY <1>8 DEF GiveUpOnPod, Ended, Codes, Transient
  <2> QED BY <1>2, <1>6, <2>1, <2>2
<1>9. CASE PodDisappeared
  <2>1. DecideTask(CompleteTaskAttempt(TS, TRUE, "PodExternalDeleted"))
    BY <1>9 DEF PodDisappeared
  <2>2. TS.state \notin Ended /\ "PodExternalDeleted" \in Codes
    BY <1>9 DEF PodDisappeared, Ended, Associated, Completing, Codes, Transient
  <2> QED BY <1>6, <2>1, <2>2
<1>10. CASE RequestPodDeletion
  <2> DEFINE ts == [TS EXCEPT !.state = "AttemptDeletionRequested"]
  <2>1. /\ ts \in TaskStatus /\ ts.state = "AttemptDeletionRequested"
        /\ ts.retried = TS.retried /\ ts.uid = TS.uid /\ ts.code = TS.code
    BY <1>4, StatesListed DEF TaskStatus
  <2>2. /\ TS.state = "AttemptDeletionPending"
        /\ FailTask \/ NextTask([Status0 EXCEPT !.tasks[Task] = ts], FALSE)
    BY <1>10 DEF RequestPodDeletion, DecideTask
  <2> HIDE DEF ts
  <2>3. TaskMove([Status0 EXCEPT !.tasks[Task] = ts])
    BY <1>1, <2>1, <2>2, Ranks, TaskStateMoves DEF Ended
  <2> QED BY <1>2, <1>3, <2>2, <2>3
<1>11. CASE ObservePod
  <2>1. /\ PodSeen /\ PodObj.uid = TS.uid /\ PodObj # NoObject
        /\ TS.state \in {"AttemptCreationRequested", "AttemptPreparing", "AttemptRunning"}
    BY <1>11 DEF ObservePod, PodSeen
  <2>2. PodObj.phase \in {"Pending", "Running"} \union Results
    BY <1>4, <2>1 DEF StatusInv, TypeOK, PodObj, Pod
  <2>3. TS.state = "AttemptRunning" => PodObj.phase # "Pending"
    BY <1>1, <1>4, <2>1, TaskFacts DEF RunningWasSeen, TS, PodObj
  <2>4. ASSUME NEW st \in {"AttemptPreparing", "AttemptRunning"},
               DecideTask([TS EXCEPT !.state = st]),
               Rank(st) >= Rank(TS.state),
               st = "AttemptRunning" => PodObj.phase = "Running"
        PROVE  \E new, f : f \in BOOLEAN /\ NextTask(new, f) /\ TaskMove(new)
    <3> DEFINE ts == [TS EXCEPT !.state = st]
    <3>1. /\ ts \in TaskStatus /\ ts.state = st
          /\ ts.retried = TS.retried /\ ts.uid = TS.uid /\ ts.code = TS.code
      BY <1>4, StatesListed DEF TaskStatus
    <3>2. NextTask([Status0 EXCEPT !.tasks[Task] = ts], FALSE)
      BY <2>4 DEF DecideTask
    <3> HIDE DEF ts
    <3>3. TaskMove([Status0 EXCEPT !.tasks[Task] = ts])
      BY <1>1, <2>1, <2>4, <3>1, TaskStateMoves DEF Ended
    <3> QED BY <1>3, <3>2, <3>3
  <2>5. CASE PodObj.phase = "Pending"
    <3>1. DecideTask([TS EXCEPT !.state = "AttemptPreparing"])
      BY <1>11, <2>5 DEF ObservePod
    <3>2. Rank("AttemptPreparing") >= Rank(TS.state)
      BY <2>1, <2>3, <2>5, Ranks
    <3> QED BY <2>4, <3>1, <3>2
  <2>6. CASE PodObj.phase = "Running"
    <3>1. DecideTask([TS EXCEPT !.state = "AttemptRunning"])
      BY <1>11, <2>6 DEF ObservePod
    <3>2. Rank("AttemptRunning") >= Rank(TS.state)
      BY <2>1, Ranks
    <3> QED BY <2>4, <2>6, <3>1, <3>2
  <2>7. CASE PodObj.phase \notin {"Pending", "Running"}
    <3>1. DecideTask(CompleteTaskAttempt(TS, FALSE, PodObj.phase))
      BY <1>11, <2>7 DEF ObservePod
    <3>2. PodObj.phase \in Codes /\ TS.state \notin Ended /\ TS.state \notin Completing
      BY <1>4, <2>1, <2>2, <2>7, JobFacts DEF Ended, Completing
    <3> QED BY <1>6, <3>1, <3>2
  <2> QED BY <2>5, <2>6, <2>7
<1>12. CASE PodDeleting
  <2> DEFINE coded == WithCode(TS, "PodExternalDeleted")
             ts == [coded EXCEPT !.state = "AttemptDeleting"]
  <2>1. /\ coded \in TaskStatus /\ coded.retried = TS.retried /\ coded.uid = TS.uid
        /\ coded.code = TS.code \/ TS.code = NoCode
    BY <1>4 DEF WithCode, TaskStatus, Codes, Transient
  <2>2. /\ TS.state \notin Ended
        /\ \E f \in BOOLEAN : NextTask([Status0 EXCEPT !.tasks[Task] = ts], f)
    BY <1>12 DEF PodDeleting, DecideTask
  <2> HIDE DEF coded
  <2>3. /\ ts \in TaskStatus /\ ts.state = "AttemptDeleting" /\ ts.retried = TS.retried
        /\ ts.uid = TS.uid /\ (ts.code = TS.code \/ TS.code = NoCode)
    BY <2>1, StatesListed DEF TaskStatus
  <2> HIDE DEF ts
  <2>4. Rank(ts.state) >= Rank(TS.state)
    BY <1>5, <2>2, <2>3, Ranks, StatesListed DEF Ended
  <2>5. TaskMove([Status0 EXCEPT !.tasks[Task] = ts])
    BY <1>1, <2>2, <2>3, <2>4, TaskStateMoves DEF Ended
  <2> QED BY <1>3, <2>2, <2>5
<1>13. CASE RetryTask
  <2> DEFINE accounted == TS.accounted + IF TaskDecision.counted THEN 1 ELSE 0
             ts == NewTaskStatus(TS.retried + 1, accounted)
  <2>1. NextTask([Status0 EXCEPT !.tasks[Task] = ts], FALSE) /\ TS.state = "AttemptCompleted"
    BY <1>13 DEF RetryTask, DecideTask
  <2>2. accounted \in Nat /\ TS.retried + 1 \in Nat
    BY <1>5
  <2> HIDE DEF accounted
  <2>3. /\ ts \in TaskStatus /\ ts.state = "AttemptCreationPending" /\ ts.uid = 0
        /\ ts.retried = TS.retried + 1
    BY <2>2, NewTaskStatusTyped
  <2> HIDE DEF ts
  <2>4. TaskMove([Status0 EXCEPT !.tasks[Task] = ts])
    BY <1>1, <1>5, <2>1, <2>3, OneTaskMoves DEF Later, Ended
  <2> QED BY <1>3, <2>1, <2>4
<1>14. CASE CompleteTask
  BY <1>14, CompleteTaskMoves
<1>15. CASE CreatePod
  <2> DEFINE u == uids.pod[Task] + 1
             ts == [TS EXCEPT !.uid = u, !.state = "AttemptCreationRequested"]
  <2>1. TS.state = "AttemptCreationPending"
    BY <1>15 DEF CreatePod
  <2>2. SkipTask \/ FailTask \/ (NewPod /\ DecideTask([TS EXCEPT !.uid = uids'.pod[Task],
                                                  !.state = "AttemptCreationRequested"]))
    BY <1>15 DEF CreatePod
  <2>3. u \in Nat /\ uids \in [cm : Nat, pod : [Tasks -> Nat]]
    BY <1>4 DEF StatusInv, TypeOK
  <2>4. NewPod => uids'.pod[Task] = u
    BY <1>4, <2>3 DEF NewPod
  <2> HIDE DEF u
  <2>5. /\ ts \in TaskStatus /\ ts.state = "AttemptCreationRequested"
        /\ ts.retried = TS.retried /\ ts.code = TS.code
    BY <1>4, <2>3, StatesListed DEF TaskStatus
  <2>6. SkipTask \/ FailTask \/ NextTask([Status0 EXCEPT !.tasks[Task] = ts], FALSE)
    BY <2>2, <2>4 DEF DecideTask
  <2> HIDE DEF ts
  <2>7. TaskMove([Status0 EXCEPT !.tasks[Task] = ts])
    BY <1>1, <1>5, <2>1, <2>5, Ranks, OneTaskMoves DEF Later, Ended
  <2> QED BY <1>2, <1>3, <2>6, <2>7
<1>16. CASE RejectPod
  <2>1. FailTask \/ \E c \in Refusals : DecideTask(CompleteTaskAttempt(TS, TRUE, c))
    BY <1>16 DEF RejectPod
  <2>2. TS.state \notin Ended /\ Refusals \subseteq Codes
    BY <1>16 DEF RejectPod, Ended, Codes
  <2> QED BY <1>2, <1>6, <2>1, <2>2
<1> QED
  BY <1>7, <1>8, <1>9, <1>10, <1>11, <1>12, <1>13, <1>14, <1>15, <1>16 DEF SyncTask

(***************************************************************************)
(* The steps of the sync of a task keep the invariant.                     *)
(***************************************************************************)
\* A pod goes away, or stays the same pod and does not become pending again.
PodMayBecome(old, new) ==
    \/ new = NoObject
    \/ /\ old # NoObject /\ new # NoObject
       /\ new.uid = old.uid /\ new.owner = old.owner
       /\ old.phase # "Pending" => new.phase # "Pending"

\* No pod is created and no UID given; every pod may have aged.
PodsAge == \A t \in Tasks : PodMayBecome(pods[t], pods'[t])

\* One pod changes, and no object is created.
LEMMA OnePodAges ==
    ASSUME ObjTyped, UNCHANGED <<job, cm, uids>>, NEW t \in Tasks, NEW p \in Pod \union {NoObject},
           PodMayBecome(pods[t], p), pods' = [pods EXCEPT ![t] = p]
    PROVE  ObjTyped' /\ PodsAge
<1>1. pods' \in [Tasks -> Pod \union {NoObject}] /\ pods'[t] = p
      /\ \A u \in Tasks \ {t} : pods'[u] = pods[u]
  BY DEF ObjTyped
<1>2. ObjTyped'
  BY <1>1, StaticSets DEF ObjTyped, ConfigMap
<1> QED BY <1>1, <1>2 DEF PodsAge, PodMayBecome

\* Pods that nobody touches age.
LEMMA PodsKept ==
    ASSUME ObjTyped, UNCHANGED <<job, cm, pods, uids>>
    PROVE  ObjTyped' /\ PodsAge
BY ObjectsKept DEF PodsAge, PodMayBecome

\* So do deletions of a pod.
LEMMA PodDeletionAges ==
    ASSUME ObjTyped, UNCHANGED job, NEW t \in Tasks, NEW uid,
           MarkPod(t, uid) \/ ForcePod(t, uid) \/ UNCHANGED objVars
    PROVE  ObjTyped' /\ PodsAge /\ UNCHANGED <<cm, uids>>
<1>1. UNCHANGED <<cm, uids>>
  BY DEF MarkPod, ForcePod, objVars
<1>2. CASE UNCHANGED pods
  BY <1>1, <1>2, PodsKept
<1>3. CASE ForcePod(t, uid)
  BY <1>1, <1>2, <1>3, OnePodAges DEF ForcePod, PodMayBecome
<1>4. CASE MarkPod(t, uid)
  <2> SUFFICES ASSUME pods[t] # NoObject, pods' = [pods EXCEPT ![t].deleting = TRUE]
               PROVE  ObjTyped' /\ PodsAge
    BY <1>1, <1>2, <1>4 DEF MarkPod
  <2> DEFINE p == [pods[t] EXCEPT !.deleting = TRUE]
  <2>1. p \in Pod /\ PodMayBecome(pods[t], p)
    BY NotNothing DEF ObjTyped, Pod, PodMayBecome
  <2>2. pods' = [pods EXCEPT ![t] = p]
    OBVIOUS
  <2> HIDE DEF p
  <2> QED BY <1>1, <2>1, <2>2, OnePodAges
<1> QED BY <1>1, <1>2, <1>3, <1>4 DEF objVars

\* A new pod has a UID that no pod had.
LEMMA NewPodIsNew ==
    ASSUME StatusInv, Tasking, UNCHANGED job, NewPod
    PROVE  /\ ObjTyped' /\ UNCHANGED cm /\ uids'.cm = uids.cm
           /\ \A t \in Tasks \ {Task} : pods'[t] = pods[t] /\ uids'.pod[t] = uids.pod[t]
           /\ pods'[Task] \in Pod /\ pods'[Task].uid = uids'.pod[Task]
           /\ pods'[Task].owner = Status0.uid
           /\ uids'.pod[Task] = uids.pod[Task] + 1 /\ uids.pod[Task] \in Nat
<1> DEFINE u == uids.pod[Task] + 1
           p == [uid |-> u, owner |-> Status0.uid, deleting |-> FALSE, phase |-> "Pending"]
<1>1. ObjTyped /\ Task \in Tasks /\ Status0.uid \in Nat \ {0}
  BY TypesByGroup, TaskIsLeft, TaskFacts DEF StatusInv
<1>2. u \in Nat \ {0} /\ uids.pod[Task] \in Nat
  BY <1>1 DEF ObjTyped
<1>3. pods' = [pods EXCEPT ![Task] = p] /\ uids' = [uids EXCEPT !.pod[Task] = u] /\ UNCHANGED cm
  BY DEF NewPod
<1>4. p \in Pod /\ p.uid = u /\ p.owner = Status0.uid
  BY <1>1, <1>2 DEF Pod
<1>5. u = uids.pod[Task] + 1
  OBVIOUS
<1> HIDE DEF u, p
<1>6. /\ pods' \in [Tasks -> Pod \union {NoObject}] /\ pods'[Task] = p
      /\ \A t \in Tasks \ {Task} : pods'[t] = pods[t]
  BY <1>1, <1>3, <1>4 DEF ObjTyped
<1>7. /\ uids' \in [cm : Nat, pod : [Tasks -> Nat]] /\ uids'.pod[Task] = u
      /\ uids'.cm = uids.cm /\ \A t \in Tasks \ {Task} : uids'.pod[t] = uids.pod[t]
  BY <1>1, <1>2, <1>3 DEF ObjTyped
<1>8. ObjTyped'
  BY <1>1, <1>3, <1>6, <1>7, StaticSets DEF ObjTyped, ConfigMap
<1> QED BY <1>2, <1>3, <1>4, <1>5, <1>6, <1>7, <1>8

\* What a step of the sync of a task leaves alone, and what it may do to the pods.
LEMMA TaskCalls ==
    ASSUME StatusInv, SyncTask
    PROVE  /\ Tasking /\ UNCHANGED <<specVars, cacheVars, statusVars, cm>>
           /\ ObjTyped' /\ QueueTyped' /\ budget' \in [BoundNames -> Nat]
           /\ \/ PodsAge /\ UNCHANGED uids
              \/ /\ NewPod /\ PodGone /\ TS.state = "AttemptCreationPending"
                 /\ pods[Task] = NoObject /\ Status0.state \notin Completing
<1> USE DEF specVars, cacheVars, statusVars, queueVars, objVars, DecideTask, SkipTask, FailTask,
            Enqueue, StartTimer, NoEnqueue, NoCall
<1>1. /\ ObjTyped /\ QueueTyped /\ budget \in [BoundNames -> Nat]
      /\ "errors" \in BoundNames /\ "timeouts" \in BoundNames /\ "failures" \in BoundNames
  BY TypesByGroup DEF StatusInv, BoundNames
<1>2. ASSUME Tasking /\ (UNCHANGED objVars \/ \E uid : MarkPod(Task, uid) \/ ForcePod(Task, uid)),
             UNCHANGED job
      PROVE  ObjTyped' /\ PodsAge /\ UNCHANGED <<cm, uids>>
  BY <1>1, <1>2, PodDeletionAges, TaskIsLeft
<1>3. ASSUME NEW s, NEW failed, NextTask(s, failed) PROVE UNCHANGED <<specVars, cacheVars, statusVars>>
  BY <1>3 DEF NextTask
<1>4. CASE SkipCompletedTask \/ WaitForPod \/ PodDisappeared \/ WaitPodDeletion \/ ObservePod
           \/ RetryTask \/ CompleteTask
  <2>1. /\ Tasking /\ UNCHANGED <<objVars, budget>> /\ QueueTyped'
    BY <1>1, <1>4 DEF SkipCompletedTask, WaitForPod, PodDisappeared, WaitPodDeletion, ObservePod,
       RetryTask, CompleteTask, QueueTyped
  <2>2. \E s, failed : NextTask(s, failed)
    BY <1>4 DEF SkipCompletedTask, WaitForPod, PodDisappeared, WaitPodDeletion, ObservePod,
       RetryTask, CompleteTask
  <2> QED BY <1>1, <1>2, <1>3, <2>1, <2>2
<1>5. CASE CleanUpPod
  <2>1. /\ Tasking /\ QueueTyped' /\ budget' \in [BoundNames -> Nat]
        /\ UNCHANGED <<specVars, cacheVars, statusVars>>
        /\ UNCHANGED objVars \/ \E uid : MarkPod(Task, uid) \/ ForcePod(Task, uid)
    BY <1>1, <1>3, <1>5, SpendTyped DEF CleanUpPod, QueueTyped
  <2> QED BY <1>2, <2>1
<1>6. CASE GiveUpOnPod
  <2>1. /\ Tasking /\ QueueTyped' /\ budget' \in [BoundNames -> Nat]
        /\ UNCHANGED <<specVars, cacheVars, statusVars>>
        /\ UNCHANGED objVars \/ \E uid : MarkPod(Task, uid) \/ ForcePod(Task, uid)
    BY <1>1, <1>3, <1>6, SpendTyped DEF GiveUpOnPod, QueueTyped
  <2> QED BY <1>2, <2>1
<1>7. CASE RequestPodDeletion
  <2>1. /\ Tasking /\ QueueTyped' /\ budget' \in [BoundNames -> Nat]
        /\ UNCHANGED <<specVars, cacheVars, statusVars>>
        /\ UNCHANGED objVars \/ \E uid : MarkPod(Task, uid) \/ ForcePod(Task, uid)
    BY <1>1, <1>3, <1>7, SpendTyped DEF RequestPodDeletion, QueueTyped
  <2> QED BY <1>2, <2>1
<1>8. CASE PodDeleting
  <2>1. /\ Tasking /\ QueueTyped' /\ budget' \in [BoundNames -> Nat]
        /\ UNCHANGED <<specVars, cacheVars, statusVars>>
        /\ UNCHANGED objVars \/ \E uid : MarkPod(Task, uid) \/ ForcePod(Task, uid)
    BY <1>1, <1>3, <1>8, SpendTyped DEF PodDeleting, QueueTyped
  <2> QED BY <1>2, <2>1
<1>9. CASE RejectPod
  <2>1. /\ Tasking /\ QueueTyped' /\ budget' \in [BoundNames -> Nat]
        /\ UNCHANGED <<specVars, cacheVars, statusVars>>
        /\ UNCHANGED objVars \/ \E uid : MarkPod(Task, uid) \/ ForcePod(Task, uid)
    BY <1>1, <1>3, <1>9, SpendTyped DEF RejectPod, QueueTyped
  <2> QED BY <1>2, <2>1
<1>10. CASE CreatePod
  <2>1. /\ Tasking /\ PodGone /\ TS.state = "AttemptCreationPending" /\ QueueTyped'
        /\ budget' \in [BoundNames -> Nat] /\ UNCHANGED <<specVars, cacheVars, statusVars>>
        /\ \/ NewPod /\ pods[Task] = NoObject /\ Status0.state \notin Completing
           \/ UNCHANGED objVars
    BY <1>1, <1>3, <1>10, SpendTyped DEF CreatePod, QueueTyped
  <2>2. CASE NewPod
    BY <2>1, <2>2, NewPodIsNew
  <2> QED BY <1>2, <2>1, <2>2
<1> QED BY <1>4, <1>5, <1>6, <1>7, <1>8, <1>9, <1>10 DEF SyncTask

\* Pods that age are what the statuses say of them.
LEMMA AgeingKeeps ==
    ASSUME StatusInv, PodsAge, UNCHANGED <<job, podCache>>, uids'.pod = uids.pod
    PROVE  /\ \A t \in Tasks : CacheFollows(t)'
           /\ \A s : RunningWasSeen(s) => RunningWasSeen(s)'
<1>1. Tasks' = Tasks
  BY StaticSets
<1>2. \A t \in Tasks : CacheFollows(t) /\ PodMayBecome(pods[t], pods'[t])
  BY DEF StatusInv, PodsAge
<1>3. \A t \in Tasks : CacheFollows(t)'
  BY <1>2 DEF CacheFollows, PodMayBecome
<1>4. ASSUME NEW s, RunningWasSeen(s) PROVE RunningWasSeen(s)'
  BY <1>1, <1>2, <1>4 DEF RunningWasSeen, PodMayBecome
<1> QED BY <1>3, <1>4

\* So are the statuses when a pod is created: its task did not run.
LEMMA CreationKeeps ==
    ASSUME StatusInv, Tasking, NewPod, UNCHANGED <<job, podCache>>
    PROVE  /\ \A t \in Tasks : CacheFollows(t)'
           /\ \A s : RunningWasSeen(s) /\ s.tasks[Task].state # "AttemptRunning" =>
                     RunningWasSeen(s)'
<1>1. Tasks' = Tasks /\ Task \in Tasks
  BY StaticSets, TaskIsLeft
<1>2. /\ \A t \in Tasks \ {Task} : pods'[t] = pods[t] /\ uids'.pod[t] = uids.pod[t]
      /\ pods'[Task].uid = uids'.pod[Task]
      /\ uids'.pod[Task] = uids.pod[Task] + 1 /\ uids.pod[Task] \in Nat
  BY NewPodIsNew
<1>3. \A t \in Tasks : podCache[t] \in Pod \union {NoObject}
  BY DEF StatusInv, TypeOK
<1>4. ASSUME NEW t \in Tasks PROVE CacheFollows(t)'
  <2>1. CASE t = Task
    <3>1. podCache[t] # NoObject => podCache[t].uid \in Nat /\ podCache[t].uid <= uids.pod[t]
      BY <1>3 DEF StatusInv, CacheFollows, Pod
    <3> QED BY <1>2, <2>1, <3>1 DEF CacheFollows
  <2>2. CASE t # Task
    BY <1>2, <2>2 DEF StatusInv, CacheFollows
  <2> QED BY <2>1, <2>2
<1>5. ASSUME NEW s, RunningWasSeen(s), s.tasks[Task].state # "AttemptRunning"
      PROVE  RunningWasSeen(s)'
  BY <1>1, <1>2, <1>5 DEF RunningWasSeen
<1> QED BY <1>4, <1>5

\* An attempt of which a task runs is running.
LEMMA RunningMoves ==
    ASSUME NEW new \in Status, Sound(new), RunningWasSeen(new), new.state = "AttemptPreparing"
    PROVE  LET n == [new EXCEPT !.state = "AttemptRunning"]
           IN  /\ n \in Status /\ n.state = "AttemptRunning" /\ Exposed(n, new) /\ Sound(n)
               /\ RunningWasSeen(n)
               /\ n.tasks = new.tasks /\ n.uid = new.uid /\ n.retried = new.retried
<1> DEFINE n == [new EXCEPT !.state = "AttemptRunning"]
<1>1. /\ n \in Status /\ n.state = "AttemptRunning" /\ n.tasks = new.tasks /\ n.uid = new.uid
      /\ n.retried = new.retried /\ n.code = new.code
  BY StatesListed DEF Status
<1> HIDE DEF n
<1>2. new.retried \in Nat /\ new.uid \in Nat
  BY DEF Status
<1>3. Later(n, new)
  BY <1>1, <1>2, Ranks DEF Later
<1>4. Exposed(n, new) /\ Sound(n)
  BY <1>1, <1>3, SameTasksMove DEF Ended, Completing
<1> QED BY <1>1, <1>4 DEF n, RunningWasSeen

\* What a step of the sync of a task makes of the sync in progress.
LEMMA NextTaskWorker ==
    ASSUME StatusInv, Tasking, NEW new, NEW failed \in BOOLEAN, NextTask(new, failed),
           TaskMove(new), RunningWasSeen(new)
    PROVE  /\ worker' \in Worker /\ worker'.stage \in {"tasks", "update"}
           /\ worker'.status \in Status /\ Exposed(worker'.status, new) /\ Sound(worker'.status)
           /\ worker'.status.tasks = new.tasks /\ worker'.status.uid = new.uid
           /\ \/ worker'.status.state = new.state
              \/ new.state = "AttemptPreparing" /\ worker'.status.state = "AttemptRunning"
           /\ ~worker'.cleaned
           /\ worker'.stage = "tasks" =>
                 worker'.status = new /\ worker'.todo = worker.todo \ {Task} /\ worker'.todo # {}
<1> DEFINE todo == worker.todo \ {Task}
           running == \E t \in Tasks : new.tasks[t].state = "AttemptRunning"
           final == IF new.state = "AttemptPreparing" /\ running
                    THEN [new EXCEPT !.state = "AttemptRunning"] ELSE new
<1>1. worker \in Worker
  BY TaskIsLeft
<1>2. new \in Status /\ Exposed(new, new) /\ Sound(new)
  BY ExposedReflexive DEF TaskMove
<1>3. /\ final \in Status /\ Exposed(final, new) /\ Sound(final)
      /\ final.tasks = new.tasks /\ final.uid = new.uid
      /\ \/ final.state = new.state
         \/ new.state = "AttemptPreparing" /\ final.state = "AttemptRunning"
  BY <1>2, RunningMoves
<1>4. worker' = [worker EXCEPT
                   !.stage = IF todo = {} THEN "update" ELSE "tasks",
                   !.status = IF todo = {} THEN final ELSE new,
                   !.todo = todo, !.cleaned = FALSE, !.failed = @ \/ failed]
  BY DEF NextTask
<1> HIDE DEF final, todo
<1>5. /\ worker' \in Worker
      /\ worker'.stage = IF todo = {} THEN "update" ELSE "tasks"
      /\ worker'.status = IF todo = {} THEN final ELSE new
      /\ worker'.todo = todo /\ ~worker'.cleaned
  <2>1. todo \in SUBSET Tasks
    BY <1>1 DEF Worker, todo
  <2>2. (worker.failed \/ failed) \in BOOLEAN
    OBVIOUS
  <2> QED BY <1>1, <1>2, <1>3, <1>4, <2>1, <2>2 DEF Worker
<1> QED BY <1>2, <1>3, <1>5 DEF todo

\* The calls on pods keep what the statuses say of them.
LEMMA TaskCallsKeep ==
    ASSUME StatusInv, SyncTask
    PROVE  /\ \A t \in Tasks : CacheFollows(t)'
           /\ \A s \in Held : RunningWasSeen(s)'
           /\ \A new : TaskMove(new) /\ RunningWasSeen(new) => RunningWasSeen(new)'
<1>1. /\ Tasking /\ UNCHANGED <<specVars, cacheVars, statusVars>>
      /\ \/ PodsAge /\ UNCHANGED uids
         \/ NewPod /\ PodGone /\ TS.state = "AttemptCreationPending"
  BY TaskCalls
<1>2. /\ UNCHANGED <<job, podCache>> /\ \A s \in Held : RunningWasSeen(s)
  BY <1>1 DEF specVars, cacheVars, StatusInv
<1>3. CASE PodsAge /\ UNCHANGED uids
  BY <1>2, <1>3, AgeingKeeps
<1>4. CASE NewPod /\ PodGone /\ TS.state = "AttemptCreationPending"
  <2>1. /\ \A t \in Tasks : CacheFollows(t)'
        /\ \A s : RunningWasSeen(s) /\ s.tasks[Task].state # "AttemptRunning" =>
                     RunningWasSeen(s)'
    BY <1>1, <1>2, <1>4, CreationKeeps
  <2>2. Held \subseteq {remote, Status0}
    BY <1>1, TaskFacts DEF Held, Status0
  <2>3. \A s \in Held : s.tasks[Task].state # "AttemptRunning"
    BY <1>1, <1>4, <2>2, TaskFacts DEF SameInstance, TS
  <2>4. \A new : TaskMove(new) => new.tasks[Task].state # "AttemptRunning"
    BY <1>1, <1>4, TaskIsLeft DEF TaskMove, TS, PodGone
  <2> QED BY <1>2, <2>1, <2>3, <2>4
<1> QED BY <1>1, <1>3, <1>4

\* A status with which the sync goes on holds the invariant.
LEMMA NextTaskOK ==
    ASSUME StatusInv, SyncTask, NEW new, NEW failed \in BOOLEAN, NextTask(new, failed),
           TaskMove(new)
    PROVE  StatusInv'
<1>1. /\ Tasking /\ UNCHANGED <<specVars, cacheVars, statusVars, cm>>
      /\ ObjTyped' /\ QueueTyped' /\ budget' \in [BoundNames -> Nat]
  BY TaskCalls
<1>2. /\ worker \in Worker /\ worker # Idle /\ Status0 \in Status /\ job \in Frameworks
      /\ Task \in Tasks /\ Task \in worker.todo /\ worker.todo \subseteq Tasks
  BY <1>1, TaskIsLeft DEF Worker
<1>3. /\ RunningWasSeen(Status0)
      /\ expected # NoInfo /\ expected.synced /\ expected.status = remote
      /\ remote \in Status /\ Exposed(Status0, remote) /\ Status0.retried = remote.retried
      /\ Status0.uid \in Nat \ {0}
      /\ \A t \in worker.todo : SameInstance(Status0.tasks[t], remote.tasks[t])
  BY <1>1, TaskFacts
<1>4. /\ new \in Status /\ Exposed(new, Status0) /\ Sound(new)
      /\ new.state \in HasInstance /\ new.uid = Status0.uid /\ new.retried = Status0.retried
      /\ \A u \in Tasks \ {Task} : SameInstance(new.tasks[u], Status0.tasks[u])
  BY DEF TaskMove
<1>5. RunningWasSeen(new)
  <2>1. \A t \in Tasks : CacheFollows(t)
    BY DEF StatusInv
  <2> QED BY <1>2, <1>3, <2>1 DEF TaskMove, RunningWasSeen, CacheFollows, PodSeen, PodObj, TS
<1>6. /\ worker' \in Worker /\ worker'.stage \in {"tasks", "update"}
      /\ worker'.status \in Status /\ Exposed(worker'.status, new) /\ Sound(worker'.status)
      /\ worker'.status.tasks = new.tasks
      /\ worker'.stage = "tasks" =>
            worker'.status = new /\ worker'.todo = worker.todo \ {Task} /\ worker'.todo # {}
  BY <1>1, <1>4, <1>5, NextTaskWorker
<1>7. /\ StatusTyped' /\ SpecTyped' /\ CacheTyped' /\ ExpectedFits'
      /\ UNCHANGED <<job, remote, expected, podCache>>
      /\ Status' = Status /\ Worker' = Worker /\ Tasks' = Tasks
      /\ Held' \subseteq Held \union {worker'.status}
  BY <1>1, <1>6, OthersStay, NotNothing
<1>8. TypeOK'
  BY <1>1, <1>6, <1>7, TypesJoin
<1>9. Exposed(worker'.status, remote)
  <2>1. Exposed(new, remote)
    BY <1>2, <1>3, <1>4, ExposedTransitive
  <2> QED BY <1>3, <1>4, <1>6, <2>1, ExposedTransitive
<1>10. WorkerFits'
  <2>1. Exposed(worker.status, expected.status)'
    BY <1>3, <1>7, <1>9, ExposedStays
  <2>2. worker'.stage = "tasks" =>
          \A u \in worker'.todo : SameInstance(worker'.status.tasks[u], expected'.status.tasks[u])
    BY <1>2, <1>3, <1>4, <1>6, <1>7 DEF SameInstance
  <2> QED BY <1>3, <1>4, <1>6, <1>7, <2>1, <2>2 DEF WorkerFits
<1>11. ASSUME NEW s \in Held' PROVE Sound(s)' /\ RunningWasSeen(s)'
  <2>1. CASE s \in Held
    BY <1>7, <2>1, SoundStays, TaskCallsKeep DEF StatusInv
  <2>2. CASE s = worker'.status
    <3>1. RunningWasSeen(new)'
      BY <1>5, TaskCallsKeep
    <3>2. RunningWasSeen(s)'
      BY <1>6, <2>2, <3>1 DEF RunningWasSeen
    <3> QED BY <1>6, <1>7, <2>2, <3>2, SoundStays
  <2> QED BY <1>7, <2>1, <2>2
<1> QED BY <1>7, <1>8, <1>10, <1>11, TaskCallsKeep DEF StatusInv

\* A pod of this attempt that was not recorded is deleted; nothing else changes.
LEMMA CleansPodOK ==
    ASSUME StatusInv, SyncTask, CleansPod
    PROVE  StatusInv'
<1>1. /\ Tasking /\ UNCHANGED <<specVars, cacheVars, statusVars, cm>>
      /\ ObjTyped' /\ QueueTyped' /\ budget' \in [BoundNames -> Nat]
  BY TaskCalls
<1>2. worker \in Worker /\ worker # Idle
  BY <1>1, TaskIsLeft
<1>3. /\ worker' \in Worker /\ worker'.status = worker.status /\ worker'.stage = "tasks"
      /\ worker'.todo = worker.todo
  BY <1>1, <1>2 DEF CleansPod, Worker, Tasking
<1>4. /\ StatusTyped' /\ SpecTyped' /\ CacheTyped' /\ ExpectedFits'
      /\ UNCHANGED <<job, remote, expected, podCache>>
      /\ Status' = Status /\ Worker' = Worker /\ Tasks' = Tasks
      /\ Held' \subseteq Held
  BY <1>1, <1>2, <1>3, OthersStay, NotNothing DEF Held
<1>5. TypeOK'
  BY <1>1, <1>3, <1>4, TypesJoin
<1>6. WorkerFits'
  BY <1>1, <1>2, <1>3, <1>4, ExposedStays DEF WorkerFits, StatusInv, Tasking
<1>7. ASSUME NEW s \in Held' PROVE Sound(s)' /\ RunningWasSeen(s)'
  BY <1>4, SoundStays, TaskCallsKeep DEF StatusInv
<1> QED BY <1>4, <1>5, <1>6, <1>7, TaskCallsKeep DEF StatusInv

\* Every step of the sync of a task keeps the invariant.
LEMMA SyncTaskOK == ASSUME StatusInv, SyncTask PROVE StatusInv'
BY TaskMoves, NextTaskOK, CleansPodOK

(***************************************************************************)
(* The other steps keep the invariant.                                     *)
(***************************************************************************)
\* A step that leaves the pods and the caches alone keeps what is said of them.
LEMMA PodsUntouched ==
    ASSUME UNCHANGED <<job, pods, podCache>>, uids'.pod = uids.pod
    PROVE  /\ \A t \in Tasks : CacheFollows(t) => CacheFollows(t)'
           /\ \A s : RunningWasSeen(s) => RunningWasSeen(s)'
BY StaticSets DEF CacheFollows, RunningWasSeen

\* The sync starts from the expected status, or from the persisted one.
LEMMA BeginSyncOK == ASSUME StatusInv, BeginSync PROVE StatusInv'
<1>1. /\ worker = Idle /\ UNCHANGED <<specVars, objVars, cacheVars, timer, remote, budget>>
      /\ queued' = FALSE
      /\ expected' = IF expected = NoInfo THEN [status |-> remote, synced |-> TRUE] ELSE expected
      /\ worker' = [stage |-> IF expected'.synced THEN "sync" ELSE "push",
                    status |-> expected'.status, exec |-> fCache,
                    todo |-> {}, cleaned |-> FALSE, failed |-> FALSE]
  BY DEF BeginSync
<1>2. /\ StatusTyped /\ SpecTyped /\ ObjTyped /\ CacheTyped /\ QueueTyped
      /\ budget \in [BoundNames -> Nat] /\ ExpectedFits
  BY TypesByGroup DEF StatusInv
<1>3. UNCHANGED <<job, exec, fCache, fNews, cm, pods, uids, cmCache, podCache>>
  BY <1>1 DEF specVars, objVars, cacheVars
<1>4. /\ Status' = Status /\ Worker' = Worker /\ Tasks' = Tasks /\ Pod' = Pod
  BY <1>3, StaticSets
<1>5. /\ expected' \in [status : Status \union {NoStatus}, synced : BOOLEAN]
      /\ expected' # NoInfo
      /\ expected'.synced => expected'.status = remote
      /\ Exposed(expected'.status, remote)
      /\ expected'.status \in {remote} \union (IF expected = NoInfo THEN {} ELSE {expected.status})
  <2>1. CASE expected = NoInfo
    <3>1. expected' = [status |-> remote, synced |-> TRUE]
      BY <1>1, <2>1
    <3>2. remote \in Status \union {NoStatus}
      BY <1>2 DEF StatusTyped
    <3>3. expected' \in [status : Status \union {NoStatus}, synced : BOOLEAN]
          /\ expected'.status = remote
      BY <3>1, <3>2
    <3> QED BY <2>1, <3>2, <3>3, NotNothing, ExposedReflexive
  <2>2. CASE expected # NoInfo
    BY <1>1, <1>2, <2>2 DEF StatusTyped, ExpectedFits
  <2> QED BY <2>1, <2>2
<1>6. /\ worker' \in Worker /\ worker' # Idle /\ worker'.status = expected'.status
      /\ worker'.stage = IF expected'.synced THEN "sync" ELSE "push"
  <2> DEFINE stage == IF expected'.synced THEN "sync" ELSE "push"
             status == expected'.status
  <2>1. stage \in {"sync", "push"} /\ status \in Status \union {NoStatus} /\ fCache \in {"Start", "Stop"}
    BY <1>2, <1>5 DEF SpecTyped
  <2>2. worker' = [stage |-> stage, status |-> status, exec |-> fCache,
                   todo |-> {}, cleaned |-> FALSE, failed |-> FALSE]
    BY <1>1
  <2> HIDE DEF stage, status
  <2>3. worker' \in Worker /\ worker'.status = status /\ worker'.stage = stage
    BY <2>1, <2>2 DEF Worker
  <2> QED BY <2>3, NotNothing DEF stage, status
<1>7. TypeOK'
  BY <1>1, <1>2, <1>3, <1>4, <1>5, <1>6
  DEF TypeOK, StatusTyped, SpecTyped, ObjTyped, CacheTyped, QueueTyped, ConfigMap
<1>8. ExpectedFits'
  BY <1>1, <1>3, <1>5, ExposedStays DEF ExpectedFits
<1>9. WorkerFits'
  <2>1. Exposed(worker'.status, expected'.status)
    BY <1>5, <1>6, ExposedReflexive
  <2>2. Exposed(worker.status, expected.status)'
    BY <1>3, <2>1, ExposedStays
  <2> QED BY <1>5, <1>6, <2>2 DEF WorkerFits
<1>10. Held' \subseteq Held
  BY <1>1, <1>5, <1>6 DEF Held
<1>11. ASSUME NEW s \in Held' PROVE Sound(s)' /\ RunningWasSeen(s)'
  BY <1>3, <1>10, SoundStays, PodsUntouched DEF StatusInv
<1>12. \A t \in Tasks' : CacheFollows(t)'
  BY <1>3, <1>4, PodsUntouched DEF StatusInv
<1> QED BY <1>7, <1>8, <1>9, <1>11, <1>12 DEF StatusInv

\* A write of the status is applied or not, and the sync knows or is over.
LEMMA WriteEffect ==
    ASSUME StatusInv, PushExpectedStatus \/ UpdateStatus
    PROVE  /\ worker # Idle /\ worker.stage \in {"push", "update"}
           /\ UNCHANGED <<job, exec, fCache, objVars, cacheVars, timer>>
           /\ SpecTyped' /\ QueueTyped' /\ budget' \in [BoundNames -> Nat]
           /\ remote' \in {remote, worker.status}
           /\ Exposed(worker.status, remote)
           /\ \/ expected' = expected /\ (remote' = remote \/ worker.status = expected.status)
              \/ \E b \in BOOLEAN : /\ expected' = [status |-> worker.status, synced |-> b]
                                    /\ b => remote' = worker.status
           /\ \/ worker' = Idle
              \/ /\ worker.stage = "push" /\ worker' = [worker EXCEPT !.stage = "sync"]
                 /\ expected' = [status |-> worker.status, synced |-> TRUE]
<1>1. /\ worker \in Worker \union {Idle} /\ SpecTyped /\ QueueTyped
      /\ budget \in [BoundNames -> Nat] /\ "errors" \in BoundNames /\ StatusTyped
      /\ ExpectedFits /\ WorkerFits
  BY TypesByGroup DEF StatusInv, BoundNames
<1>2. worker # Idle /\ worker.stage \in {"push", "update"}
  BY DEF PushExpectedStatus, UpdateStatus, Idle
<1>3. worker \in Worker /\ worker.status \in Status \union {NoStatus} /\ worker.failed \in BOOLEAN
  BY <1>1, <1>2 DEF Worker
<1>4. /\ expected # NoInfo /\ expected.status \in Status \union {NoStatus}
      /\ Exposed(worker.status, expected.status) /\ Exposed(expected.status, remote)
      /\ worker.stage = "push" => worker.status = expected.status
  BY <1>1, <1>2 DEF StatusTyped, ExpectedFits, WorkerFits
<1>5. Exposed(worker.status, remote)
  BY <1>1, <1>3, <1>4, ExposedTransitive DEF StatusTyped
<1>6. UNCHANGED <<job, exec, fCache, objVars, cacheVars, timer>>
  BY DEF PushExpectedStatus, UpdateStatus
<1>7. ASSUME UpdateFails
      PROVE  /\ remote' \in {remote, worker.status} /\ worker' = Idle
             /\ fNews' \in BOOLEAN /\ queued' \in BOOLEAN /\ budget' \in [BoundNames -> Nat]
  BY <1>1, <1>7, SpendTyped DEF UpdateFails, Finish, SpecTyped, QueueTyped
<1>8. ASSUME UpdateSucceeds
      PROVE  /\ remote' = worker.status /\ fNews' = TRUE /\ UNCHANGED budget
             /\ expected' = [status |-> worker.status, synced |-> TRUE]
  BY <1>8 DEF UpdateSucceeds
<1>9. CASE PushExpectedStatus
  <2>1. \/ /\ UpdateSucceeds /\ worker' = [worker EXCEPT !.stage = "sync"] /\ UNCHANGED queued
        \/ UpdateFails /\ UNCHANGED expected
    BY <1>9 DEF PushExpectedStatus
  <2>2. worker.stage = "push"
    BY <1>9 DEF PushExpectedStatus
  <2> QED
    BY <1>1, <1>2, <1>4, <1>5, <1>6, <1>7, <1>8, <2>1, <2>2 DEF SpecTyped, QueueTyped
<1>10. CASE UpdateStatus
  <2>1. \/ /\ Finish(worker.failed) /\ UNCHANGED <<fNews, statusVars, budget>>
        \/ UpdateSucceeds /\ Finish(worker.failed)
        \/ UpdateFails /\ expected' = [status |-> worker.status, synced |-> FALSE]
    BY <1>10 DEF UpdateStatus
  <2>2. Finish(worker.failed) => worker' = Idle /\ queued' \in BOOLEAN
    BY <1>1, <1>3 DEF Finish, QueueTyped
  <2> QED
    BY <1>1, <1>2, <1>5, <1>6, <1>7, <1>8, <2>1, <2>2 DEF SpecTyped, QueueTyped, statusVars
<1> QED BY <1>9, <1>10

\* Writes of the status keep the invariant, whatever becomes of them.
LEMMA WriteOK == ASSUME StatusInv, PushExpectedStatus \/ UpdateStatus PROVE StatusInv'
<1>1. /\ worker # Idle /\ worker.stage \in {"push", "update"}
      /\ UNCHANGED <<job, exec, fCache, cm, pods, uids, cmCache, podCache, timer>>
      /\ SpecTyped' /\ QueueTyped' /\ budget' \in [BoundNames -> Nat]
      /\ remote' \in {remote, worker.status}
      /\ Exposed(worker.status, remote)
      /\ \/ expected' = expected /\ (remote' = remote \/ worker.status = expected.status)
         \/ \E b \in BOOLEAN : /\ expected' = [status |-> worker.status, synced |-> b]
                               /\ b => remote' = worker.status
      /\ \/ worker' = Idle
         \/ /\ worker.stage = "push" /\ worker' = [worker EXCEPT !.stage = "sync"]
            /\ expected' = [status |-> worker.status, synced |-> TRUE]
  BY WriteEffect DEF objVars, cacheVars
<1>2. /\ worker \in Worker /\ StatusTyped /\ ObjTyped /\ CacheTyped /\ ExpectedFits /\ WorkerFits
  BY <1>1, TypesByGroup DEF StatusInv
<1>3. /\ Status' = Status /\ Worker' = Worker /\ Tasks' = Tasks /\ Pod' = Pod
  BY <1>1, StaticSets
<1>4. worker.status \in Status \union {NoStatus}
  BY <1>2 DEF Worker
<1>5. /\ expected # NoInfo /\ expected.status \in Status \union {NoStatus}
      /\ Exposed(expected.status, remote)
      /\ expected.synced => expected.status = remote
  BY <1>1, <1>2 DEF StatusTyped, ExpectedFits, WorkerFits
<1>6. remote' \in Status \union {NoStatus}
  BY <1>1, <1>2, <1>4 DEF StatusTyped
<1>7. ASSUME NEW b \in BOOLEAN, expected' = [status |-> worker.status, synced |-> b]
      PROVE  /\ expected' \in [status : Status \union {NoStatus}, synced : BOOLEAN]
             /\ expected' # NoInfo /\ expected'.status = worker.status /\ expected'.synced = b
  BY <1>4, <1>7, NotNothing
<1>8. /\ expected' \in [status : Status \union {NoStatus}, synced : BOOLEAN]
      /\ expected' # NoInfo /\ expected'.status \in {expected.status, worker.status}
      /\ expected'.synced => expected'.status = remote'
      /\ Exposed(expected'.status, remote')
  <2>1. CASE expected' = expected /\ (remote' = remote \/ worker.status = expected.status)
    BY <1>1, <1>2, <1>4, <1>5, <2>1, ExposedReflexive DEF StatusTyped
  <2>2. CASE \E b \in BOOLEAN : /\ expected' = [status |-> worker.status, synced |-> b]
                                /\ b => remote' = worker.status
    BY <1>1, <1>4, <1>7, <2>2, ExposedReflexive
  <2> QED BY <1>1, <2>1, <2>2
<1>9. StatusTyped' /\ ObjTyped' /\ CacheTyped'
  BY <1>1, <1>2, <1>3, <1>6, <1>8 DEF StatusTyped, ObjTyped, CacheTyped, ConfigMap
<1>10. \/ worker' = Idle
       \/ /\ worker' \in Worker /\ worker'.stage = "sync" /\ worker'.status = worker.status
          /\ expected'.status = worker.status /\ expected'.synced
  BY <1>1, <1>2, <1>7 DEF Worker
<1>11. TypeOK'
  BY <1>1, <1>3, <1>9, <1>10, TypesJoin
<1>12. ExpectedFits'
  <2>1. Exposed(expected.status, remote)'
    BY <1>1, <1>8, ExposedStays
  <2> QED BY <1>8, <2>1 DEF ExpectedFits
<1>13. WorkerFits'
  <2>1. Exposed(worker'.status, worker.status) \/ worker' = Idle
    BY <1>4, <1>10, ExposedReflexive
  <2>2. Exposed(worker.status, expected.status)' \/ worker' = Idle
    BY <1>1, <1>10, <2>1, ExposedStays
  <2> QED BY <1>8, <1>10, <2>2 DEF WorkerFits
<1>14. Held' \subseteq Held
  BY <1>1, <1>5, <1>8, <1>10 DEF Held
<1>15. ASSUME NEW s \in Held' PROVE Sound(s)' /\ RunningWasSeen(s)'
  BY <1>1, <1>14, SoundStays, PodsUntouched DEF StatusInv
<1>16. \A t \in Tasks' : CacheFollows(t)'
  BY <1>1, <1>3, PodsUntouched DEF StatusInv
<1> QED BY <1>11, <1>12, <1>13, <1>15, <1>16 DEF StatusInv

\* The caches move towards the objects.
LEMMA SeeingKeeps ==
    ASSUME StatusInv, UNCHANGED <<job, pods, uids>>,
           \A t \in Tasks : podCache'[t] \in {podCache[t], pods[t]}
    PROVE  /\ \A t \in Tasks : CacheFollows(t)'
           /\ \A s : RunningWasSeen(s) => RunningWasSeen(s)'
<1>1. Tasks' = Tasks /\ \A t \in Tasks : CacheFollows(t)
  BY StaticSets DEF StatusInv
<1> QED BY <1>1 DEF CacheFollows, RunningWasSeen

\* What users, the cluster, the informers and a restart do: nothing to the persisted
\* status, and to the controller only what a restart does.
LEMMA SurroundingsEffect ==
    ASSUME StatusInv, InformerNext \/ ClusterNext \/ Restart \/ UNCHANGED vars
    PROVE  /\ UNCHANGED <<job, remote, uids>>
           /\ UNCHANGED <<expected, worker>> \/ (worker' = Idle /\ expected' = NoInfo)
           /\ SpecTyped' /\ ObjTyped' /\ CacheTyped' /\ QueueTyped'
           /\ budget' \in [BoundNames -> Nat]
           /\ \/ PodsAge /\ UNCHANGED podCache
              \/ UNCHANGED pods /\ \A t \in Tasks : podCache'[t] \in {podCache[t], pods[t]}
<1>1. /\ SpecTyped /\ ObjTyped /\ CacheTyped /\ QueueTyped
      /\ budget \in [BoundNames -> Nat]
      /\ {"restarts", "orders", "failures", "podDeletes", "cmDeletes"} \subseteq BoundNames
  BY TypesByGroup DEF StatusInv, BoundNames
<1>2. ASSUME UNCHANGED job
      PROVE  Tasks' = Tasks /\ Pod' = Pod
  BY <1>2, StaticSets
<1>3. CASE InformerNext
  <2>1. CASE SeeFramework \/ SeeConfigMap \/ FireTimer
    BY <1>1, <1>2, <2>1
    DEF SeeFramework, SeeConfigMap, FireTimer, SpecTyped, ObjTyped, CacheTyped, QueueTyped,
        specVars, objVars, cacheVars, statusVars, ConfigMap
  <2>2. ASSUME NEW t \in Tasks, SeePod(t)
        PROVE  /\ UNCHANGED <<specVars, objVars, cmCache, timer, statusVars, worker, budget>>
               /\ podCache' = [podCache EXCEPT ![t] = pods[t]] /\ queued' \in BOOLEAN
    BY <1>1, <2>2 DEF SeePod, QueueTyped
  <2>3. ASSUME NEW t \in Tasks, SeePod(t)
        PROVE  /\ podCache' \in [Tasks -> Pod \union {NoObject}]
               /\ \A u \in Tasks : podCache'[u] \in {podCache[u], pods[u]}
    BY <1>1, <2>2, <2>3 DEF CacheTyped, ObjTyped
  <2>4. CASE \E t \in Tasks : SeePod(t)
    BY <1>1, <1>2, <2>2, <2>3, <2>4
    DEF SpecTyped, ObjTyped, CacheTyped, QueueTyped, specVars, objVars, statusVars, ConfigMap
  <2> QED BY <1>3, <2>1, <2>4 DEF InformerNext
<1>4. CASE ClusterNext
  <2>1. ASSUME NEW t \in Tasks, NEW p \in Pod \union {NoObject}, PodMayBecome(pods[t], p),
               PodStep(t, p), budget' \in [BoundNames -> Nat]
        PROVE  /\ UNCHANGED <<job, remote, uids, expected, worker, podCache>>
               /\ SpecTyped' /\ ObjTyped' /\ CacheTyped' /\ QueueTyped' /\ PodsAge
    <3>1. UNCHANGED <<job, exec, fCache, fNews, cm, uids, cmCache, podCache, queued, timer, remote,
                      expected, worker>> /\ pods' = [pods EXCEPT ![t] = p]
      BY <2>1 DEF PodStep, ClusterStep, cacheVars, queueVars, statusVars
    <3>2. ObjTyped' /\ PodsAge
      BY <1>1, <2>1, <3>1, OnePodAges
    <3> QED BY <1>1, <1>2, <3>1, <3>2 DEF SpecTyped, CacheTyped, QueueTyped, ConfigMap
  <2>2. ASSUME NEW e \in {"Start", "Stop"}, SetExecution(e)
        PROVE  /\ UNCHANGED <<job, remote, uids, expected, worker, podCache, pods>>
               /\ SpecTyped' /\ ObjTyped' /\ CacheTyped' /\ QueueTyped'
               /\ budget' \in [BoundNames -> Nat]
    BY <1>1, <1>2, <2>2, SpendTyped
    DEF SetExecution, ClusterStep, SpecTyped, ObjTyped, CacheTyped, QueueTyped, objVars, cacheVars,
        queueVars, statusVars, ConfigMap
  <2>3. CASE RemoveConfigMap \/ DeleteConfigMapByOthers
    <3>1. cm' \in ConfigMap \union {NoObject} /\ budget' \in [BoundNames -> Nat]
      BY <1>1, <2>3, SpendTyped DEF RemoveConfigMap, DeleteConfigMapByOthers, ObjTyped, ConfigMap
    <3>2. UNCHANGED <<job, exec, fCache, fNews, pods, uids, cmCache, podCache, queued, timer, remote,
                      expected, worker>>
      BY <2>3 DEF RemoveConfigMap, DeleteConfigMapByOthers, ClusterStep, cacheVars, queueVars,
         statusVars
    <3> QED BY <1>1, <1>2, <3>1, <3>2 DEF SpecTyped, ObjTyped, CacheTyped, QueueTyped, ConfigMap
  <2>4. ASSUME NEW t \in Tasks, pods[t] # NoObject
        PROVE  /\ pods[t] \in Pod
               /\ LET p == [pods[t] EXCEPT !.deleting = TRUE]
                  IN  p \in Pod /\ PodMayBecome(pods[t], p)
               /\ \A phase \in {"Running"} \union Results :
                     LET p == [pods[t] EXCEPT !.phase = phase]
                     IN  p \in Pod /\ (phase # "Pending" => PodMayBecome(pods[t], p))
               /\ PodMayBecome(pods[t], NoObject)
    <3>1. pods[t] \in Pod
      BY <1>1, <2>4 DEF ObjTyped
    <3>2. LET p == [pods[t] EXCEPT !.deleting = TRUE]
          IN  p \in Pod /\ PodMayBecome(pods[t], p)
      BY <2>4, <3>1, NotNothing DEF Pod, PodMayBecome
    <3>3. ASSUME NEW phase \in {"Running"} \union Results
          PROVE  LET p == [pods[t] EXCEPT !.phase = phase]
                 IN  p \in Pod /\ (phase # "Pending" => PodMayBecome(pods[t], p))
      <4> DEFINE p == [pods[t] EXCEPT !.phase = phase]
      <4>1. p \in Pod /\ p.uid = pods[t].uid /\ p.owner = pods[t].owner /\ p.phase = phase
        BY <3>1 DEF Pod
      <4> HIDE DEF p
      <4>2. phase # "Pending" => PodMayBecome(pods[t], p)
        BY <2>4, <4>1, NotNothing DEF PodMayBecome
      <4> QED BY <4>1, <4>2 DEF p
    <3> QED BY <3>1, <3>2, <3>3 DEF PodMayBecome
  <2>5. "Pending" \notin Results /\ "Running" \notin Results
    BY <1>1, JobFacts DEF SpecTyped, Results, Framework
  <2>6. ASSUME NEW t \in Tasks,
               StartPod(t) \/ RemovePod(t) \/ CollectPod(t) \/ DeletePodByOthers(t)
               \/ \E result \in Results : EndPod(t, result)
        PROVE  /\ budget' \in [BoundNames -> Nat] /\ pods[t] # NoObject
               /\ \E p \in Pod \union {NoObject} : PodStep(t, p) /\ PodMayBecome(pods[t], p)
    <3>1. pods[t] # NoObject
      BY <2>6 DEF StartPod, RemovePod, CollectPod, DeletePodByOthers, EndPod
    <3>2. budget' \in [BoundNames -> Nat]
      BY <1>1, <2>6, SpendTyped DEF StartPod, RemovePod, CollectPod, DeletePodByOthers, EndPod
    <3>3. CASE StartPod(t)
      BY <3>1, <3>2, <3>3, <2>4 DEF StartPod
    <3>4. CASE RemovePod(t)
      BY <3>1, <3>2, <3>4, <2>4 DEF RemovePod
    <3>5. CASE CollectPod(t) \/ DeletePodByOthers(t)
      BY <3>1, <3>2, <3>5, <2>4 DEF CollectPod, DeletePodByOthers
    <3>6. CASE \E result \in Results : EndPod(t, result)
      BY <3>1, <3>2, <3>6, <2>4, <2>5 DEF EndPod
    <3> QED BY <2>6, <3>1, <3>2, <3>3, <3>4, <3>5, <3>6
  <2>7. CASE \E t \in Tasks :
               StartPod(t) \/ RemovePod(t) \/ CollectPod(t) \/ DeletePodByOthers(t)
               \/ \E result \in Results : EndPod(t, result)
    BY <2>1, <2>6, <2>7
  <2>8. CASE \E e \in {"Start", "Stop"} : SetExecution(e)
    BY <2>2, <2>8
  <2>9. CASE RemoveConfigMap \/ DeleteConfigMapByOthers
    BY <2>3, <2>9 DEF RemoveConfigMap, DeleteConfigMapByOthers, ClusterStep, cacheVars, statusVars
  <2> QED BY <1>4, <2>7, <2>8, <2>9 DEF ClusterNext
<1>5. CASE Restart
  BY <1>1, <1>2, <1>5, SpendTyped
  DEF Restart, SpecTyped, ObjTyped, CacheTyped, QueueTyped, objVars, ConfigMap
<1>6. CASE UNCHANGED vars
  BY <1>1, <1>2, <1>6, PodsKept
  DEF vars, SpecTyped, ObjTyped, CacheTyped, QueueTyped, specVars, objVars, cacheVars, queueVars,
      statusVars, ConfigMap
<1> QED BY <1>3, <1>4, <1>5, <1>6

\* The surroundings keep the invariant.
LEMMA SurroundingsOK ==
    ASSUME StatusInv, InformerNext \/ ClusterNext \/ Restart \/ UNCHANGED vars
    PROVE  StatusInv'
<1>1. /\ UNCHANGED <<job, remote, uids>>
      /\ UNCHANGED <<expected, worker>> \/ (worker' = Idle /\ expected' = NoInfo)
      /\ SpecTyped' /\ ObjTyped' /\ CacheTyped' /\ QueueTyped'
      /\ budget' \in [BoundNames -> Nat]
      /\ \/ PodsAge /\ UNCHANGED podCache
         \/ UNCHANGED pods /\ \A t \in Tasks : podCache'[t] \in {podCache[t], pods[t]}
  BY SurroundingsEffect
<1>2. /\ StatusTyped /\ ExpectedFits /\ WorkerFits /\ worker \in Worker \union {Idle}
  BY TypesByGroup DEF StatusInv
<1>3. /\ Status' = Status /\ Worker' = Worker /\ Tasks' = Tasks
  BY <1>1, StaticSets
<1>4. StatusTyped' /\ (worker \in Worker \union {Idle})'
  BY <1>1, <1>2, <1>3 DEF StatusTyped
<1>5. TypeOK'
  BY <1>1, <1>4, TypesJoin
<1>6. ExpectedFits' /\ WorkerFits'
  BY <1>1, <1>2, <1>3, ExposedStays DEF ExpectedFits, WorkerFits
<1>7. Held' \subseteq Held
  BY <1>1 DEF Held
<1>8. /\ \A t \in Tasks : CacheFollows(t)'
      /\ \A s : RunningWasSeen(s) => RunningWasSeen(s)'
  BY <1>1, AgeingKeeps, SeeingKeeps
<1>9. \A s \in Held' : Sound(s)' /\ RunningWasSeen(s)'
  BY <1>1, <1>7, <1>8, SoundStays DEF StatusInv
<1> QED BY <1>3, <1>5, <1>6, <1>8, <1>9 DEF StatusInv

\* It holds at the start ...
LEMMA InitOK == ASSUME Init PROVE StatusInv
<1>1. /\ job.bounds \in [BoundNames -> Nat] /\ job \in Frameworks
  BY JobFacts DEF Init
<1>2. TypeOK
  BY <1>1 DEF Init, TypeOK
<1>3. Held = {} /\ ExpectedFits /\ WorkerFits
  BY DEF Init, Held, ExpectedFits, WorkerFits
<1>4. \A t \in Tasks : CacheFollows(t)
  BY DEF Init, CacheFollows
<1> QED BY <1>2, <1>3, <1>4 DEF StatusInv

\* ... and every step keeps it.
LEMMA StepOK == ASSUME StatusInv, [Next]_vars PROVE StatusInv'
BY SyncFrameworkOK, SyncTaskOK, BeginSyncOK, WriteOK, SurroundingsOK DEF Next, WorkerNext

\* The invariant of the statuses holds in every state of every framework.
THEOREM StatusInvHolds == Spec => []StatusInv
BY InitOK, StepOK, PTL DEF Spec

(***************************************************************************)
(* What follows for the status that users see.                             *)
(***************************************************************************)
\* Every variable keeps its type, whatever fails and however often.
THEOREM TypeSafety == Spec => []TypeOK
<1>1. StatusInv => TypeOK
  BY DEF StatusInv
<1> QED BY <1>1, StatusInvHolds, PTL

\* types.go: the status of a completed attempt, and of each of its tasks, says how it
\* completed, and its tasks are completed with it.
THEOREM CompletedAttemptsAreAccountedFor == Spec => []CompletedAttemptIsAccountedFor
<1>1. StatusInv => CompletedAttemptIsAccountedFor
  <2> SUFFICES ASSUME StatusInv, remote # NoStatus, remote.state \in Ended
               PROVE  /\ remote.code # NoCode
                      /\ \A t \in Tasks : /\ remote.tasks[t].state = "Completed"
                                          /\ remote.tasks[t].code # NoCode
    BY DEF CompletedAttemptIsAccountedFor
  <2>1. Sound(remote)
    BY DEF StatusInv, Held
  <2> QED BY <2>1 DEF Sound, Ended
<1> QED BY <1>1, StatusInvHolds, PTL

\* Under the policy that the platform submits, a job is reported as succeeded only with
\* all its tasks, whatever failed, was lost, was retried or was deleted on the way.
THEOREM SuccessIsOfAllTasks == Spec => []SucceededMeansAllSucceeded
<1>1. StatusInv => SucceededMeansAllSucceeded
  <2> SUFFICES ASSUME StatusInv, PlatformPolicy, remote # NoStatus, remote.code = "Succeeded"
               PROVE  \A t \in Tasks : remote.tasks[t].code = "Succeeded"
    BY DEF SucceededMeansAllSucceeded, PlatformPolicy
  <2>1. Sound(remote)
    BY DEF StatusInv, Held
  <2> QED BY <2>1 DEF Sound, SucceedsAsGang
<1> QED BY <1>1, StatusInvHolds, PTL

\* What any step makes of the persisted status is at least as late as it was: only the
\* two writes change it, and they write what was decided on top of it.
LEMMA WritesExpose == ASSUME StatusInv, [Next]_vars PROVE Exposed(remote', remote)
<1>1. remote \in Status \union {NoStatus}
  BY DEF StatusInv, TypeOK
<1>2. Exposed(remote, remote)
  BY <1>1, ExposedReflexive
<1>3. CASE UNCHANGED remote
  BY <1>2, <1>3
<1>4. CASE PushExpectedStatus \/ UpdateStatus
  BY <1>2, <1>4, WriteEffect
<1>5. CASE SyncFramework
  BY <1>3, <1>5, FrameworkCalls DEF statusVars
<1>6. CASE SyncTask
  BY <1>3, <1>6, TaskCalls DEF statusVars
<1>7. CASE BeginSync
  BY <1>3, <1>7 DEF BeginSync
<1>8. CASE InformerNext \/ ClusterNext \/ Restart \/ UNCHANGED vars
  BY <1>3, <1>8, SurroundingsEffect
<1> QED BY <1>4, <1>5, <1>6, <1>7, <1>8 DEF Next, WorkerNext

\* types.go: the status is Monotonically Exposed to every client of the API server: across
\* lost answers, conflicts, restarts and retries, attempts are never taken back, and within
\* an attempt the state moves forward and the instance and the completion do not change.
THEOREM StatusIsMonotonicallyExposed == Spec => MonotonicallyExposed
<1>1. ASSUME StatusInv, [Next]_vars
      PROVE  [remote # NoStatus =>
                /\ remote' # NoStatus /\ Later(remote', remote)
                /\ remote'.retried = remote.retried =>
                      \A t \in Tasks : Later(remote'.tasks[t], remote.tasks[t])]_vars
  BY <1>1, WritesExpose DEF Exposed
<1> QED BY <1>1, StatusInvHolds, PTL DEF Spec, MonotonicallyExposed

(***************************************************************************)
(* The invariant of the instances.  It says of every status that is held,  *)
(* the persisted, the expected and the one being decided, what the objects *)
(* in the API server may then be; the caches count only where the code     *)
(* takes an object for gone because it does not see it.  Others who delete *)
(* the ConfigMap break it, see NoInstanceOfCompletedAttempt.               *)
(***************************************************************************)
\* Nobody else has deleted a ConfigMap so far.
Untouched == budget["cmDeletes"] = job.bounds["cmDeletes"]

\* A pod goes before the ConfigMap that it belongs to.
PodsOwned == \A t \in Tasks : pods[t] # NoObject => cm # NoObject /\ pods[t].owner = cm.uid

\* An object is taken for gone after one under its name was deleted only if what is
\* under the name is not the managed one.
CleanedIsGone ==
    /\ worker.stage = "push" => ~worker.cleaned
    /\ worker.stage = "sync" /\ worker.cleaned =>
          (cm # NoObject => cm.uid # worker.status.uid)
    /\ worker.stage = "tasks" /\ worker.cleaned =>
          (pods[Task] # NoObject => pods[Task].uid # TS.uid)

\* The cache shows the ConfigMap of the status, and not that it is being deleted.
SeenUndeleted(s) == cmCache # NoObject /\ cmCache.uid = s.uid /\ ~cmCache.deleting

\* Whether the status counts on a ConfigMap that is not being deleted.
CountsOnConfigMap(s) ==
    \/ s.state \in {"AttemptPreparing", "AttemptRunning"}
    \/ s.state = "AttemptCreationRequested" /\ SeenUndeleted(s)

\* What the ConfigMap may be: the one of the status, which the cache shows once the attempt is
\* under way, and gone when the attempt is completed.
CmFits(s) ==
    /\ s.state # "AttemptCreationPending" /\ cm # NoObject => cm.uid = s.uid
    /\ s.state \in HasInstance /\ cm # NoObject => cmCache # NoObject /\ cmCache.uid = s.uid
    /\ s.state \in Ended => cm = NoObject
    /\ CountsOnConfigMap(s) => cm # NoObject /\ ~cm.deleting

\* The same for the pod of a task.
PodFits(ts, t) ==
    /\ ts.state # "AttemptCreationPending" /\ pods[t] # NoObject => pods[t].uid = ts.uid
    /\ ts.state \in HasInstance /\ pods[t] # NoObject =>
          podCache[t] # NoObject /\ podCache[t].uid = ts.uid
    /\ ts.state \in Ended => pods[t] = NoObject

\* What the objects may be, as far as a status says.
Fits(s) == CmFits(s) /\ \A t \in Tasks : PodFits(s.tasks[t], t)

\* The invariant as long as nobody else has deleted a ConfigMap ...
Instances ==
    /\ PodsOwned
    /\ cm # NoObject => cm.foreground
    /\ worker # Idle => CleanedIsGone
    /\ \A s \in Held : Fits(s)

\* ... and the whole of it.
InstanceInv ==
    /\ budget["cmDeletes"] <= job.bounds["cmDeletes"]
    /\ Untouched => Instances

\* Only the deletion of a ConfigMap by others is counted as one.
LEMMA SpendKeeps ==
    ASSUME budget \in [BoundNames -> Nat], NEW what \in BoundNames \ {"cmDeletes"}, Spend(what)
    PROVE  budget'["cmDeletes"] = budget["cmDeletes"]
BY DEF Spend, BoundNames

\* A step is such a deletion, or leaves their count alone.
LEMMA OthersDelete ==
    ASSUME StatusInv, [Next]_vars
    PROVE  \/ budget'["cmDeletes"] = budget["cmDeletes"]
           \/ DeleteConfigMapByOthers /\ budget'["cmDeletes"] = budget["cmDeletes"] - 1
<1> USE DEF objVars, NoCall
<1>1. budget \in [BoundNames -> Nat]
  BY TypesByGroup DEF StatusInv
<1>2. \A what \in {"errors", "failures", "timeouts", "restarts", "orders", "podDeletes"} :
         Spend(what) => budget'["cmDeletes"] = budget["cmDeletes"]
  BY <1>1, SpendKeeps DEF BoundNames
<1>3. CASE BeginSync \/ PushExpectedStatus \/ UpdateStatus
  BY <1>2, <1>3 DEF BeginSync, PushExpectedStatus, UpdateStatus, UpdateFails, UpdateSucceeds
<1>4. CASE SyncFramework
  BY <1>2, <1>4 DEF SyncFramework, CreateStatus, BackUpGracePeriod, SkipCompleted,
        CleanUpConfigMap, WaitForConfigMap, GiveUpOnConfigMap, ConfigMapDisappeared,
        RequestConfigMapDeletion, SyncAttempt, ConfigMapDeleting, CompleteFramework,
        DelayRetry, RetryFramework, StopBeforeCreation, CreateConfigMap
<1>5. CASE SyncTask
  BY <1>2, <1>5 DEF SyncTask, SkipCompletedTask, CleanUpPod, WaitForPod, GiveUpOnPod,
        PodDisappeared, RequestPodDeletion, WaitPodDeletion, ObservePod, PodDeleting,
        RetryTask, CompleteTask, CreatePod, RejectPod
<1>6. CASE InformerNext
  BY <1>6 DEF InformerNext, SeeFramework, SeeConfigMap, SeePod, FireTimer
<1>7. CASE ClusterNext
  <2>1. DeleteConfigMapByOthers => budget'["cmDeletes"] = budget["cmDeletes"] - 1
    BY <1>1 DEF DeleteConfigMapByOthers, Spend, BoundNames
  <2> QED BY <1>2, <1>7, <2>1 DEF ClusterNext, SetExecution, RemoveConfigMap, StartPod,
        RemovePod, CollectPod, DeletePodByOthers, EndPod
<1>8. CASE Restart \/ UNCHANGED vars
  BY <1>2, <1>8 DEF Restart, vars
<1> QED BY <1>3, <1>4, <1>5, <1>6, <1>7, <1>8 DEF Next, WorkerNext

(***************************************************************************)
(* The sync of the framework and the instances.                            *)
(***************************************************************************)
\* A mark on the ConfigMap matters only to a status that counts on it.
LEMMA FitsStay ==
    ASSUME NEW s, Fits(s), UNCHANGED <<job, pods, podCache, cmCache>>,
           \/ UNCHANGED cm
           \/ \E uid : MarkConfigMap(uid) /\ (cm # NoObject /\ cm.uid = uid => ~CountsOnConfigMap(s)),
           cm \in ConfigMap \union {NoObject}
    PROVE  Fits(s)'
<1>1. Tasks' = Tasks
  BY StaticSets
<1>2. \A t \in Tasks : PodFits(s.tasks[t], t)'
  BY DEF Fits, PodFits
<1>3. CASE UNCHANGED cm
  BY <1>1, <1>2, <1>3 DEF Fits, CmFits, CountsOnConfigMap, SeenUndeleted
<1>4. ASSUME NEW uid, MarkConfigMap(uid), cm # NoObject, cm.uid = uid, ~CountsOnConfigMap(s)
      PROVE  Fits(s)'
  <2> DEFINE m == [cm EXCEPT !.deleting = TRUE]
  <2>1. m # NoObject /\ m.uid = cm.uid
    BY <1>4, NotNothing DEF ConfigMap
  <2>2. cm' = m
    BY <1>4 DEF MarkConfigMap
  <2> HIDE DEF m
  <2> QED BY <1>1, <1>2, <1>4, <2>1, <2>2 DEF Fits, CmFits, CountsOnConfigMap, SeenUndeleted
<1> QED BY <1>3, <1>4 DEF MarkConfigMap

\* What counts for a status is its state, its instance and those of its tasks.
LEMMA FitsAlike ==
    ASSUME NEW s, NEW n, Fits(s), n.state = s.state \/ (n.state \in Ended /\ s.state \in Ended),
           n.uid = s.uid,
           \A t \in Tasks : n.tasks[t].state = s.tasks[t].state /\ n.tasks[t].uid = s.tasks[t].uid
    PROVE  Fits(n)
BY DEF Fits, CmFits, PodFits, CountsOnConfigMap, SeenUndeleted, Ended, HasInstance, Completing

\* A new attempt counts on nothing, and neither does one that has completed with nothing left.
LEMMA FitsWithout ==
    ASSUME NEW n,
           \/ /\ n.state = "AttemptCreationPending"
              /\ \A t \in Tasks : n.tasks[t].state = "AttemptCreationPending"
           \/ n.state \in Ended /\ cm = NoObject /\ PodsOwned
    PROVE  Fits(n)
BY DEF Fits, CmFits, PodFits, CountsOnConfigMap, SeenUndeleted, Ended, HasInstance, Completing,
       PodsOwned

\* Where the sync of the framework starts, and what it holds then.
LEMMA SyncHolds ==
    ASSUME StatusInv, Instances, Syncing
    PROVE  /\ Held = {Status0} \ {NoStatus}
           /\ Status0 # NoStatus => Fits(Status0) /\ Status0 \in Status /\ Sound(Status0)
           /\ PodsOwned /\ CleanedIsGone /\ cm \in ConfigMap \union {NoObject}
           /\ worker \in Worker
<1>1. /\ worker \in Worker /\ worker # Idle /\ Status0 = expected.status /\ Status0 = remote
      /\ expected # NoInfo /\ Status0 # NoStatus => Status0 \in Status /\ Sound(Status0)
  BY SyncFacts
<1>2. Held = {Status0} \ {NoStatus}
  BY <1>1 DEF Held, Status0
<1> QED BY <1>1, <1>2 DEF Instances, StatusInv, TypeOK

\* The ConfigMap is gone when the code takes it for gone.
LEMMA GoneIsGone ==
    ASSUME StatusInv, Instances, Settled, CmGone,
           Status0.state \notin Ended \union {"AttemptCreationPending"}
    PROVE  /\ cm # NoObject => /\ Status0.state = "AttemptCreationRequested"
                               /\ ~CountsOnConfigMap(Status0)
           /\ worker.cleaned => cm = NoObject
<1>1. /\ Status0 # NoStatus /\ Fits(Status0) /\ Status0 \in Status /\ CleanedIsGone
      /\ Syncing
  BY SyncHolds DEF Settled
<1>2. Status0.state \in HasInstance \union {"AttemptCreationRequested"}
  BY <1>1, StatesListed DEF Status, HasInstance, Completing, Ended
<1>3. worker.cleaned => cm = NoObject
  BY <1>1 DEF Fits, CmFits, CleanedIsGone, Syncing, Status0
<1> QED BY <1>1, <1>2, <1>3 DEF CmGone, Fits, CmFits, CountsOnConfigMap, SeenUndeleted, HasInstance,
        Completing

\* The objects of a status that was decided without the ConfigMap.
LEMMA DecideFits ==
    ASSUME StatusInv, Instances, Syncing,
           \/ CreateStatus \/ BackUpGracePeriod \/ SkipCompleted \/ WaitForConfigMap
           \/ ConfigMapDisappeared \/ CompleteFramework \/ DelayRetry \/ RetryFramework
    PROVE  /\ UNCHANGED cm /\ \E n : Decide(n) /\ Fits(n)
<1>1. UNCHANGED cm
  BY DEF CreateStatus, BackUpGracePeriod, SkipCompleted, WaitForConfigMap,
         ConfigMapDisappeared, CompleteFramework, DelayRetry, RetryFramework, NoCall, objVars
<1>2. /\ PodsOwned
      /\ Status0 # NoStatus => Fits(Status0) /\ Status0 \in Status /\ Sound(Status0)
      /\ job \in Frameworks
  BY SyncHolds, SyncFacts
<1>3. CASE CreateStatus
  <2> DEFINE n == NewStatus(0, 0)
  <2>1. n.state = "AttemptCreationPending" /\ \A t \in Tasks : n.tasks[t].state = "AttemptCreationPending"
    BY NewStatusIsSound
  <2>2. Decide(n)
    BY <1>3 DEF CreateStatus
  <2> HIDE DEF n
  <2> QED BY <1>1, <2>1, <2>2, FitsWithout
<1>4. CASE RetryFramework
  <2> DEFINE accounted == Status0.accounted + IF Decision0.counted THEN 1 ELSE 0
             n == NewStatus(Status0.retried + 1, accounted)
  <2>1. Status0 \in Status /\ Decide(n)
    BY <1>2, <1>4 DEF RetryFramework, Settled
  <2>2. Status0.retried + 1 \in Nat /\ accounted \in Nat
    BY <2>1 DEF Status
  <2>3. n.state = "AttemptCreationPending" /\ \A t \in Tasks : n.tasks[t].state = "AttemptCreationPending"
    BY <2>2, NewStatusIsSound
  <2> HIDE DEF n
  <2> QED BY <1>1, <2>1, <2>3, FitsWithout
<1>5. CASE SkipCompleted \/ WaitForConfigMap
  BY <1>1, <1>2, <1>5 DEF SkipCompleted, WaitForConfigMap, Settled
<1>6. CASE BackUpGracePeriod
  <2> DEFINE n == [Status0 EXCEPT !.graced = GracePeriod]
  <2>1. Status0 \in Status /\ Fits(Status0) /\ Decide(n)
    BY <1>2, <1>6 DEF BackUpGracePeriod
  <2>2. n.state = Status0.state /\ n.uid = Status0.uid /\ n.tasks = Status0.tasks
    BY <2>1 DEF Status
  <2> HIDE DEF n
  <2> QED BY <1>1, <2>1, <2>2, FitsAlike
<1>7. CASE CompleteFramework
  <2> DEFINE n == [Status0 EXCEPT !.state = "Completed"]
  <2>1. Status0 \in Status /\ Fits(Status0) /\ Decide(n) /\ Status0.state = "AttemptCompleted"
    BY <1>2, <1>7 DEF CompleteFramework, Settled
  <2>2. n.state = "Completed" /\ n.uid = Status0.uid /\ n.tasks = Status0.tasks
    BY <2>1 DEF Status
  <2> HIDE DEF n
  <2> QED BY <1>1, <2>1, <2>2, FitsAlike DEF Ended
<1>8. CASE DelayRetry
  <2> DEFINE n == [Status0 EXCEPT !.delayed = TRUE]
  <2>1. Status0 \in Status /\ Fits(Status0) /\ Decide(n)
    BY <1>2, <1>8 DEF DelayRetry, Settled
  <2>2. n.state = Status0.state /\ n.uid = Status0.uid /\ n.tasks = Status0.tasks
    BY <2>1 DEF Status
  <2> HIDE DEF n
  <2> QED BY <1>1, <2>1, <2>2, FitsAlike
<1>9. CASE ConfigMapDisappeared
  <2> DEFINE n == CompleteFrameworkAttempt(Status0, TRUE, "ConfigMapExternalDeleted")
  <2>1. /\ Settled /\ CmGone /\ Status0 \in Status /\ Decide(n)
        /\ Status0.state \notin Ended \union {"AttemptCreationPending", "AttemptCreationRequested"}
    BY <1>2, <1>9 DEF ConfigMapDisappeared, Settled
  <2>2. cm = NoObject
    BY <2>1, GoneIsGone
  <2>3. "ConfigMapExternalDeleted" \in Codes
    BY DEF Codes, Transient
  <2>4. n.state = "AttemptCompleted"
    BY <2>1, <2>3, FrameworkCompletion
  <2> HIDE DEF n
  <2> QED BY <1>1, <1>2, <2>1, <2>2, <2>4, FitsWithout DEF Ended
<1> QED BY <1>3, <1>4, <1>5, <1>6, <1>7, <1>8, <1>9

\* A mark on the ConfigMap does not take it from its pods.
LEMMA OwnedStay ==
    ASSUME Instances, UNCHANGED <<job, pods>>, cm \in ConfigMap \union {NoObject},
           UNCHANGED cm \/ \E uid : MarkConfigMap(uid)
    PROVE  /\ PodsOwned' /\ (cm # NoObject => cm.foreground)' /\ (cm = NoObject <=> cm' = NoObject)
           /\ cm # NoObject => cm'.uid = cm.uid
<1>1. Tasks' = Tasks /\ PodsOwned /\ (cm # NoObject => cm.foreground)
  BY StaticSets DEF Instances
<1>2. CASE UNCHANGED cm
  BY <1>1, <1>2 DEF PodsOwned
<1>3. CASE cm # NoObject /\ cm' = [cm EXCEPT !.deleting = TRUE]
  <2> DEFINE m == [cm EXCEPT !.deleting = TRUE]
  <2>1. m # NoObject /\ m.uid = cm.uid /\ m.foreground = cm.foreground
    BY <1>3, NotNothing DEF ConfigMap
  <2>2. cm' = m
    BY <1>3
  <2> HIDE DEF m
  <2> QED BY <1>1, <1>3, <2>1, <2>2 DEF PodsOwned
<1> QED BY <1>2, <1>3 DEF MarkConfigMap

\* What a step of the sync of the framework leaves, of the objects and of the sync.
Outcome ==
    /\ PodsOwned' /\ (cm # NoObject => cm.foreground)'
    /\ \A s \in Held : Fits(s)'
    /\ \/ Abort
       \/ Cleans /\ (cm' # NoObject => cm'.uid # Status0.uid)
       \/ \E n : (Decide(n) \/ GoOn(n)) /\ Fits(n)'

\* A step that marks the ConfigMap, if no status counts on it.
LEMMA MarkOutcome ==
    ASSUME StatusInv, Instances, SyncFramework,
           \/ UNCHANGED cm
           \/ \E uid : /\ MarkConfigMap(uid)
                       /\ cm # NoObject /\ cm.uid = uid /\ Status0 # NoStatus =>
                             ~CountsOnConfigMap(Status0),
           \/ Abort
           \/ Cleans /\ (cm # NoObject => cm.uid # Status0.uid)
           \/ \E n : /\ Decide(n) \/ GoOn(n)
                     /\ Fits(n)
                     /\ ~CountsOnConfigMap(n) \/ UNCHANGED cm
    PROVE  Outcome
<1>1. /\ Syncing /\ UNCHANGED <<specVars, cacheVars, pods>>
  BY FrameworkCalls
<1>2. UNCHANGED <<job, pods, podCache, cmCache>>
  BY <1>1 DEF specVars, cacheVars
<1>3. /\ cm \in ConfigMap \union {NoObject} /\ Held = {Status0} \ {NoStatus}
      /\ \A s \in Held : Fits(s)
  BY <1>1, SyncHolds DEF Instances
<1>4. /\ PodsOwned' /\ (cm # NoObject => cm.foreground)' /\ (cm = NoObject <=> cm' = NoObject)
      /\ cm # NoObject => cm'.uid = cm.uid
  <2>1. UNCHANGED cm \/ \E uid : MarkConfigMap(uid)
    OBVIOUS
  <2> QED BY <1>2, <1>3, <2>1, OwnedStay
<1>5. \A s \in Held : Fits(s)'
  BY <1>2, <1>3, FitsStay
<1>6. ASSUME NEW n, Fits(n), ~CountsOnConfigMap(n) \/ UNCHANGED cm PROVE Fits(n)'
  BY <1>2, <1>3, <1>6, FitsStay
<1> QED BY <1>4, <1>5, <1>6 DEF Outcome

\* The ConfigMap is deleted, or found to be gone, without being in the cache.
LEMMA CallsOutcome ==
    ASSUME StatusInv, Instances, SyncFramework,
           CleanUpConfigMap \/ GiveUpOnConfigMap \/ StopBeforeCreation
    PROVE  Outcome
<1> USE DEF NoCall, objVars
<1>1. /\ Settled /\ Syncing /\ Status0 # NoStatus
  BY DEF CleanUpConfigMap, GiveUpOnConfigMap, StopBeforeCreation, Settled
<1>2. /\ Fits(Status0) /\ Status0 \in Status /\ PodsOwned /\ CleanedIsGone
      /\ cm \in ConfigMap \union {NoObject} /\ worker \in Worker
  BY <1>1, SyncHolds
<1>3. ASSUME NEW c \in Codes, cm = NoObject
      PROVE  Fits(CompleteFrameworkAttempt(Status0, TRUE, c))
  <2> DEFINE n == CompleteFrameworkAttempt(Status0, TRUE, c)
  <2>1. n.state = "AttemptCompleted"
    BY <1>2, FrameworkCompletion
  <2> HIDE DEF n
  <2>2. Fits(n)
    BY <1>2, <1>3, <2>1, FitsWithout DEF Ended
  <2> QED BY <2>2 DEF n
<1>4. {"StopFrameworkRequested", "ConfigMapCreationTimeout"} \subseteq Codes
  BY DEF Codes, Permanent, Transient
<1>5. CASE CleanUpConfigMap
  <2>1. /\ cmCache # NoObject /\ cmCache.uid # Status0.uid
    BY <1>5 DEF CleanUpConfigMap, CmGone, CmSeen
  <2>2. cm # NoObject /\ cm.uid = cmCache.uid =>
            Status0.state = "AttemptCreationPending"
    BY <1>2, <2>1 DEF Fits, CmFits
  <2>3. cm # NoObject /\ cm.uid = cmCache.uid => ~CountsOnConfigMap(Status0)
    BY <2>2 DEF CountsOnConfigMap
  <2>4. \/ /\ Cleans /\ MarkConfigMap(cmCache.uid) /\ Deletable(cm, cmCache.uid)
        \/ Abort /\ (MarkConfigMap(cmCache.uid) \/ UNCHANGED cm)
    BY <1>5 DEF CleanUpConfigMap, Cleans
  <2>5. Deletable(cm, cmCache.uid) => (cm # NoObject => cm.uid # Status0.uid)
    BY <2>1 DEF Deletable
  <2> QED BY <2>3, <2>4, <2>5, MarkOutcome
<1>6. CASE GiveUpOnConfigMap
  <2>1. Settled /\ CmGone /\ Status0.state = "AttemptCreationRequested"
    BY <1>6 DEF GiveUpOnConfigMap
  <2>2. cm # NoObject => ~CountsOnConfigMap(Status0)
    BY <2>1, GoneIsGone DEF Ended
  <2>3. \/ /\ cm = NoObject /\ UNCHANGED cm
           /\ \E c \in {"StopFrameworkRequested", "ConfigMapCreationTimeout"} :
                 Decide(CompleteFrameworkAttempt(Status0, TRUE, c))
        \/ Abort /\ (MarkConfigMap(Status0.uid) \/ UNCHANGED cm)
    BY <1>6 DEF GiveUpOnConfigMap
  <2> QED BY <1>3, <1>4, <2>2, <2>3, MarkOutcome
<1>7. CASE StopBeforeCreation
  <2>1. Status0.state = "AttemptCreationPending"
    BY <1>7 DEF StopBeforeCreation
  <2>2. ~CountsOnConfigMap(Status0)
    BY <2>1 DEF CountsOnConfigMap
  <2>3. \/ /\ cm = NoObject /\ UNCHANGED cm
           /\ Decide(CompleteFrameworkAttempt(Status0, TRUE, "StopFrameworkRequested"))
        \/ Abort /\ (MarkConfigMap(cm.uid) \/ UNCHANGED cm)
    BY <1>7 DEF StopBeforeCreation
  <2> QED BY <1>3, <1>4, <2>2, <2>3, MarkOutcome
<1> QED BY <1>5, <1>6, <1>7

\* The attempt goes on: the ConfigMap was seen, and as it was seen undeleted, only the
\* controller itself may delete it.
LEMMA GoOnOutcome ==
    ASSUME StatusInv, Instances, SyncFramework,
           RequestConfigMapDeletion \/ SyncAttempt \/ ConfigMapDeleting
    PROVE  Outcome
<1> USE DEF NoCall, objVars
<1>1. /\ Settled /\ Syncing /\ Status0 # NoStatus /\ CmSeen
  BY DEF RequestConfigMapDeletion, SyncAttempt, ConfigMapDeleting, Settled
<1>2. /\ Fits(Status0) /\ Status0 \in Status /\ Sound(Status0)
      /\ cm \in ConfigMap \union {NoObject}
  BY <1>1, SyncHolds
<1>3. Status0.state # "AttemptCreationPending" /\ cmCache # NoObject /\ cmCache.uid = Status0.uid
  BY <1>1, <1>2 DEF CmSeen, StatusInv, TypeOK, ConfigMap, Sound
<1>4. ASSUME NEW n, n.uid = Status0.uid, n.state \in HasInstance,
             CountsOnConfigMap(n) => CountsOnConfigMap(Status0),
             \A t \in Tasks : n.tasks[t].state = Status0.tasks[t].state
                              /\ n.tasks[t].uid = Status0.tasks[t].uid
      PROVE  Fits(n)
  <2>1. CmFits(n)
    BY <1>2, <1>3, <1>4 DEF Fits, CmFits, HasInstance, Completing, Ended
  <2>2. \A t \in Tasks : PodFits(n.tasks[t], t)
    BY <1>2, <1>4 DEF Fits, PodFits
  <2> QED BY <2>1, <2>2 DEF Fits
<1>5. CASE RequestConfigMapDeletion
  <2> DEFINE n == [Status0 EXCEPT !.state = "AttemptDeletionRequested"]
  <2>1. Status0.state = "AttemptDeletionPending"
    BY <1>5 DEF RequestConfigMapDeletion
  <2>2. \/ GoOn(n) /\ MarkConfigMap(Status0.uid)
        \/ Abort /\ (MarkConfigMap(Status0.uid) \/ UNCHANGED cm)
    BY <1>5 DEF RequestConfigMapDeletion
  <2>3. n.state = "AttemptDeletionRequested" /\ n.uid = Status0.uid /\ n.tasks = Status0.tasks
    BY <1>2 DEF Status
  <2> HIDE DEF n
  <2>4. ~CountsOnConfigMap(Status0) /\ ~CountsOnConfigMap(n)
    BY <2>1, <2>3 DEF CountsOnConfigMap
  <2>5. Fits(n)
    BY <1>4, <2>3, <2>4 DEF HasInstance, Completing
  <2> QED BY <2>2, <2>4, <2>5, MarkOutcome
<1>6. CASE ConfigMapDeleting
  <2> DEFINE n == [WithCode(Status0, "ConfigMapExternalDeleted") EXCEPT !.state = "AttemptDeleting"]
  <2>1. GoOn(n) /\ UNCHANGED cm
    BY <1>6 DEF ConfigMapDeleting
  <2>2. n.state = "AttemptDeleting" /\ n.uid = Status0.uid /\ n.tasks = Status0.tasks
    BY <1>2 DEF Status, WithCode
  <2> HIDE DEF n
  <2>3. Fits(n)
    BY <1>4, <2>2 DEF HasInstance, Completing, CountsOnConfigMap
  <2> QED BY <2>1, <2>3, MarkOutcome
<1>7. CASE SyncAttempt
  <2> DEFINE s == IF Status0.state = "AttemptCreationRequested"
                  THEN [Status0 EXCEPT !.state = "AttemptPreparing"] ELSE Status0
  <2>1. /\ Status0.state \notin Ended \union {"AttemptDeletionPending"} /\ UNCHANGED cm
        /\ ~cmCache.deleting
    BY <1>7 DEF SyncAttempt
  <2>2. /\ s \in Status /\ s.tasks = Status0.tasks /\ s.uid = Status0.uid
        /\ s.state = IF Status0.state = "AttemptCreationRequested" THEN "AttemptPreparing"
                     ELSE Status0.state
    BY <1>2, StatesListed DEF Status
  <2>3. \/ GoOn(s)
        \/ \E c \in Codes : GoOn(CompleteFrameworkAttempt(s, FALSE, c))
    <3>1. \/ GoOn(s)
          \/ GoOn(CompleteFrameworkAttempt(s, FALSE, "StopFrameworkRequested"))
          \/ \E c \in TriggeredCodes(s) : GoOn(CompleteFrameworkAttempt(s, FALSE, c))
      BY <1>7 DEF SyncAttempt
    <3>2. "StopFrameworkRequested" \in Codes /\ job \in Frameworks
      BY <1>1, SyncFacts DEF Codes, Permanent
    <3>3. \A t \in Tasks : s.tasks[t].state \in Ended => s.tasks[t].code # NoCode
      BY <1>2, <2>2 DEF Sound
    <3>4. TriggeredCodes(s) \subseteq Codes
      <4>1. \A t \in FailedTasks(s) : s.tasks[t].code \in Codes
        BY <2>2, <3>2, <3>3, TaskCounts
      <4>2. "Succeeded" \in Codes
        BY DEF Codes
      <4> QED BY <4>1, <4>2 DEF TriggeredCodes
    <3> QED BY <3>1, <3>2, <3>4
  <2> HIDE DEF s
  <2>4. s.state \in HasInstance
    BY <1>2, <1>3, <2>1, <2>2, StatesListed DEF HasInstance, Completing, Ended, Status
  <2>5. CountsOnConfigMap(s) => CountsOnConfigMap(Status0)
    BY <1>3, <2>1, <2>2 DEF CountsOnConfigMap, SeenUndeleted
  <2>6. Fits(s)
    BY <1>4, <2>2, <2>4, <2>5
  <2>7. ASSUME NEW c \in Codes PROVE Fits(CompleteFrameworkAttempt(s, FALSE, c))
    <3> DEFINE n == CompleteFrameworkAttempt(s, FALSE, c)
    <3>1. /\ n.state = "AttemptDeletionPending" /\ n.uid = s.uid
          /\ \A t \in Tasks : SameInstance(n.tasks[t], s.tasks[t])
      BY <2>2, CompletionKeepsInstances
    <3> HIDE DEF n
    <3>2. Fits(n)
      BY <1>4, <2>2, <3>1 DEF HasInstance, Completing, CountsOnConfigMap, SameInstance
    <3> QED BY <3>2 DEF n
  <2> QED BY <2>1, <2>3, <2>6, <2>7, MarkOutcome
<1> QED BY <1>5, <1>6, <1>7

\* A ConfigMap is created when none is left, and then no pod is.
LEMMA CreateOutcome ==
    ASSUME StatusInv, Instances, SyncFramework, CreateConfigMap
    PROVE  Outcome
<1> USE DEF NoCall, objVars
<1>1. /\ Settled /\ Syncing /\ Status0 # NoStatus /\ Status0.state = "AttemptCreationPending"
  BY DEF CreateConfigMap, Settled
<1>2. /\ Fits(Status0) /\ Status0 \in Status /\ PodsOwned
      /\ Held = {Status0} \ {NoStatus} /\ Sound(Status0)
      /\ uids.cm \in Nat /\ \A t \in Tasks : Status0.tasks[t] \in TaskStatus
  BY <1>1, SyncHolds DEF StatusInv, TypeOK, Status
<1>3. UNCHANGED <<job, pods, podCache, cmCache>>
  BY FrameworkCalls DEF specVars, cacheVars
<1>4. CASE UNCHANGED cm /\ Abort
  BY <1>4, MarkOutcome
<1>5. CASE cm = NoObject /\ NewConfigMap
  <2> DEFINE u == uids.cm + 1
             m == [uid |-> u, deleting |-> FALSE, foreground |-> TRUE]
             n == [Status0 EXCEPT !.uid = u, !.state = "AttemptCreationRequested"]
  <2>1. u \in Nat \ {0}
    BY <1>2
  <2>2. cm' = m
    BY <1>5 DEF NewConfigMap
  <2>3. \/ Abort
        \/ Decide([Status0 EXCEPT !.uid = cm'.uid, !.state = "AttemptCreationRequested"])
    BY <1>5 DEF CreateConfigMap
  <2> HIDE DEF u
  <2>4. m \in ConfigMap /\ m.uid = u /\ ~m.deleting /\ m.foreground
    BY <2>1 DEF ConfigMap
  <2>5. /\ n.uid = u /\ n.state = "AttemptCreationRequested" /\ n.tasks = Status0.tasks
    BY <1>2 DEF Status
  <2>6. Abort \/ Decide(n)
    BY <2>2, <2>3, <2>4
  <2> HIDE DEF m, n
  <2>7. m # NoObject /\ Tasks' = Tasks
    BY <1>3, <2>4, NotNothing, StaticSets
  <2>8. \A t \in Tasks : pods[t] = NoObject
    BY <1>2, <1>5 DEF PodsOwned
  <2>9. PodsOwned' /\ (cm # NoObject => cm.foreground)'
    BY <1>3, <2>2, <2>4, <2>7, <2>8 DEF PodsOwned
  <2>10. \A ts : \A t \in Tasks : PodFits(ts, t)'
    BY <1>3, <2>8 DEF PodFits
  <2>11. \A s : \/ s.state = "AttemptCreationPending"
                \/ s.state = "AttemptCreationRequested" /\ s.uid = u
                => CmFits(s)'
    BY <2>2, <2>4, <2>7 DEF CmFits, CountsOnConfigMap, SeenUndeleted, HasInstance, Completing, Ended
  <2> QED BY <1>1, <1>2, <2>5, <2>6, <2>7, <2>9, <2>10, <2>11 DEF Outcome, Fits
<1> QED BY <1>4, <1>5 DEF CreateConfigMap

\* Every step of the sync of the framework keeps the invariant of the instances.
LEMMA SyncFrameworkInstances ==
    ASSUME StatusInv, Instances, SyncFramework
    PROVE  Instances'
<1>1. /\ Syncing /\ worker \in Worker /\ UNCHANGED <<specVars, cacheVars, statusVars, pods>>
      /\ worker # Idle
  BY FrameworkCalls, SyncFacts
<1>2. Outcome
  <2>1. CASE \/ CreateStatus \/ BackUpGracePeriod \/ SkipCompleted \/ WaitForConfigMap
             \/ ConfigMapDisappeared \/ CompleteFramework \/ DelayRetry \/ RetryFramework
    BY <1>1, <2>1, DecideFits, MarkOutcome
  <2> QED BY <2>1, CallsOutcome, GoOnOutcome, CreateOutcome DEF SyncFramework
<1>3. \/ worker' = Idle
      \/ /\ Cleans /\ worker'.stage = "sync" /\ worker'.status = worker.status
         /\ cm' # NoObject => cm'.uid # Status0.uid
      \/ \E n : /\ worker'.status = n /\ Fits(n)'
                /\ worker'.stage \in {"tasks", "update"}
                /\ worker'.stage = "tasks" => ~worker'.cleaned
  BY <1>1, <1>2 DEF Outcome, Abort, Finish, Cleans, Decide, GoOn, Worker, Syncing
<1>4. (worker # Idle => CleanedIsGone)'
  BY <1>3 DEF CleanedIsGone, Status0
<1>5. UNCHANGED <<remote, expected>>
  BY <1>1 DEF statusVars
<1>6. \A s \in Held' : s \in Held \/ Fits(s)'
  BY <1>1, <1>3, <1>5 DEF Held
<1> QED BY <1>2, <1>4, <1>6 DEF Outcome, Instances

(***************************************************************************)
(* The sync of a task and the instances.                                   *)
(***************************************************************************)
\* Where the sync of a task starts, and what it holds then.
LEMMA TaskHolds ==
    ASSUME StatusInv, Instances, Tasking
    PROVE  /\ Held = {remote, Status0} /\ Fits(remote) /\ Fits(Status0)
           /\ PodsOwned /\ CleanedIsGone
           /\ worker \in Worker /\ Status0 \in Status /\ Task \in Tasks /\ TS \in TaskStatus
           /\ PodFits(TS, Task) /\ PodFits(remote.tasks[Task], Task)
           /\ SameInstance(TS, remote.tasks[Task])
           /\ PodSeen => TS.state # "AttemptCreationPending"
           /\ Status0.state \notin Completing => cm # NoObject /\ cm.uid = Status0.uid
<1>1. /\ Task \in worker.todo /\ Task \in Tasks /\ worker \in Worker /\ worker # Idle
      /\ Status0 \in Status /\ TS \in TaskStatus
  BY TaskIsLeft
<1>2. /\ Sound(Status0) /\ Status0.state \in HasInstance
      /\ expected # NoInfo /\ expected.status = remote /\ remote \in Status
      /\ \A t \in worker.todo : SameInstance(Status0.tasks[t], remote.tasks[t])
  BY TaskFacts
<1>3. Held = {remote, Status0}
  BY <1>1, <1>2, NotNothing DEF Held, Status0
<1>4. Fits(remote) /\ Fits(Status0) /\ PodsOwned /\ CleanedIsGone
  BY <1>1, <1>3 DEF Instances
<1>5. PodSeen => TS.state # "AttemptCreationPending"
  BY <1>1, <1>2 DEF PodSeen, PodObj, StatusInv, TypeOK, Pod, Sound, TS
<1>6. Status0.state \notin Completing => cm # NoObject /\ cm.uid = Status0.uid
  BY <1>2, <1>4 DEF Fits, CmFits, HasInstance, Completing, CountsOnConfigMap
<1> QED BY <1>1, <1>2, <1>3, <1>4, <1>5, <1>6 DEF Fits, TS

\* Pods that age are not more than the statuses say.
LEMMA AgedFits ==
    ASSUME UNCHANGED <<job, podCache>>, NEW t \in Tasks, PodMayBecome(pods[t], pods'[t]), NEW ts,
           PodFits(ts, t)
    PROVE  PodFits(ts, t)'
BY DEF PodFits, PodMayBecome

\* What a step of the sync of a task decides for that task fits its pod.
TaskFits(ts) ==
    /\ ts.state # "AttemptCreationPending" /\ pods'[Task] # NoObject => pods'[Task].uid = ts.uid
    /\ ts.state \in HasInstance /\ pods'[Task] # NoObject =>
          podCache[Task] # NoObject /\ podCache[Task].uid = ts.uid
    /\ ts.state \in Ended => pods'[Task] = NoObject

\* Every step of the sync of a task deletes an unrecorded pod, or decides what fits its pod.
LEMMA TaskPodFits ==
    ASSUME StatusInv, Instances, SyncTask
    PROVE  \/ CleansPod /\ PodsAge /\ (pods'[Task] # NoObject => pods'[Task].uid # TS.uid)
           \/ \E new, failed : NextTask(new, failed) /\ new \in Status /\ TaskFits(new.tasks[Task])
<1> USE DEF DecideTask, NoCall, objVars
<1>1. /\ Tasking /\ UNCHANGED <<specVars, cacheVars, statusVars, cm>> /\ ObjTyped'
      /\ PodsAge \/ (NewPod /\ TS.state = "AttemptCreationPending")
  BY TaskCalls
<1>2. UNCHANGED <<job, podCache>>
  BY <1>1 DEF specVars, cacheVars
<1>3. /\ Fits(Status0) /\ PodsOwned /\ CleanedIsGone
      /\ worker \in Worker /\ Status0 \in Status /\ Task \in Tasks /\ TS \in TaskStatus
      /\ PodFits(TS, Task)
      /\ PodSeen => TS.state # "AttemptCreationPending"
      /\ Status0.state \notin Completing => cm # NoObject /\ cm.uid = Status0.uid
  BY <1>1, TaskHolds
<1>4. /\ job \in Frameworks /\ TS.state \in States /\ TS.retried \in Nat /\ TS.accounted \in Nat
      /\ ObjTyped /\ CacheTyped
  BY <1>1, <1>3, TaskIsLeft, TypesByGroup DEF TaskStatus, StatusInv
<1>5. ASSUME NEW ts \in TaskStatus, NEW failed,
             NextTask([Status0 EXCEPT !.tasks[Task] = ts], failed), TaskFits(ts)
      PROVE  \E new, f : NextTask(new, f) /\ new \in Status /\ TaskFits(new.tasks[Task])
  <2> DEFINE n == [Status0 EXCEPT !.tasks[Task] = ts]
  <2>1. n \in Status /\ n.tasks[Task] = ts
    BY <1>3 DEF Status
  <2>2. NextTask(n, failed)
    BY <1>5
  <2> HIDE DEF n
  <2> QED BY <1>5, <2>1, <2>2
<1>6. ASSUME PodsAge, NEW ts, PodFits(ts, Task) PROVE TaskFits(ts)
  BY <1>3, <1>6 DEF TaskFits, PodFits, PodsAge, PodMayBecome
<1>7. ASSUME pods'[Task] = NoObject, NEW ts PROVE TaskFits(ts)
  BY <1>7 DEF TaskFits
<1>8. ASSUME PodsAge, PodSeen, NEW ts, ts.uid = TS.uid, ts.state \in HasInstance
      PROVE  TaskFits(ts)
  <2>1. PodFits(ts, Task)
    BY <1>3, <1>8 DEF PodFits, PodSeen, PodObj, HasInstance, Completing, Ended
  <2> QED BY <1>6, <1>8, <2>1
<1>9. ASSUME NEW ts, ts.state = "AttemptCreationPending" PROVE TaskFits(ts)
  BY <1>9 DEF TaskFits, HasInstance, Completing, Ended
<1>10. ASSUME SkipTask \/ FailTask
       PROVE  \E new, f : NextTask(new, f) /\ new \in Status /\ TaskFits(new.tasks[Task])
  <2>1. TaskFits(TS)
    BY <1>1, <1>3, <1>6, <1>9
  <2> QED BY <1>3, <1>10, <2>1 DEF SkipTask, FailTask, TS
<1>11. ASSUME NEW force \in BOOLEAN, NEW c \in Codes, NEW failed,
              NextTask([Status0 EXCEPT !.tasks[Task] = CompleteTaskAttempt(TS, force, c)], failed),
              IF force THEN pods'[Task] = NoObject ELSE PodSeen /\ PodsAge
       PROVE  \E new, f : NextTask(new, f) /\ new \in Status /\ TaskFits(new.tasks[Task])
  <2> DEFINE ts == CompleteTaskAttempt(TS, force, c)
  <2>1. /\ ts \in TaskStatus /\ ts.uid = TS.uid
        /\ ts.state = IF force THEN "AttemptCompleted" ELSE "AttemptDeletionPending"
    BY <1>3, TaskCompletion
  <2>2. NextTask([Status0 EXCEPT !.tasks[Task] = ts], failed)
    BY <1>11
  <2> HIDE DEF ts
  <2>3. TaskFits(ts)
    BY <1>7, <1>8, <1>11, <2>1 DEF HasInstance, Completing
  <2> QED BY <1>5, <2>1, <2>2, <2>3
<1>12. CASE SkipCompletedTask \/ WaitForPod \/ WaitPodDeletion
  BY <1>10, <1>12 DEF SkipCompletedTask, WaitForPod, WaitPodDeletion
<1>13. CASE CleanUpPod
  <2>1. PodObj # NoObject /\ PodObj.uid # TS.uid
    BY <1>13 DEF CleanUpPod, PodForeign
  <2>2. \/ FailTask
        \/ /\ CleansPod /\ Deletable(pods[Task], PodObj.uid)
           /\ \E uid : MarkPod(Task, uid) \/ ForcePod(Task, uid)
    BY <1>13 DEF CleanUpPod, CleansPod
  <2>3. CASE FailTask
    BY <1>10, <2>3
  <2>4. CASE /\ CleansPod /\ Deletable(pods[Task], PodObj.uid)
             /\ \E uid : MarkPod(Task, uid) \/ ForcePod(Task, uid)
    <3>1. PodsAge
      BY <1>2, <1>3, <1>4, <2>4, PodDeletionAges
    <3>2. pods'[Task] # NoObject => pods[Task] # NoObject /\ pods'[Task].uid = pods[Task].uid
      BY <1>3, <3>1 DEF PodsAge, PodMayBecome
    <3>3. pods[Task] # NoObject => pods[Task].uid = PodObj.uid
      BY <2>4 DEF Deletable
    <3> QED BY <2>1, <2>4, <3>1, <3>2, <3>3
  <2> QED BY <2>2, <2>3, <2>4
<1>14. CASE GiveUpOnPod
  <2>1. \/ FailTask
        \/ /\ pods[Task] = NoObject /\ UNCHANGED pods
           /\ DecideTask(CompleteTaskAttempt(TS, TRUE, "PodCreationTimeout"))
    BY <1>14 DEF GiveUpOnPod
  <2>2. "PodCreationTimeout" \in Codes
    BY DEF Codes, Transient
  <2> QED BY <1>10, <1>11, <2>1, <2>2
<1>15. CASE PodDisappeared
  <2>1. /\ PodGone /\ TS.state \in HasInstance /\ UNCHANGED pods
        /\ DecideTask(CompleteTaskAttempt(TS, TRUE, "PodExternalDeleted"))
    BY <1>15 DEF PodDisappeared, Associated, HasInstance
  <2>2. pods[Task] = NoObject
    BY <1>1, <1>3, <2>1
    DEF PodGone, PodSeen, PodObj, PodFits, CleanedIsGone, Tasking, HasInstance, Completing
  <2>3. "PodExternalDeleted" \in Codes
    BY DEF Codes, Transient
  <2> QED BY <1>11, <2>1, <2>2, <2>3
<1>16. ASSUME PodsAge, PodSeen, NEW ts \in TaskStatus, NEW failed, ts.uid = TS.uid,
              ts.state \in HasInstance, NextTask([Status0 EXCEPT !.tasks[Task] = ts], failed)
       PROVE  \E new, f : NextTask(new, f) /\ new \in Status /\ TaskFits(new.tasks[Task])
  BY <1>5, <1>8, <1>16
<1>17. \A st \in HasInstance :
          [TS EXCEPT !.state = st] \in TaskStatus /\ [TS EXCEPT !.state = st].uid = TS.uid
          /\ [TS EXCEPT !.state = st].state = st
  <2>1. HasInstance \subseteq States
    BY StatesListed DEF HasInstance, Completing
  <2> QED BY <1>3, <2>1 DEF TaskStatus
<1>18. CASE RequestPodDeletion
  <2>1. /\ PodSeen
        /\ FailTask \/ DecideTask([TS EXCEPT !.state = "AttemptDeletionRequested"])
    BY <1>18 DEF RequestPodDeletion
  <2>2. "AttemptDeletionRequested" \in HasInstance
    BY DEF HasInstance, Completing
  <2>3. PodsAge \/ FailTask
    BY <1>1, <1>18, <1>3 DEF RequestPodDeletion
  <2> QED BY <1>10, <1>16, <1>17, <2>1, <2>2, <2>3
<1>19. CASE ObservePod
  <2>1. PodSeen /\ UNCHANGED pods /\ PodObj # NoObject
    BY <1>19 DEF ObservePod, PodSeen
  <2>2. PodsAge
    BY <2>1, <1>4 DEF PodsAge, PodMayBecome
  <2>3. \/ \E st \in {"AttemptPreparing", "AttemptRunning"} : DecideTask([TS EXCEPT !.state = st])
        \/ /\ PodObj.phase \notin {"Pending", "Running"}
           /\ DecideTask(CompleteTaskAttempt(TS, FALSE, PodObj.phase))
    BY <1>19 DEF ObservePod
  <2>4. PodObj.phase \in {"Pending", "Running"} \union Codes
    BY <1>3, <1>4, <2>1, JobFacts DEF CacheTyped, PodObj, Pod
  <2>5. {"AttemptPreparing", "AttemptRunning"} \subseteq HasInstance
    BY DEF HasInstance
  <2>6. CASE \E st \in {"AttemptPreparing", "AttemptRunning"} : DecideTask([TS EXCEPT !.state = st])
    BY <1>16, <1>17, <2>1, <2>2, <2>5, <2>6
  <2>7. CASE /\ PodObj.phase \notin {"Pending", "Running"}
             /\ DecideTask(CompleteTaskAttempt(TS, FALSE, PodObj.phase))
    BY <1>11, <2>1, <2>2, <2>4, <2>7
  <2> QED BY <2>3, <2>6, <2>7
<1>20. CASE PodDeleting
  <2> DEFINE coded == WithCode(TS, "PodExternalDeleted")
             ts == [coded EXCEPT !.state = "AttemptDeleting"]
  <2>1. coded \in TaskStatus /\ coded.uid = TS.uid
    BY <1>3 DEF WithCode, TaskStatus, Codes, Transient
  <2>2. PodSeen /\ \E f \in BOOLEAN : NextTask([Status0 EXCEPT !.tasks[Task] = ts], f)
    BY <1>20 DEF PodDeleting
  <2>3. PodsAge
    BY <1>1, <1>3, <2>2
  <2> HIDE DEF coded
  <2>4. ts \in TaskStatus /\ ts.state = "AttemptDeleting" /\ ts.uid = TS.uid
    BY <2>1, StatesListed DEF TaskStatus
  <2> HIDE DEF ts
  <2> QED BY <1>16, <2>2, <2>3, <2>4 DEF HasInstance, Completing
<1>21. CASE RetryTask
  <2> DEFINE accounted == TS.accounted + IF TaskDecision.counted THEN 1 ELSE 0
             ts == NewTaskStatus(TS.retried + 1, accounted)
  <2>1. NextTask([Status0 EXCEPT !.tasks[Task] = ts], FALSE)
    BY <1>21 DEF RetryTask
  <2>2. accounted \in Nat /\ TS.retried + 1 \in Nat
    BY <1>4
  <2> HIDE DEF accounted
  <2>3. ts \in TaskStatus /\ ts.state = "AttemptCreationPending"
    BY <2>2, NewTaskStatusTyped
  <2> HIDE DEF ts
  <2> QED BY <1>5, <1>9, <2>1, <2>3
<1>22. CASE CompleteTask
  <2>1. TS.state = "AttemptCompleted" /\ UNCHANGED pods
    BY <1>22 DEF CompleteTask
  <2>2. pods'[Task] = NoObject
    BY <1>3, <2>1 DEF PodFits, Ended
  <2>3. \E new, failed : NextTask(new, failed) /\ new \in Status
    BY <1>22, CompleteTaskMoves DEF TaskMove
  <2> QED BY <1>7, <2>2, <2>3
<1>23. CASE CreatePod
  <2> DEFINE u == uids.pod[Task] + 1
             ts == [TS EXCEPT !.uid = u, !.state = "AttemptCreationRequested"]
  <2>1. SkipTask \/ FailTask \/ (NewPod /\ DecideTask([TS EXCEPT !.uid = uids'.pod[Task],
                                                  !.state = "AttemptCreationRequested"]))
    BY <1>23 DEF CreatePod
  <2>2. SUFFICES ASSUME NewPod, DecideTask([TS EXCEPT !.uid = uids'.pod[Task],
                                                  !.state = "AttemptCreationRequested"])
                 PROVE  \E new, f : NextTask(new, f) /\ new \in Status /\ TaskFits(new.tasks[Task])
    BY <1>10, <2>1
  <2>3. pods'[Task].uid = uids'.pod[Task] /\ uids'.pod[Task] = u /\ u \in Nat
    BY <1>1, <1>2, <2>2, NewPodIsNew
  <2>4. NextTask([Status0 EXCEPT !.tasks[Task] = ts], FALSE)
    BY <2>2, <2>3
  <2> HIDE DEF u
  <2>5. ts \in TaskStatus /\ ts.state = "AttemptCreationRequested" /\ ts.uid = u
    BY <1>3, <2>3, StatesListed DEF TaskStatus
  <2> HIDE DEF ts
  <2>6. TaskFits(ts)
    BY <2>3, <2>5 DEF TaskFits, HasInstance, Completing, Ended
  <2> QED BY <1>5, <2>4, <2>5, <2>6
<1>24. CASE RejectPod
  <2>1. Status0.state \notin Completing
    BY <1>24 DEF RejectPod
  <2>2. pods[Task] # NoObject => pods[Task].owner = Status0.uid
    BY <1>3, <2>1 DEF PodsOwned
  <2>3. \/ FailTask
        \/ /\ pods'[Task] = NoObject
           /\ \E c \in Refusals : DecideTask(CompleteTaskAttempt(TS, TRUE, c))
    <3>1. \/ FailTask
          \/ /\ \E c \in Refusals : DecideTask(CompleteTaskAttempt(TS, TRUE, c))
             /\ \/ pods[Task] = NoObject /\ UNCHANGED pods
                \/ pods[Task] # NoObject /\ ForcePod(Task, pods[Task].uid)
      BY <1>24, <2>2 DEF RejectPod
    <3>2. pods[Task] # NoObject /\ ForcePod(Task, pods[Task].uid) => pods'[Task] = NoObject
      BY <1>3, <1>4 DEF ForcePod, ObjTyped
    <3> QED BY <3>1, <3>2
  <2>4. Refusals \subseteq Codes
    BY DEF Codes
  <2> QED BY <1>10, <1>11, <2>3, <2>4
<1> QED
  BY <1>12, <1>13, <1>14, <1>15, <1>18, <1>19, <1>20, <1>21, <1>22, <1>23, <1>24 DEF SyncTask

\* What a pod that is there shows, and what another status says of a task that it has in
\* common with this one, stay.
LEMMA SyncTaskInstances ==
    ASSUME StatusInv, Instances, SyncTask
    PROVE  Instances'
<1>1. /\ Tasking /\ UNCHANGED <<specVars, cacheVars, statusVars, cm>>
      /\ \/ PodsAge
         \/ /\ NewPod /\ TS.state = "AttemptCreationPending"
            /\ pods[Task] = NoObject /\ Status0.state \notin Completing
  BY TaskCalls
<1>2. /\ UNCHANGED <<job, podCache, cmCache, cm, remote, expected>> /\ Tasks' = Tasks
  BY <1>1, StaticSets DEF specVars, cacheVars, statusVars
<1>3. /\ Held = {remote, Status0} /\ Fits(remote) /\ Fits(Status0)
      /\ PodsOwned /\ worker \in Worker /\ Status0 \in Status /\ Task \in Tasks
      /\ PodFits(TS, Task) /\ PodFits(remote.tasks[Task], Task)
      /\ SameInstance(TS, remote.tasks[Task])
      /\ Status0.state \notin Completing => cm # NoObject /\ cm.uid = Status0.uid
  BY <1>1, TaskHolds
<1>4. PodsAge \/ /\ pods'[Task].owner = Status0.uid
                 /\ \A t \in Tasks \ {Task} : pods'[t] = pods[t]
  BY <1>1, <1>2, NewPodIsNew
<1>5. PodsOwned'
  <2>1. CASE PodsAge
    BY <1>2, <1>3, <2>1 DEF PodsOwned, PodsAge, PodMayBecome
  <2>2. CASE NewPod /\ Status0.state \notin Completing
    BY <1>1, <1>2, <1>3, <2>2, NewPodIsNew DEF PodsOwned
  <2> QED BY <1>1, <2>1, <2>2
<1>6. ASSUME NEW ts, NEW t \in Tasks, PodFits(ts, t), t # Task \/ PodsAge
      PROVE  PodFits(ts, t)'
  BY <1>2, <1>4, <1>6 DEF PodsAge, PodFits, PodMayBecome
<1>7. ASSUME NEW ts, NEW t, ts.state = "AttemptCreationPending"
      PROVE  PodFits(ts, t)'
  BY <1>7 DEF PodFits, HasInstance, Completing, Ended
<1>8. ASSUME NEW s, CmFits(s) PROVE CmFits(s)'
  BY <1>2, <1>8 DEF CmFits, CountsOnConfigMap, SeenUndeleted
<1>9. ASSUME NEW s, s \in Held PROVE Fits(s)'
  <2>1. Fits(s) /\ (PodsAge \/ s.tasks[Task].state = "AttemptCreationPending")
    BY <1>1, <1>3, <1>9 DEF SameInstance, TS
  <2>2. \A t \in Tasks : PodFits(s.tasks[t], t)'
    BY <1>6, <1>7, <2>1 DEF Fits
  <2>3. CmFits(s)'
    BY <1>8, <2>1 DEF Fits
  <2> QED BY <1>2, <2>2, <2>3 DEF Fits
<1>10. (cm # NoObject => cm.foreground)'
  BY <1>2 DEF Instances
<1>11. ASSUME NEW new, NEW failed, NextTask(new, failed)
       PROVE  ~worker'.cleaned /\ worker'.status.tasks[Task] = new.tasks[Task]
  BY <1>3, <1>11 DEF NextTask, Worker
<1>12. CASE CleansPod
  <2>1. PodsAge /\ (pods'[Task] # NoObject => pods'[Task].uid # TS.uid)
    BY <1>3, <1>11, <1>12, TaskPodFits DEF CleansPod, Worker
  <2>2. /\ worker'.status = worker.status /\ worker'.todo = worker.todo /\ worker' # Idle
        /\ worker'.stage = "tasks"
    BY <1>1, <1>3, <1>12, NotNothing DEF CleansPod, Worker, Tasking
  <2>3. Task' = Task
    BY <2>2 DEF Task
  <2>4. CleanedIsGone'
    BY <2>1, <2>2, <2>3 DEF CleanedIsGone, TS, Status0
  <2>5. Held' \subseteq Held
    BY <1>2, <1>3, <2>2, NotNothing DEF Held
  <2> QED BY <1>5, <1>9, <1>10, <2>4, <2>5 DEF Instances
<1>13. ASSUME NEW new, NEW failed \in BOOLEAN, NextTask(new, failed), TaskMove(new)
       PROVE  Instances'
  <2>1. RunningWasSeen(new)
    <3>1. /\ RunningWasSeen(Status0) /\ \A t \in Tasks : CacheFollows(t)
      BY <1>1, TaskFacts DEF StatusInv
    <3> QED BY <1>3, <1>13, <3>1 DEF TaskMove, RunningWasSeen, CacheFollows, PodSeen, PodObj, TS
  <2>2. /\ worker'.stage \in {"tasks", "update"} /\ ~worker'.cleaned
        /\ worker'.status.tasks = new.tasks /\ worker'.status.uid = new.uid
        /\ \/ worker'.status.state = new.state
           \/ new.state = "AttemptPreparing" /\ worker'.status.state = "AttemptRunning"
    BY <1>1, <1>13, <2>1, NextTaskWorker
  <2>3. PICK w : w = worker'.status
    OBVIOUS
  <2>4. CmFits(w)'
    <3>1. /\ new.state \in HasInstance /\ new.uid = Status0.uid /\ new.retried = Status0.retried
          /\ Exposed(new, Status0) /\ Status0.state \in HasInstance
      BY <1>1, <1>13, TaskFacts DEF TaskMove
    <3>2. Rank(new.state) >= Rank(Status0.state)
      BY <1>3, <3>1, NotNothing DEF Exposed, Later, Status
    <3>3. new.state \in {"AttemptPreparing", "AttemptRunning"} =>
             Status0.state \in {"AttemptPreparing", "AttemptRunning"}
      BY <3>1, <3>2, Ranks DEF HasInstance, Completing
    <3>4. /\ w.state \in HasInstance /\ w.uid = Status0.uid
          /\ w.state \in {"AttemptPreparing", "AttemptRunning"} =>
                Status0.state \in {"AttemptPreparing", "AttemptRunning"}
      BY <2>2, <2>3, <3>1, <3>3 DEF HasInstance
    <3>5. CmFits(w)
      BY <1>3, <3>1, <3>4
      DEF Fits, CmFits, CountsOnConfigMap, SeenUndeleted, HasInstance, Completing, Ended
    <3> QED BY <1>8, <3>5
  <2>5. ASSUME NEW t, t = Task PROVE PodFits(w.tasks[t], t)'
    <3>1. PICK n, f : NextTask(n, f) /\ TaskFits(n.tasks[Task])
      BY <1>3, <1>11, <1>13, TaskPodFits DEF CleansPod, Worker
    <3>2. w.tasks[t] = n.tasks[Task]
      BY <1>11, <2>3, <2>5, <3>1
    <3> QED BY <1>2, <2>5, <3>1, <3>2 DEF TaskFits, PodFits
  <2>6. ASSUME NEW t \in Tasks, t # Task PROVE PodFits(w.tasks[t], t)'
    <3>1. PodFits(w.tasks[t], t)
      BY <1>3, <1>13, <2>2, <2>3, <2>6 DEF Fits, PodFits, TaskMove, SameInstance
    <3> QED BY <1>6, <2>6, <3>1
  <2>7. Fits(w)'
    <3>1. \A t \in Tasks : PodFits(w.tasks[t], t)'
      BY <2>5, <2>6
    <3> QED BY <1>2, <2>4, <3>1 DEF Fits
  <2>8. (worker # Idle => CleanedIsGone)'
    BY <2>2 DEF CleanedIsGone
  <2>9. \A s \in Held' : s \in Held \/ s = w
    BY <1>2, <2>3 DEF Held
  <2> QED BY <1>5, <1>9, <1>10, <2>7, <2>8, <2>9 DEF Instances
<1> QED BY <1>12, <1>13, TaskMoves

(***************************************************************************)
(* The other steps and the instances.                                      *)
(***************************************************************************)
\* A status is taken over or written as it is held.
LEMMA BeginSyncInstances == ASSUME StatusInv, Instances, BeginSync PROVE Instances'
<1>1. /\ UNCHANGED <<job, cm, pods, cmCache, podCache, remote>>
      /\ expected' = IF expected = NoInfo THEN [status |-> remote, synced |-> TRUE] ELSE expected
      /\ worker'.status = expected'.status /\ ~worker'.cleaned
  BY DEF BeginSync, specVars, objVars, cacheVars
<1>2. \A s \in Held' : s \in Held
  BY <1>1 DEF Held
<1>3. (worker # Idle => CleanedIsGone)'
  BY <1>1 DEF CleanedIsGone
<1>4. \A s : Fits(s) => Fits(s)'
  BY <1>1, StaticSets
  DEF Fits, CmFits, PodFits, CountsOnConfigMap, SeenUndeleted
<1> QED BY <1>1, <1>2, <1>3, <1>4, StaticSets DEF Instances, PodsOwned

\* A write makes the persisted or the expected status one that is held.
LEMMA WriteInstances ==
    ASSUME StatusInv, Instances, PushExpectedStatus \/ UpdateStatus
    PROVE  Instances'
<1>1. /\ worker # Idle /\ UNCHANGED <<job, cm, pods, cmCache, podCache>>
      /\ remote' \in {remote, worker.status}
      /\ \/ expected' = expected
         \/ \E b \in BOOLEAN : expected' = [status |-> worker.status, synced |-> b]
      /\ \/ worker' = Idle
         \/ worker.stage = "push" /\ worker' = [worker EXCEPT !.stage = "sync"]
  BY WriteEffect DEF objVars, cacheVars
<1>2. worker \in Worker
  BY <1>1 DEF StatusInv, TypeOK
<1>3. \/ worker' = Idle
      \/ worker'.status = worker.status /\ ~worker'.cleaned
  BY <1>1, <1>2 DEF Instances, CleanedIsGone, Worker
<1>4. \A s \in Held' : s \in Held
  BY <1>1, <1>3 DEF Held
<1>5. (worker # Idle => CleanedIsGone)'
  BY <1>3 DEF CleanedIsGone
<1>6. \A s : Fits(s) => Fits(s)'
  BY <1>1, StaticSets
  DEF Fits, CmFits, PodFits, CountsOnConfigMap, SeenUndeleted
<1> QED BY <1>1, <1>4, <1>5, <1>6, StaticSets DEF Instances, PodsOwned

\* What the cluster and the informers do to the objects and to what is seen of them.
ObjectStep ==
    \/ PodsAge /\ UNCHANGED <<cm, cmCache, podCache>>
    \/ RemoveConfigMap /\ UNCHANGED <<pods, cmCache, podCache>>
    \/ /\ UNCHANGED <<cm, pods>> /\ cmCache' \in {cmCache, cm}
       /\ \A t \in Tasks : podCache'[t] \in {podCache[t], pods[t]}

\* Users, cluster, informers and restarts take such a step, but for deletions by others.
LEMMA SurroundingsStep ==
    ASSUME StatusInv, InformerNext \/ ClusterNext \/ Restart \/ UNCHANGED vars,
           ~DeleteConfigMapByOthers
    PROVE  ObjectStep
<1>1. \/ PodsAge /\ UNCHANGED podCache
      \/ UNCHANGED pods /\ \A t \in Tasks : podCache'[t] \in {podCache[t], pods[t]}
  BY SurroundingsEffect
<1>2. CASE InformerNext \/ Restart \/ UNCHANGED vars
  <2>1. UNCHANGED <<cm, pods>> /\ cmCache' \in {cmCache, cm}
    BY <1>2 DEF InformerNext, SeeFramework, SeeConfigMap, SeePod, FireTimer, Restart, vars,
       objVars, cacheVars
  <2>2. \A t \in Tasks : podCache'[t] \in {podCache[t], pods[t]}
    BY <1>1
  <2> QED BY <2>1, <2>2 DEF ObjectStep
<1>3. CASE RemoveConfigMap
  BY <1>3 DEF RemoveConfigMap, ClusterStep, cacheVars, ObjectStep
<1>4. CASE ClusterNext /\ ~RemoveConfigMap
  <2>1. UNCHANGED <<cm, cmCache, podCache>>
    BY <1>4 DEF ClusterNext, SetExecution, StartPod, RemovePod, CollectPod, DeletePodByOthers,
       EndPod, PodStep, ClusterStep, objVars, cacheVars
  <2>2. PodsAge \/ \A t \in Tasks : podCache'[t] \in {podCache[t], pods[t]}
    BY <1>1
  <2> QED BY <1>1, <2>1, <2>2 DEF ObjectStep
<1> QED BY <1>2, <1>3, <1>4

\* A step of the objects keeps what a status says of them.
LEMMA ObjectsFit ==
    ASSUME UNCHANGED job, ObjectStep, Instances, NEW s, Fits(s)
    PROVE  Fits(s)'
<1>1. Tasks' = Tasks
  BY StaticSets
<1>2. CASE PodsAge /\ UNCHANGED <<cm, cmCache, podCache>>
  <2>1. \A t \in Tasks : PodFits(s.tasks[t], t)'
    BY <1>2, AgedFits DEF Fits, PodsAge
  <2>2. CmFits(s)'
    BY <1>2 DEF Fits, CmFits, CountsOnConfigMap, SeenUndeleted
  <2> QED BY <1>1, <2>1, <2>2 DEF Fits
<1>3. CASE RemoveConfigMap /\ UNCHANGED <<pods, cmCache, podCache>>
  <2>1. \A t \in Tasks : PodFits(s.tasks[t], t)'
    BY <1>3 DEF Fits, PodFits
  <2>2. CmFits(s)'
    BY <1>3 DEF RemoveConfigMap, Fits, CmFits, CountsOnConfigMap, SeenUndeleted
  <2> QED BY <1>1, <2>1, <2>2 DEF Fits
<1>4. CASE /\ UNCHANGED <<cm, pods>> /\ cmCache' \in {cmCache, cm}
           /\ \A t \in Tasks : podCache'[t] \in {podCache[t], pods[t]}
  <2>1. \A t \in Tasks : PodFits(s.tasks[t], t)'
    BY <1>4 DEF Fits, PodFits, HasInstance, Completing
  <2>2. CmFits(s)'
    BY <1>4 DEF Fits, CmFits, CountsOnConfigMap, SeenUndeleted, HasInstance, Completing
  <2> QED BY <1>1, <2>1, <2>2 DEF Fits
<1> QED BY <1>2, <1>3, <1>4 DEF ObjectStep

\* So they keep the invariant of the instances.
LEMMA SurroundingsInstances ==
    ASSUME StatusInv, Instances, InformerNext \/ ClusterNext \/ Restart \/ UNCHANGED vars,
           ~DeleteConfigMapByOthers
    PROVE  Instances'
<1>1. /\ UNCHANGED <<job, remote>> /\ ObjectStep /\ ObjTyped
      /\ UNCHANGED <<expected, worker>> \/ (worker' = Idle /\ expected' = NoInfo)
  BY SurroundingsEffect, SurroundingsStep, TypesByGroup DEF StatusInv
<1>2. Tasks' = Tasks /\ PodsOwned /\ (cm # NoObject => cm.foreground)
  BY <1>1, StaticSets DEF Instances
<1>3. /\ PodsOwned' /\ (cm # NoObject => cm.foreground)'
      /\ cm' # NoObject => cm' = cm
      /\ \A t \in Tasks : pods'[t] # NoObject => pods[t] # NoObject /\ pods'[t].uid = pods[t].uid
  <2>1. CASE RemoveConfigMap /\ UNCHANGED pods
    BY <1>2, <2>1 DEF RemoveConfigMap, PodsOwned
  <2>2. CASE (PodsAge \/ UNCHANGED pods) /\ UNCHANGED cm
    BY <1>2, <2>2 DEF PodsOwned, PodsAge, PodMayBecome
  <2> QED BY <1>1, <2>1, <2>2 DEF ObjectStep
<1>4. \A s \in Held' : s \in Held
  BY <1>1 DEF Held
<1>5. \A s \in Held : Fits(s)'
  BY <1>1, ObjectsFit DEF Instances
<1>6. ASSUME worker' # Idle PROVE CleanedIsGone'
  <2>1. UNCHANGED worker /\ CleanedIsGone
    BY <1>1, <1>6 DEF Instances
  <2>2. Task' = Task
    BY <2>1 DEF Task
  <2>3. worker.stage = "tasks" => Task \in Tasks
    BY TaskIsLeft DEF Tasking
  <2> QED BY <1>3, <2>1, <2>2, <2>3 DEF CleanedIsGone, TS, Status0
<1> QED BY <1>3, <1>4, <1>5, <1>6 DEF Instances

\* At the start nothing is held and nothing is there.
LEMMA InitInstances == ASSUME Init PROVE InstanceInv
<1>1. Held = {} /\ cm = NoObject /\ worker = Idle /\ \A t \in Tasks : pods[t] = NoObject
  BY DEF Init, Held
<1>2. budget = job.bounds /\ job.bounds \in [BoundNames -> Nat]
  BY JobFacts DEF Init
<1>3. "cmDeletes" \in BoundNames
  BY DEF BoundNames
<1> QED BY <1>1, <1>2, <1>3 DEF InstanceInv, Instances, PodsOwned

\* As long as nobody else deletes a ConfigMap, every step keeps what is said of the
\* instances; such a deletion is never taken back.
LEMMA StepInstances ==
    ASSUME StatusInv, InstanceInv, [Next]_vars
    PROVE  InstanceInv'
<1>1. UNCHANGED job /\ budget \in [BoundNames -> Nat] /\ job.bounds \in [BoundNames -> Nat]
      /\ "cmDeletes" \in BoundNames
  BY NextKeepsJob, TypesByGroup, JobFacts DEF StatusInv, BoundNames, SpecTyped
<1>2. /\ budget["cmDeletes"] \in Nat /\ job.bounds["cmDeletes"] \in Nat
      /\ job'.bounds = job.bounds
  BY <1>1
<1>3. \/ budget'["cmDeletes"] = budget["cmDeletes"]
      \/ budget'["cmDeletes"] = budget["cmDeletes"] - 1
  BY OthersDelete
<1>4. DeleteConfigMapByOthers => budget'["cmDeletes"] = budget["cmDeletes"] - 1
  BY <1>1 DEF DeleteConfigMapByOthers, Spend
<1>5. budget'["cmDeletes"] <= job'.bounds["cmDeletes"]
  BY <1>2, <1>3 DEF InstanceInv
<1>6. ASSUME Untouched' PROVE Instances'
  <2>1. budget'["cmDeletes"] = job.bounds["cmDeletes"]
    BY <1>2, <1>6 DEF Untouched
  <2>2. Instances /\ ~DeleteConfigMapByOthers
    BY <1>2, <1>3, <1>4, <2>1 DEF InstanceInv, Untouched
  <2> QED
    BY <2>2, SyncFrameworkInstances, SyncTaskInstances, BeginSyncInstances, WriteInstances,
       SurroundingsInstances DEF Next, WorkerNext
<1> QED BY <1>5, <1>6 DEF InstanceInv

\* The invariant of the instances holds in every state of every framework.
THEOREM InstanceInvHolds == Spec => []InstanceInv
BY InitInstances, InitOK, StepInstances, StepOK, PTL DEF Spec

\* ConsistencyGuarantee3 and 4, as long as nobody else deletes the ConfigMap: an attempt that
\* users see as completed has neither its ConfigMap nor a pod.
THEOREM CompletedAttemptsAreGone == Spec => [](Untouched => NoInstanceOfCompletedAttempt)
<1>1. ASSUME StatusInv, InstanceInv, Untouched PROVE NoInstanceOfCompletedAttempt
  <2>1. remote # NoStatus => Fits(remote)
    BY <1>1 DEF InstanceInv, Instances, Held
  <2>2. PodsOwned
    BY <1>1 DEF InstanceInv, Instances
  <2> QED BY <2>1, <2>2 DEF NoInstanceOfCompletedAttempt, Fits, CmFits, PodsOwned, LivePods
<1> QED BY <1>1, StatusInvHolds, InstanceInvHolds, PTL

\* ConsistencyGuarantee2, under the same proviso: a task attempt that users see as completed
\* has no pod.
THEOREM CompletedTasksAreGone == Spec => [](Untouched => NoPodOfCompletedTask)
<1>1. ASSUME InstanceInv, Untouched PROVE NoPodOfCompletedTask
  <2>1. remote # NoStatus => Fits(remote)
    BY <1>1 DEF InstanceInv, Instances, Held
  <2> QED BY <2>1 DEF NoPodOfCompletedTask, Fits, PodFits
<1> QED BY <1>1, InstanceInvHolds, PTL

\* ConsistencyGuarantee3, under the same proviso: all pods belong to one ConfigMap, which is
\* still there.
THEOREM InstancesComeOneByOne == Spec => [](Untouched => OneInstanceAtATime)
<1>1. ASSUME InstanceInv, Untouched PROVE OneInstanceAtATime
  BY <1>1 DEF InstanceInv, Instances, PodsOwned, OneInstanceAtATime, LivePods
<1> QED BY <1>1, InstanceInvHolds, PTL
=============================================================================
