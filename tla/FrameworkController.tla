------------------------- MODULE FrameworkController ------------------------
(***************************************************************************)
(* The framework controller (src/frameworkcontroller): one worker keeps    *)
(* the status of ONE Framework object, the ConfigMap that stands for the   *)
(* instance of its current attempt, and one Pod per task, in agreement     *)
(* with what users want, through an API server that it sees with delay     *)
(* (informer caches) and writes to with calls that may fail, or succeed    *)
(* and only lose their answer.                                             *)
(*                                                                         *)
(* Keys of the work queue are framework names and a key is processed by    *)
(* one worker at a time, so frameworks do not meet in this code.  The      *)
(* framework has one task role, whose number of tasks does not change.     *)
(***************************************************************************)
EXTENDS Integers, FiniteSets

CONSTANT
    Frameworks          \* the frameworks to explore, see Framework

BoundNames == { "errors",       \* failed calls on the API server
                "failures",     \* pods that fail, or are refused for good
                "timeouts",     \* creation timeouts while the object is there
                "restarts",     \* restarts of the controller
                "orders",       \* changes of executionType by users
                "cmDeletes",    \* ConfigMap deletions by others
                "podDeletes" }  \* Pod deletions by others

Framework ==
    [tasks : SUBSET Nat,            \* task indices, synced in ascending order
     results : SUBSET {"Succeeded", "ContainerFailed", "ContainerTransient",
                       "ContainerConflict", "ContainerPermanent"},
                                    \* codes with which the container of a pod may end
     fancy : [{"framework", "task"} -> BOOLEAN],
                                    \* retryPolicy.fancyRetryPolicy
     grace : BOOLEAN,               \* whether podGracefulDeletionTimeoutSec is set
     retries : [{"framework", "task"} -> {-2, -1} \union Nat],
                                    \* retryPolicy.maxRetryCount
     minFailed : Int,               \* completionPolicy.minFailedTaskCount
     minSucceeded : Int,            \* completionPolicy.minSucceededTaskCount
     bounds : [BoundNames -> Nat]]  \* bounds: what may happen to it

ASSUME ControllerConstants ==
    \A f \in Frameworks : f \in Framework /\ IsFiniteSet(f.tasks) /\ f.tasks # {}

VARIABLES
    job,        \* the framework, whose spec does not change but for executionType
    exec,       \* spec.executionType in the API server
    remote,     \* the persisted Framework.Status, or NoStatus
    cm,         \* the ConfigMap of the framework in the API server, or NoObject
    pods,       \* per task: the Pod in the API server, or NoObject
    fCache,     \* executionType in the informer's cache
    fNews,      \* whether the informer has yet to deliver a change of the Framework
    cmCache,    \* the ConfigMap in the informer's cache
    podCache,   \* the Pods in the informer's cache
    queued,     \* whether the key is in the work queue
    timer,      \* whether an AddAfter of the key is pending
    expected,   \* ExpectedFrameworkStatusInfo, or NoInfo
    worker,     \* the sync in progress, or Idle
    uids,       \* last UID the API server gave, of ConfigMaps and of each task's Pods
    budget      \* what is left of the bounds

specVars   == <<job, exec, fCache, fNews>>
objVars    == <<cm, pods, uids>>
cacheVars  == <<cmCache, podCache>>
queueVars  == <<queued, timer>>
statusVars == <<remote, expected>>
vars == <<specVars, objVars, cacheVars, queueVars, statusVars, worker, budget>>

Tasks         == job.tasks
Results       == job.results
Fancy         == job.fancy
GracePeriod   == job.grace
MaxRetryCount == job.retries
MinFailed     == job.minFailed
MinSucceeded  == job.minSucceeded

(***************************************************************************)
(* Completion codes (completion.go) and states (types.go).                 *)
(***************************************************************************)
NoCode == "none"

Transient == {"ContainerTransient", "ContainerConflict", "ConfigMapExternalDeleted",
              "PodExternalDeleted", "ConfigMapCreationTimeout", "PodCreationTimeout"}
Permanent == {"ContainerPermanent", "PodCreationPermanentError",
              "StopFrameworkRequested", "FrameworkAttemptCompletion"}
Refusals  == {"PodCreationPermanentError", "PodCreationUnknownError"}
Codes == Transient \union Permanent \union Refusals \union {"Succeeded", "ContainerFailed"}

\* In the order an attempt goes through them.
StateOrder == << "AttemptCreationPending", "AttemptCreationRequested",
                 "AttemptPreparing", "AttemptRunning", "AttemptDeletionPending",
                 "AttemptDeletionRequested", "AttemptDeleting",
                 "AttemptCompleted", "Completed" >>
States == { StateOrder[i] : i \in DOMAIN StateOrder }
Completing == {"AttemptDeletionPending", "AttemptDeletionRequested", "AttemptDeleting"}
Ended      == {"AttemptCompleted", "Completed"}

NoStatus == [status |-> "none"]
NoInfo   == [info |-> "none"]
NoObject == [object |-> "none"]
Idle     == [stage |-> "idle"]

TaskStatus == [state : States, retried : Nat, accounted : Nat, uid : Nat,
               code : Codes \union {NoCode}]
Status == [state : States, retried : Nat, accounted : Nat, uid : Nat,
           code : Codes \union {NoCode}, delayed : BOOLEAN, graced : BOOLEAN,
           tasks : [Tasks -> TaskStatus]]

\* Mutant: the state is named as the API shows it, not as the state machine has it.
NewTaskStatusByApiName(retried, accounted) ==
    [state |-> "TaskAttemptCreationPending", retried |-> retried,
     accounted |-> accounted, uid |-> 0, code |-> NoCode]

\* A new attempt has no instance: UID 0.
NewTaskStatus(retried, accounted) ==
    [state |-> "AttemptCreationPending", retried |-> retried,
     accounted |-> accounted, uid |-> 0, code |-> NoCode]

NewStatus(retried, accounted) ==
    [state |-> "AttemptCreationPending", retried |-> retried,
     accounted |-> accounted, uid |-> 0, code |-> NoCode,
     delayed |-> FALSE, graced |-> FALSE,
     tasks |-> [t \in Tasks |-> NewTaskStatus(0, 0)]]

Init ==
    /\ job \in Frameworks
    /\ exec = "Start" /\ fCache = "Start" /\ fNews = FALSE
    /\ remote = NoStatus /\ expected = NoInfo
    /\ cm = NoObject /\ cmCache = NoObject
    /\ pods = [t \in Tasks |-> NoObject] /\ podCache = pods
    /\ queued = TRUE /\ timer = FALSE
    /\ worker = Idle
    /\ uids = [cm |-> 0, pod |-> [t \in Tasks |-> 0]]
    /\ budget = job.bounds

Spend(what) ==
    /\ budget[what] > 0
    /\ budget' = [budget EXCEPT ![what] = @ - 1]

(***************************************************************************)
(* Pure parts of the sync.                                                 *)
(***************************************************************************)
\* Mutant: the retry that reaches the maximum is not the last one.
RetryDecisionOneMore(s, of) ==
    LET max  == MaxRetryCount[of]
        free == Fancy[of] /\ s.code \in Transient
    IN  [retry  |-> /\ s.code \notin {"StopFrameworkRequested", "FrameworkAttemptCompletion"}
                    /\ ~(Fancy[of] /\ s.code \in Permanent)
                    /\ \/ free \/ max = -2
                       \/ s.code # "Succeeded" /\ (max = -1 \/ s.accounted <= max),
         counted |-> ~free,
         delay   |-> free /\ s.code = "ContainerConflict"]

RetryDecision(s, of) ==
    LET max  == MaxRetryCount[of]
        free == Fancy[of] /\ s.code \in Transient
    IN  [retry  |-> /\ s.code \notin {"StopFrameworkRequested", "FrameworkAttemptCompletion"}
                    /\ ~(Fancy[of] /\ s.code \in Permanent)
                    /\ \/ free \/ max = -2
                       \/ s.code # "Succeeded" /\ (max = -1 \/ s.accounted < max),
         counted |-> ~free,
         delay   |-> free /\ s.code = "ContainerConflict"]

\* CompletionStatus should be immutable after set.
WithCode(s, code) == IF s.code = NoCode THEN [s EXCEPT !.code = code] ELSE s

\* Mutant: the attempt is completed without waiting for its pod to go.
CompleteTaskAtOnce(ts, force, code) == [WithCode(ts, code) EXCEPT !.state = "AttemptCompleted"]

CompleteTaskAttempt(ts, force, code) ==
    [WithCode(ts, code) EXCEPT
        !.state = IF force THEN "AttemptCompleted" ELSE "AttemptDeletionPending"]

\* Mutant: the tasks of a completed attempt are left as they are.
CompleteFrameworkOnly(s, force, code) ==
    [WithCode(s, code) EXCEPT
        !.state = IF force THEN "AttemptCompleted" ELSE "AttemptDeletionPending"]

\* Every task of the attempt gets a completion status with it; by force, every
\* task is completed too.
CompleteFrameworkAttempt(s, force, code) ==
    LET ended(ts) == LET coded == WithCode(ts, "FrameworkAttemptCompletion")
                     IN  IF force THEN [coded EXCEPT !.state = "Completed"] ELSE coded
    IN  [WithCode(s, code) EXCEPT
            !.state = IF force THEN "AttemptCompleted" ELSE "AttemptDeletionPending",
            !.tasks = [t \in Tasks |-> ended(s.tasks[t])]]

CompletedTasks(s) == { t \in Tasks : s.tasks[t].state = "Completed" }
FailedTasks(s)    == { t \in CompletedTasks(s) : s.tasks[t].code # "Succeeded" }
SucceededTasks(s) == CompletedTasks(s) \ FailedTasks(s)

\* The codes with which the completion policy may end the attempt.  Which task
\* triggered it first is a matter of completion times, which are not modelled.
TriggeredCodes(s) ==
    LET failed == IF MinFailed >= 1 /\ Cardinality(FailedTasks(s)) >= MinFailed
                  THEN { s.tasks[t].code : t \in FailedTasks(s) } ELSE {}
        succeeded == IF MinSucceeded >= 1 /\ Cardinality(SucceededTasks(s)) >= MinSucceeded
                     THEN {"Succeeded"} ELSE {}
    IN  IF failed \union succeeded # {} THEN failed \union succeeded
        ELSE IF CompletedTasks(s) = Tasks THEN {"Succeeded"} ELSE {}

\* Mutant: one more failed task is needed than the policy says.
TriggeredLateBy(s, t) ==
    CASE MinFailed >= 1 /\ t \in FailedTasks(s)
            /\ Cardinality(FailedTasks(s)) > MinFailed -> {s.tasks[t].code}
      [] OTHER -> IF CompletedTasks(s) = Tasks THEN {"Succeeded"} ELSE {}

\* The same question asked when task t has just completed.
TriggeredCodesBy(s, t) ==
    CASE MinFailed >= 1 /\ t \in FailedTasks(s)
            /\ Cardinality(FailedTasks(s)) >= MinFailed -> {s.tasks[t].code}
      [] MinSucceeded >= 1 /\ t \in SucceededTasks(s)
            /\ Cardinality(SucceededTasks(s)) >= MinSucceeded -> {"Succeeded"}
      [] OTHER -> IF CompletedTasks(s) = Tasks THEN {"Succeeded"} ELSE {}

(***************************************************************************)
(* One syncFramework.  The worker holds a copy `status` of the expected    *)
(* status and goes through the stages                                      *)
(*   push    write the expected status again if the last write failed      *)
(*   sync    decide for the framework, with at most one call per step      *)
(*   tasks   decide for each task in `todo`                                *)
(*   update  write the status if it changed                                *)
(* `cleaned`: the object found under the name was not the managed one and  *)
(* was deleted, so it counts as absent.  `failed`: some call failed, the   *)
(* key goes back to the queue.                                             *)
(***************************************************************************)
BeginSync ==
    /\ worker = Idle /\ queued
    /\ queued' = FALSE
    /\ expected' = IF expected = NoInfo THEN [status |-> remote, synced |-> TRUE]
                   ELSE expected
    /\ worker' = [stage |-> IF expected'.synced THEN "sync" ELSE "push",
                  status |-> expected'.status, exec |-> fCache,
                  todo |-> {}, cleaned |-> FALSE, failed |-> FALSE]
    /\ UNCHANGED <<specVars, objVars, cacheVars, timer, remote, budget>>

Finish(failed) ==
    /\ worker' = Idle
    /\ queued' = (queued \/ failed)

\* updateRemoteFrameworkStatus writes the whole object, of the version in the
\* cache: it conflicts until the informer has delivered the last change.  After
\* another error, whether the write was applied is not known.
UpdateFails ==
    /\ \/ fNews /\ UNCHANGED <<remote, fNews, budget>>
       \/ ~fNews /\ Spend("errors") /\ UNCHANGED <<remote, fNews>>
       \/ ~fNews /\ Spend("errors") /\ remote' = worker.status /\ fNews' = TRUE
    /\ Finish(TRUE)

UpdateSucceeds ==
    /\ ~fNews
    /\ remote' = worker.status
    /\ fNews' = TRUE
    /\ expected' = [status |-> worker.status, synced |-> TRUE]
    /\ UNCHANGED budget

PushExpectedStatus ==
    /\ worker.stage = "push"
    /\ \/ UpdateSucceeds /\ worker' = [worker EXCEPT !.stage = "sync"] /\ UNCHANGED queued
       \/ UpdateFails /\ UNCHANGED expected
    /\ UNCHANGED <<job, exec, fCache, objVars, cacheVars, timer>>

\* Mutant: a failed write is taken as not done, the old status is kept.
UpdateForgetsFailure ==
    /\ worker.stage = "update"
    /\ IF worker.status = expected.status
       THEN Finish(worker.failed) /\ UNCHANGED <<fNews, statusVars, budget>>
       ELSE \/ UpdateSucceeds /\ Finish(worker.failed)
            \/ UpdateFails /\ UNCHANGED expected
    /\ UNCHANGED <<job, exec, fCache, objVars, cacheVars, timer>>

UpdateStatus ==
    /\ worker.stage = "update"
    /\ IF worker.status = expected.status
       THEN Finish(worker.failed) /\ UNCHANGED <<fNews, statusVars, budget>>
       ELSE \/ UpdateSucceeds /\ Finish(worker.failed)
            \/ UpdateFails /\ expected' = [status |-> worker.status, synced |-> FALSE]
    /\ UNCHANGED <<job, exec, fCache, objVars, cacheVars, timer>>

\* The framework is decided: its status goes to the update.
Decide(status) ==
    /\ worker' = [worker EXCEPT !.stage = "update", !.status = status]
    /\ UNCHANGED <<specVars, cacheVars, statusVars>>

\* An attempt that has its ConfigMap goes on with the tasks.
GoOn(status) ==
    /\ worker' = [worker EXCEPT !.stage = "tasks", !.status = status, !.todo = Tasks,
                                !.cleaned = FALSE]
    /\ UNCHANGED <<specVars, cacheVars, statusVars>>

Enqueue     == queued' = TRUE /\ UNCHANGED timer
StartTimer  == timer' = TRUE /\ UNCHANGED queued
NoEnqueue   == UNCHANGED queueVars
NoCall      == UNCHANGED <<objVars, budget>>

\* A call on an object failed without effect; syncFrameworkStatus returns.
Abort ==
    /\ Finish(TRUE)
    /\ UNCHANGED <<specVars, cacheVars, statusVars, timer>>

(***************************************************************************)
(* Calls on the ConfigMap.  It has the finalizer of foreground deletion,   *)
(* so a deletion only marks it.                                            *)
(***************************************************************************)
MarkConfigMap(uid) ==
    /\ cm' = IF cm # NoObject /\ cm.uid = uid THEN [cm EXCEPT !.deleting = TRUE] ELSE cm
    /\ UNCHANGED <<pods, uids>>

\* deleteConfigMap(confirm = false) is fine when the object has the UID or is
\* absent, and a conflict when the name belongs to another UID.
Deletable(obj, uid) == obj # NoObject => obj.uid = uid

-----------------------------------------------------------------------------
Status0 == worker.status
Syncing == worker.stage = "sync"
Backed  == Status0.graced = GracePeriod \/ Status0.state = "Completed"
Settled == Syncing /\ Status0 # NoStatus /\ Backed
CmGone  == worker.cleaned \/ cmCache = NoObject
CmSeen  == ~worker.cleaned /\ cmCache # NoObject /\ cmCache.uid = Status0.uid

\* syncFrameworkStatus: the first status is persisted before anything is done.
CreateStatus ==
    /\ Syncing /\ Status0 = NoStatus
    /\ Decide(NewStatus(0, 0)) /\ Enqueue /\ NoCall

\* updatePodGracefulDeletionTimeoutSec: so is the period of grace of its pods.
BackUpGracePeriod ==
    /\ Syncing /\ Status0 # NoStatus /\ ~Backed
    /\ Decide([Status0 EXCEPT !.graced = GracePeriod]) /\ Enqueue /\ NoCall

\* Completed: only the retention time is left, which is not modelled.
SkipCompleted ==
    /\ Settled /\ Status0.state = "Completed"
    /\ Decide(Status0) /\ NoEnqueue /\ NoCall

\* getOrCleanupConfigMap: the ConfigMap under the name is not the managed one.
CleanUpConfigMap ==
    /\ Settled /\ Status0.state \notin Ended
    /\ ~CmGone /\ ~CmSeen
    /\ \/ /\ Deletable(cm, cmCache.uid)
          /\ MarkConfigMap(cmCache.uid)
          /\ worker' = [worker EXCEPT !.cleaned = TRUE]
          /\ UNCHANGED <<specVars, cacheVars, statusVars, queueVars, budget>>
       \/ ~Deletable(cm, cmCache.uid) /\ Abort /\ NoCall
       \/ Spend("errors") /\ Abort /\ (MarkConfigMap(cmCache.uid) \/ UNCHANGED objVars)

\* Mutant: the timeout was scheduled when the ConfigMap was created, once is enough.
WaitWithoutTimer ==
    /\ Settled /\ CmGone /\ Status0.state = "AttemptCreationRequested"
    /\ worker.exec # "Stop"
    /\ Decide(Status0) /\ NoEnqueue /\ NoCall

WaitForConfigMap ==
    /\ Settled /\ CmGone /\ Status0.state = "AttemptCreationRequested"
    /\ worker.exec # "Stop"
    /\ Decide(Status0) /\ StartTimer /\ NoCall

\* Mutant: the deletion is requested without confirmation.
GiveUpUnconfirmed ==
    /\ Settled /\ CmGone /\ Status0.state = "AttemptCreationRequested"
    /\ worker.exec = "Stop"
    /\ MarkConfigMap(Status0.uid)
    /\ Decide(CompleteFrameworkAttempt(Status0, TRUE, "StopFrameworkRequested"))
    /\ Enqueue /\ UNCHANGED budget

\* Stopped or timed out while the ConfigMap is not in the cache: it is deleted
\* with confirmation, and the attempt is completed once it is gone.
GiveUpOnConfigMap ==
    /\ Settled /\ CmGone /\ Status0.state = "AttemptCreationRequested"
    /\ \/ /\ cm = NoObject
          /\ Decide(CompleteFrameworkAttempt(Status0, TRUE,
                IF worker.exec = "Stop" THEN "StopFrameworkRequested"
                ELSE "ConfigMapCreationTimeout"))
          /\ Enqueue /\ NoCall
       \/ /\ cm # NoObject /\ MarkConfigMap(Status0.uid) /\ Abort
          /\ IF worker.exec = "Stop" THEN UNCHANGED budget ELSE Spend("timeouts")
       \/ Spend("errors") /\ Abort /\ (MarkConfigMap(Status0.uid) \/ UNCHANGED objVars)

\* It was in the cache before, or its deletion was requested.
ConfigMapDisappeared ==
    /\ Settled /\ CmGone
    /\ Status0.state \notin Ended \union {"AttemptCreationPending", "AttemptCreationRequested"}
    /\ Decide(CompleteFrameworkAttempt(Status0, TRUE, "ConfigMapExternalDeleted"))
    /\ Enqueue /\ NoCall

\* Mutant: the status says that the deletion was requested, but it was not.
RequestNothing ==
    /\ Settled /\ CmSeen /\ ~cmCache.deleting
    /\ Status0.state = "AttemptDeletionPending"
    /\ GoOn([Status0 EXCEPT !.state = "AttemptDeletionRequested"])
    /\ NoEnqueue /\ NoCall

RequestConfigMapDeletion ==
    /\ Settled /\ CmSeen /\ ~cmCache.deleting
    /\ Status0.state = "AttemptDeletionPending"
    /\ \/ /\ MarkConfigMap(Status0.uid)
          /\ GoOn([Status0 EXCEPT !.state = "AttemptDeletionRequested"])
          /\ NoEnqueue /\ UNCHANGED budget
       \/ Spend("errors") /\ Abort /\ (MarkConfigMap(Status0.uid) \/ UNCHANGED objVars)

\* The ConfigMap is there: a stop or the completion policy may end the attempt.
SyncAttempt ==
    LET s == IF Status0.state = "AttemptCreationRequested"
             THEN [Status0 EXCEPT !.state = "AttemptPreparing"] ELSE Status0
    IN  /\ Settled /\ CmSeen /\ ~cmCache.deleting
        /\ Status0.state \notin Ended \union {"AttemptDeletionPending"}
        /\ IF s.state \in Completing THEN GoOn(s) /\ NoEnqueue
           ELSE IF worker.exec = "Stop"
           THEN GoOn(CompleteFrameworkAttempt(s, FALSE, "StopFrameworkRequested")) /\ Enqueue
           ELSE IF TriggeredCodes(s) = {} THEN GoOn(s) /\ NoEnqueue
           ELSE /\ \E code \in TriggeredCodes(s) : GoOn(CompleteFrameworkAttempt(s, FALSE, code))
                /\ Enqueue
        /\ NoCall

ConfigMapDeleting ==
    /\ Settled /\ CmSeen /\ cmCache.deleting /\ Status0.state \notin Ended
    /\ GoOn([WithCode(Status0, "ConfigMapExternalDeleted") EXCEPT !.state = "AttemptDeleting"])
    /\ NoEnqueue /\ NoCall

Decision0 == RetryDecision(Status0, "framework")

CompleteFramework ==
    /\ Settled /\ Status0.state = "AttemptCompleted"
    /\ ~Status0.delayed /\ ~Decision0.retry
    /\ Decide([Status0 EXCEPT !.state = "Completed"]) /\ NoEnqueue /\ NoCall

DelayRetry ==
    /\ Settled /\ Status0.state = "AttemptCompleted"
    /\ Status0.delayed \/ Decision0.retry
    /\ Decision0.delay /\ worker.exec # "Stop"
    /\ Decide([Status0 EXCEPT !.delayed = TRUE]) /\ StartTimer /\ NoCall

RetryFramework ==
    /\ Settled /\ Status0.state = "AttemptCompleted"
    /\ Status0.delayed \/ Decision0.retry
    /\ Decision0.delay => Status0.delayed \/ worker.exec = "Stop"
    /\ Decide(NewStatus(Status0.retried + 1,
                        Status0.accounted + IF Decision0.counted THEN 1 ELSE 0))
    /\ Enqueue /\ NoCall

\* Nothing to do for the ConfigMap of an attempt that is not created; it is
\* looked up in the API server itself, and deleted if somehow there.
StopBeforeCreation ==
    /\ Settled /\ CmGone /\ Status0.state = "AttemptCreationPending"
    /\ worker.exec = "Stop"
    /\ \/ /\ cm = NoObject
          /\ Decide(CompleteFrameworkAttempt(Status0, TRUE, "StopFrameworkRequested"))
          /\ Enqueue /\ NoCall
       \/ cm # NoObject /\ MarkConfigMap(cm.uid) /\ Abort /\ UNCHANGED budget
       \/ Spend("errors") /\ Abort /\ UNCHANGED objVars

\* Mutant: the ConfigMap is created without the finalizer of foreground deletion.
NewConfigMapWithoutFinalizer ==
    /\ cm' = [uid |-> uids.cm + 1, deleting |-> FALSE, foreground |-> FALSE]
    /\ uids' = [uids EXCEPT !.cm = @ + 1]
    /\ UNCHANGED pods

\* Its finalizer asks the garbage collector for foreground deletion.
NewConfigMap ==
    /\ cm' = [uid |-> uids.cm + 1, deleting |-> FALSE, foreground |-> TRUE]
    /\ uids' = [uids EXCEPT !.cm = @ + 1]
    /\ UNCHANGED pods

CreateConfigMap ==
    /\ Settled /\ CmGone /\ Status0.state = "AttemptCreationPending"
    /\ worker.exec # "Stop"
    /\ \/ /\ cm = NoObject /\ NewConfigMap
          /\ Decide([Status0 EXCEPT !.uid = cm'.uid, !.state = "AttemptCreationRequested"])
          /\ StartTimer /\ UNCHANGED budget
       \/ cm = NoObject /\ NewConfigMap /\ Spend("errors") /\ Abort  \* answer lost
       \/ cm # NoObject /\ Abort /\ NoCall                           \* AlreadyExists
       \/ Spend("errors") /\ Abort /\ UNCHANGED objVars

-----------------------------------------------------------------------------
(***************************************************************************)
(* syncTaskState, for the first task left.                                 *)
(***************************************************************************)
Tasking == worker.stage = "tasks"
Task    == CHOOSE t \in worker.todo : \A u \in worker.todo : t <= u
TS      == Status0.tasks[Task]
PodObj  == podCache[Task]
\* A pod that is neither the managed one nor controlled by this ConfigMap is
\* left alone, as if it were not there.
PodSeen    == ~worker.cleaned /\ PodObj # NoObject /\ PodObj.uid = TS.uid
PodForeign == ~worker.cleaned /\ PodObj # NoObject /\ PodObj.uid # TS.uid
                 /\ PodObj.owner = Status0.uid
PodGone    == ~PodSeen /\ ~PodForeign
Associated == {"AttemptPreparing", "AttemptRunning"} \union Completing

\* The task is decided; after the last one, an attempt of which a task runs is
\* running, and the status goes to the update.
NextTask(status, failed) ==
    LET todo    == worker.todo \ {Task}
        running == \E t \in Tasks : status.tasks[t].state = "AttemptRunning"
        final   == IF status.state = "AttemptPreparing" /\ running
                   THEN [status EXCEPT !.state = "AttemptRunning"] ELSE status
    IN  /\ worker' = [worker EXCEPT
                        !.stage = IF todo = {} THEN "update" ELSE "tasks",
                        !.status = IF todo = {} THEN final ELSE status,
                        !.todo = todo, !.cleaned = FALSE, !.failed = @ \/ failed]
        /\ UNCHANGED <<specVars, cacheVars, statusVars>>

DecideTask(ts)  == NextTask([Status0 EXCEPT !.tasks[Task] = ts], FALSE)
SkipTask        == NextTask(Status0, FALSE)
FailTask        == NextTask(Status0, TRUE) /\ NoEnqueue

\* deletePod: graceful, so the pod is only marked; by force it is gone.
MarkPod(t, uid) ==
    /\ pods' = IF pods[t] # NoObject /\ pods[t].uid = uid
               THEN [pods EXCEPT ![t].deleting = TRUE] ELSE pods
    /\ UNCHANGED <<cm, uids>>

ForcePod(t, uid) ==
    /\ pods' = IF pods[t] # NoObject /\ pods[t].uid = uid
               THEN [pods EXCEPT ![t] = NoObject] ELSE pods
    /\ UNCHANGED <<cm, uids>>

SkipCompletedTask ==
    /\ Tasking /\ TS.state = "Completed"
    /\ SkipTask /\ NoEnqueue /\ NoCall

\* getOrCleanupPod: a pod of this attempt that was not recorded.
CleanUpPod ==
    /\ Tasking /\ TS.state \notin Ended /\ PodForeign
    /\ \/ /\ Deletable(pods[Task], PodObj.uid)
          /\ \/ /\ MarkPod(Task, PodObj.uid)
                /\ IF PodObj.deleting /\ GracePeriod THEN StartTimer ELSE NoEnqueue
             \/ PodObj.deleting /\ GracePeriod /\ ForcePod(Task, PodObj.uid) /\ NoEnqueue
          /\ worker' = [worker EXCEPT !.cleaned = TRUE]
          /\ UNCHANGED <<specVars, cacheVars, statusVars, budget>>
       \/ ~Deletable(pods[Task], PodObj.uid) /\ FailTask /\ NoCall
       \/ /\ Spend("errors") /\ FailTask
          /\ MarkPod(Task, PodObj.uid) \/ UNCHANGED objVars

WaitForPod ==
    /\ Tasking /\ PodGone /\ TS.state = "AttemptCreationRequested"
    /\ SkipTask /\ StartTimer /\ NoCall

\* Mutant: the deletion is requested without confirmation.
GiveUpOnPodUnconfirmed ==
    /\ Tasking /\ PodGone /\ TS.state = "AttemptCreationRequested"
    /\ MarkPod(Task, TS.uid) /\ Spend("timeouts")
    /\ DecideTask(CompleteTaskAttempt(TS, TRUE, "PodCreationTimeout")) /\ Enqueue

GiveUpOnPod ==
    /\ Tasking /\ PodGone /\ TS.state = "AttemptCreationRequested"
    /\ \/ /\ pods[Task] = NoObject
          /\ DecideTask(CompleteTaskAttempt(TS, TRUE, "PodCreationTimeout"))
          /\ Enqueue /\ NoCall
       \/ pods[Task] # NoObject /\ MarkPod(Task, TS.uid) /\ FailTask /\ Spend("timeouts")
       \/ Spend("errors") /\ FailTask /\ (MarkPod(Task, TS.uid) \/ UNCHANGED objVars)

PodDisappeared ==
    /\ Tasking /\ PodGone /\ TS.state \in Associated
    /\ DecideTask(CompleteTaskAttempt(TS, TRUE, "PodExternalDeleted"))
    /\ Enqueue /\ NoCall

RequestPodDeletion ==
    /\ Tasking /\ PodSeen /\ ~PodObj.deleting /\ TS.state = "AttemptDeletionPending"
    /\ \/ /\ MarkPod(Task, TS.uid)
          /\ DecideTask([TS EXCEPT !.state = "AttemptDeletionRequested"])
          /\ NoEnqueue /\ UNCHANGED budget
       \/ Spend("errors") /\ FailTask /\ (MarkPod(Task, TS.uid) \/ UNCHANGED objVars)

WaitPodDeletion ==
    /\ Tasking /\ PodSeen /\ ~PodObj.deleting
    /\ TS.state = "AttemptDeletionRequested"
    /\ SkipTask /\ NoEnqueue /\ NoCall

ObservePod ==
    /\ Tasking /\ PodSeen /\ ~PodObj.deleting
    /\ TS.state \in {"AttemptCreationRequested", "AttemptPreparing", "AttemptRunning"}
    /\ CASE PodObj.phase = "Pending" ->
                DecideTask([TS EXCEPT !.state = "AttemptPreparing"]) /\ NoEnqueue
         [] PodObj.phase = "Running" ->
                DecideTask([TS EXCEPT !.state = "AttemptRunning"]) /\ NoEnqueue
         [] OTHER ->
                DecideTask(CompleteTaskAttempt(TS, FALSE, PodObj.phase)) /\ Enqueue
    /\ NoCall

\* handlePodGracefulDeletion: wait, or delete by force once the period of grace,
\* if there is one, is over.
PodDeleting ==
    LET ts == [WithCode(TS, "PodExternalDeleted") EXCEPT !.state = "AttemptDeleting"]
    IN  /\ Tasking /\ PodSeen /\ PodObj.deleting /\ TS.state \notin Ended
        /\ \/ DecideTask(ts) /\ (IF GracePeriod THEN StartTimer ELSE NoEnqueue) /\ NoCall
           \/ /\ GracePeriod /\ ForcePod(Task, TS.uid)
              /\ DecideTask(ts) /\ NoEnqueue /\ UNCHANGED budget
           \/ /\ GracePeriod /\ Spend("errors")
              /\ UNCHANGED objVars \/ ForcePod(Task, TS.uid)
              /\ NextTask([Status0 EXCEPT !.tasks[Task] = ts], TRUE) /\ NoEnqueue

TaskDecision == RetryDecision(TS, "task")

RetryTask ==
    /\ Tasking /\ TS.state = "AttemptCompleted" /\ TaskDecision.retry
    /\ DecideTask(NewTaskStatus(TS.retried + 1,
                                TS.accounted + IF TaskDecision.counted THEN 1 ELSE 0))
    /\ Enqueue /\ NoCall

\* The last attempt of the task; it may complete the attempt of the framework.
CompleteTask ==
    LET s == [Status0 EXCEPT !.tasks[Task].state = "Completed"]
    IN  /\ Tasking /\ TS.state = "AttemptCompleted" /\ ~TaskDecision.retry
        /\ IF s.state \in Completing \/ TriggeredCodesBy(s, Task) = {}
           THEN NextTask(s, FALSE) /\ NoEnqueue
           ELSE /\ \E code \in TriggeredCodesBy(s, Task) :
                      NextTask(CompleteFrameworkAttempt(s, FALSE, code), FALSE)
                /\ Enqueue
        /\ NoCall

NewPod ==
    /\ pods' = [pods EXCEPT ![Task] = [uid |-> uids.pod[Task] + 1, owner |-> Status0.uid,
                                       deleting |-> FALSE, phase |-> "Pending"]]
    /\ uids' = [uids EXCEPT !.pod[Task] = @ + 1]
    /\ UNCHANGED cm

\* Mutant: pods are still created while the attempt is completing.
CreatePodWhileCompleting ==
    /\ Tasking /\ PodGone /\ TS.state = "AttemptCreationPending"
    /\ \/ /\ pods[Task] = NoObject /\ NewPod
          /\ DecideTask([TS EXCEPT !.uid = uids'.pod[Task], !.state = "AttemptCreationRequested"])
          /\ StartTimer /\ UNCHANGED budget
       \/ pods[Task] # NoObject /\ FailTask /\ NoCall

CreatePod ==
    /\ Tasking /\ PodGone /\ TS.state = "AttemptCreationPending"
    /\ IF Status0.state \in Completing THEN SkipTask /\ NoEnqueue /\ NoCall
       ELSE \/ /\ pods[Task] = NoObject /\ NewPod
               /\ DecideTask([TS EXCEPT !.uid = uids'.pod[Task],
                                        !.state = "AttemptCreationRequested"])
               /\ StartTimer /\ UNCHANGED budget
            \/ pods[Task] = NoObject /\ NewPod /\ Spend("errors") /\ FailTask \* answer lost
            \/ pods[Task] # NoObject /\ FailTask /\ NoCall                    \* AlreadyExists
            \/ Spend("errors") /\ FailTask /\ UNCHANGED objVars

\* The API server refuses the pod for good; before the attempt is completed, a
\* pod of this attempt under the name is looked up there and deleted.
RejectPod ==
    /\ Tasking /\ PodGone /\ TS.state = "AttemptCreationPending"
    /\ Status0.state \notin Completing
    /\ Spend("failures")
    /\ LET left    == pods[Task] # NoObject /\ pods[Task].owner = Status0.uid
           Refuse  == /\ \E code \in Refusals : DecideTask(CompleteTaskAttempt(TS, TRUE, code))
                      /\ Enqueue
       IN  \/ ~left /\ Refuse /\ UNCHANGED objVars
           \/ left /\ MarkPod(Task, pods[Task].uid) /\ FailTask
           \/ left /\ pods[Task].deleting /\ GracePeriod
              /\ ForcePod(Task, pods[Task].uid) /\ Refuse

-----------------------------------------------------------------------------
(***************************************************************************)
(* Informers, timers, restarts of the controller.                          *)
(***************************************************************************)
\* updateFrameworkObj: only a change of the spec, here of the execution type, wakes the
\* controller; the statuses it wrote itself do not.
SeeFramework ==
    /\ fNews
    /\ fNews' = FALSE /\ fCache' = exec
    /\ queued' = (queued \/ fCache # exec)
    /\ UNCHANGED <<job, exec, objVars, cacheVars, timer, statusVars, worker, budget>>

SeeConfigMap ==
    /\ cmCache # cm
    /\ cmCache' = cm /\ queued' = TRUE
    /\ UNCHANGED <<specVars, objVars, podCache, timer, statusVars, worker, budget>>

\* enqueuePodObj: a pod is only known by the ConfigMap that owns it, and only as
\* long as that ConfigMap is in the cache.
SeePod(t) ==
    /\ podCache[t] # pods[t]
    /\ podCache' = [podCache EXCEPT ![t] = pods[t]]
    /\ queued' = (queued \/ \E p \in {podCache[t], pods[t]} \ {NoObject} :
                                cmCache # NoObject /\ cmCache.uid = p.owner)
    /\ UNCHANGED <<specVars, objVars, cmCache, timer, statusVars, worker, budget>>

FireTimer ==
    /\ timer
    /\ timer' = FALSE /\ queued' = TRUE
    /\ UNCHANGED <<specVars, objVars, cacheVars, statusVars, worker, budget>>

\* The new process lists all objects before its workers start.
Restart ==
    /\ Spend("restarts")
    /\ worker' = Idle /\ expected' = NoInfo
    /\ queued' = TRUE /\ timer' = FALSE
    /\ fCache' = exec /\ fNews' = FALSE
    /\ cmCache' = cm /\ podCache' = pods
    /\ UNCHANGED <<job, exec, objVars, remote>>

(***************************************************************************)
(* Users, kubelets, the garbage collector, and others who delete objects.  *)
(***************************************************************************)
ClusterStep == UNCHANGED <<job, fCache, cacheVars, queueVars, statusVars, worker>>

SetExecution(e) ==
    /\ e # exec /\ Spend("orders")
    /\ exec' = e /\ fNews' = TRUE
    /\ ClusterStep /\ UNCHANGED objVars

PodStep(t, pod) ==
    /\ pods' = [pods EXCEPT ![t] = pod]
    /\ ClusterStep /\ UNCHANGED <<exec, fNews, cm, uids>>

StartPod(t) ==
    /\ pods[t] # NoObject /\ ~pods[t].deleting /\ pods[t].phase = "Pending"
    /\ PodStep(t, [pods[t] EXCEPT !.phase = "Running"]) /\ UNCHANGED budget

EndPod(t, result) ==
    /\ pods[t] # NoObject /\ ~pods[t].deleting /\ pods[t].phase = "Running"
    /\ IF result = "Succeeded" THEN UNCHANGED budget ELSE Spend("failures")
    /\ PodStep(t, [pods[t] EXCEPT !.phase = result])

\* The containers of a deleted pod are gone.
RemovePod(t) ==
    /\ pods[t] # NoObject /\ pods[t].deleting
    /\ PodStep(t, NoObject) /\ UNCHANGED budget

\* The garbage collector deletes what belongs to a ConfigMap that is deleted.
CollectPod(t) ==
    /\ pods[t] # NoObject /\ ~pods[t].deleting
    /\ cm # NoObject /\ cm.uid = pods[t].owner => cm.deleting
    /\ PodStep(t, [pods[t] EXCEPT !.deleting = TRUE]) /\ UNCHANGED budget

\* Foreground deletion ends when nothing belongs to the ConfigMap any more.
RemoveConfigMap ==
    /\ cm # NoObject /\ cm.deleting
    /\ cm.foreground => \A t \in Tasks : pods[t] # NoObject => pods[t].owner # cm.uid
    /\ cm' = NoObject
    /\ ClusterStep /\ UNCHANGED <<exec, fNews, pods, uids, budget>>

DeletePodByOthers(t) ==
    /\ pods[t] # NoObject /\ ~pods[t].deleting
    /\ Spend("podDeletes")
    /\ PodStep(t, [pods[t] EXCEPT !.deleting = TRUE])

DeleteConfigMapByOthers ==
    /\ cm # NoObject /\ ~cm.deleting
    /\ Spend("cmDeletes")
    /\ cm' = [cm EXCEPT !.deleting = TRUE]
    /\ ClusterStep /\ UNCHANGED <<exec, fNews, pods, uids>>

-----------------------------------------------------------------------------
SyncFramework ==
    \/ CreateStatus \/ BackUpGracePeriod \/ SkipCompleted
    \/ CleanUpConfigMap \/ WaitForConfigMap \/ GiveUpOnConfigMap
    \/ ConfigMapDisappeared \/ RequestConfigMapDeletion
    \/ SyncAttempt \/ ConfigMapDeleting
    \/ CompleteFramework \/ DelayRetry \/ RetryFramework
    \/ StopBeforeCreation \/ CreateConfigMap

SyncTask ==
    \/ SkipCompletedTask \/ CleanUpPod \/ WaitForPod \/ GiveUpOnPod
    \/ PodDisappeared \/ RequestPodDeletion \/ WaitPodDeletion
    \/ ObservePod \/ PodDeleting \/ RetryTask \/ CompleteTask
    \/ CreatePod \/ RejectPod

WorkerNext == BeginSync \/ PushExpectedStatus \/ SyncFramework \/ SyncTask \/ UpdateStatus

InformerNext == SeeFramework \/ SeeConfigMap \/ FireTimer \/ \E t \in Tasks : SeePod(t)

ClusterNext ==
    \/ \E e \in {"Start", "Stop"} : SetExecution(e)
    \/ RemoveConfigMap \/ DeleteConfigMapByOthers
    \/ \E t \in Tasks :
          \/ StartPod(t) \/ RemovePod(t) \/ CollectPod(t) \/ DeletePodByOthers(t)
          \/ \E result \in Results : EndPod(t, result)

Next == WorkerNext \/ InformerNext \/ ClusterNext \/ Restart

Spec == Init /\ [][Next]_vars

-----------------------------------------------------------------------------
ConfigMap == [uid : Nat \ {0}, deleting : BOOLEAN, foreground : BOOLEAN]
Pod == [uid : Nat \ {0}, owner : Nat \ {0}, deleting : BOOLEAN,
        phase : {"Pending", "Running"} \union Results]
Worker == [stage : {"push", "sync", "tasks", "update"}, status : Status \union {NoStatus},
           exec : {"Start", "Stop"}, todo : SUBSET Tasks, cleaned : BOOLEAN,
           failed : BOOLEAN]

\* Every variable keeps the type its comment promises.
TypeOK ==
    /\ {exec, fCache} \subseteq {"Start", "Stop"}
    /\ {fNews, queued, timer} \subseteq BOOLEAN
    /\ remote \in Status \union {NoStatus}
    /\ expected \in [status : Status \union {NoStatus}, synced : BOOLEAN] \union {NoInfo}
    /\ {cm, cmCache} \subseteq ConfigMap \union {NoObject}
    /\ {pods, podCache} \subseteq [Tasks -> Pod \union {NoObject}]
    /\ worker \in Worker \union {Idle}
    /\ uids \in [cm : Nat, pod : [Tasks -> Nat]]
    /\ job \in Frameworks /\ budget \in [BoundNames -> Nat]

LivePods == { t \in Tasks : pods[t] # NoObject }

\* ConsistencyGuarantee3 and 4 of doc/user-manual.md: an attempt that users see as
\* completed has no instance left, neither its ConfigMap nor a pod of any task.
NoInstanceOfCompletedAttempt ==
    remote # NoStatus /\ remote.state \in Ended => cm = NoObject /\ LivePods = {}

\* ConsistencyGuarantee4, word for word: of an attempt that users see as completed no pod
\* runs.  The manual promises it if whoever deletes the ConfigMap does so in foreground.
NothingRunsAfterCompletion ==
    remote # NoStatus /\ remote.state \in Ended =>
        \A t \in LivePods : pods[t].phase # "Running"

\* ConsistencyGuarantee2: a task attempt that users see as completed has no pod.
NoPodOfCompletedTask ==
    remote # NoStatus =>
        \A t \in Tasks : remote.tasks[t].state \in Ended => pods[t] = NoObject

\* ConsistencyGuarantee3: at most one instance of the framework runs at a time, so
\* all pods belong to one ConfigMap.
OneInstanceAtATime ==
    \A t, u \in LivePods : pods[t].owner = pods[u].owner

\* types.go: the status of a completed attempt, and of each task in it, says how it
\* completed, and its tasks are completed with it.
CompletedAttemptIsAccountedFor ==
    remote # NoStatus /\ remote.state \in Ended =>
        /\ remote.code # NoCode
        /\ \A t \in Tasks : remote.tasks[t].state = "Completed" /\ remote.tasks[t].code # NoCode

\* With the default policy of the platform (one failed task fails the attempt, all
\* must succeed), a job reported as succeeded has only succeeded tasks, whatever
\* failed, was lost or was deleted on the way.
SucceededMeansAllSucceeded ==
    MinFailed = 1 /\ MinSucceeded = Cardinality(Tasks) =>
        (remote # NoStatus /\ remote.code = "Succeeded" =>
            \A t \in Tasks : remote.tasks[t].code = "Succeeded")

Rank(state) == CHOOSE i \in DOMAIN StateOrder : StateOrder[i] = state

\* What a later status may look like: the attempt number never decreases; within an
\* attempt the state moves forward, and the instance and the completion status do
\* not change once they are set.
Later(new, old) ==
    \/ new.retried > old.retried
    \/ /\ new.retried = old.retried
       /\ Rank(new.state) >= Rank(old.state)
       /\ old.uid # 0 => new.uid = old.uid
       /\ old.code # NoCode => new.code = old.code

\* types.go: the status is Monotonically Exposed, from the view of any client of the
\* API server, for the framework and for each task of an attempt.
MonotonicallyExposed ==
    [][remote # NoStatus =>
          /\ remote' # NoStatus /\ Later(remote', remote)
          /\ remote'.retried = remote.retried =>
                \A t \in Tasks : Later(remote'.tasks[t], remote.tasks[t])]_vars

\* maxRetryCount: the retries that count are never more than the policy allows, of the
\* framework and of each task, whatever sync was repeated or decided on a stale cache.
RetriesWithinPolicy ==
    remote # NoStatus =>
        /\ MaxRetryCount["framework"] >= 0 => remote.accounted <= MaxRetryCount["framework"]
        /\ MaxRetryCount["task"] >= 0 =>
              \A t \in Tasks : remote.tasks[t].accounted <= MaxRetryCount["task"]

\* The persisted status and the objects, in the terms of AttemptLifecycle.
Phase(state) ==
    CASE state \in Completing -> "closing"
      [] state = "AttemptCompleted" -> "over"
      [] state = "Completed" -> "done"
      [] OTHER -> "open"

View(ts) == [number |-> ts.retried, counted |-> ts.accounted, phase |-> Phase(ts.state),
             code |-> ts.code]

FullView(s) ==
    IF s = NoStatus THEN NoStatus
    ELSE [number |-> s.retried, counted |-> s.accounted, phase |-> Phase(s.state),
          code |-> s.code, tasks |-> [t \in Tasks |-> View(s.tasks[t])]]

Life == INSTANCE AttemptLifecycle WITH
    Final <- {"StopFrameworkRequested", "FrameworkAttemptCompletion"},
    None <- NoStatus,
    shown <- FullView(remote),
    instance <- IF cm = NoObject THEN 0 ELSE cm.uid,
    last <- uids.cm,
    pods <- [t \in Tasks |-> IF pods[t] = NoObject THEN 0 ELSE pods[t].owner]

\* The controller implements AttemptLifecycle: with lost answers, stale caches, restarts
\* and failed writes, attempts follow each other as the retry policy says, none is
\* created or given pods but while it is shown as open, none is shown as over but
\* when its objects are gone.
KeepsLifecycle == Life!Spec

\* Every framework completes, whatever happens to its objects, the caches, the calls
\* and the controller.
EveryFrameworkCompletes == <>(remote # NoStatus /\ remote.state = "Completed")

\* Nothing is left of a framework in the end, not even of the objects that were
\* created behind the back of its status.
NothingIsLeaked == <>[](cm = NoObject /\ LivePods = {})

Fairness ==
    /\ WF_vars(WorkerNext)
    /\ WF_vars(FireTimer) /\ WF_vars(SeeFramework) /\ WF_vars(SeeConfigMap)
    /\ SF_vars(GiveUpOnConfigMap) /\ SF_vars(GiveUpOnPod) /\ SF_vars(RetryFramework)
    /\ WF_vars(RemoveConfigMap)
    /\ \A t \in UNION {f.tasks : f \in Frameworks} :
          /\ WF_vars(t \in Tasks /\ SeePod(t)) /\ WF_vars(t \in Tasks /\ StartPod(t))
          /\ WF_vars(t \in Tasks /\ RemovePod(t)) /\ WF_vars(t \in Tasks /\ CollectPod(t))
          /\ WF_vars(t \in Tasks /\ \E result \in Results : EndPod(t, result))

FairSpec == Spec /\ Fairness
=============================================================================
