------------------------- MODULE DatabaseController -------------------------
(***************************************************************************)
(* The database controller of the platform (src/database-controller): the  *)
(* write merger, the poller and the framework watcher, between the         *)
(* database, which holds the request users made, and the Kubernetes API    *)
(* server, which holds the Framework object the framework controller runs. *)
(*                                                                         *)
(* The module follows ONE framework name.  Every lock of the code          *)
(* (AsyncLock keyed by the framework name) and every where-clause is by    *)
(* name, so two names meet only in the poll loop and the RPC queue, which  *)
(* this module leaves out.                                                 *)
(***************************************************************************)
EXTENDS Naturals, Sequences, FiniteSets

CONSTANTS
    Submitters,     \* concurrent POST /jobs calls of rest-server for this name
    Bodies,         \* job descriptions, told apart by equality only
    Rejectable,     \* [body, exec] pairs the API server refuses for good (413, 422, 500 too large)
    RetainMode,     \* config.retainModeEnabled
    Budgets         \* bounds: the environments to explore, see Budget

ExecTypes == {"Start", "Stop"}

\* Which submissions are made at all, and how often users PATCH the request, the
\* framework controller retries a framework, others delete the framework in the API
\* server, and the watcher restarts.
Budget == [submit : SUBSET (Submitters \X Bodies), patch : Nat, retry : Nat, delete : Nat, restart : Nat]

ASSUME ConstantsAssumption ==
    /\ Rejectable \subseteq [body : Bodies, exec : ExecTypes]
    /\ RetainMode \in BOOLEAN
    /\ Budgets \subseteq Budget

VARIABLES
    row,        \* the record of table Framework, or NoRow
    api,        \* the Framework object in the API server, or NoObject
    watch,      \* events the watcher holds for this name, oldest first
    syncs,      \* short-cut synchronizations of the write merger in flight
    deletes,    \* whether a silent delete of the write merger is in flight
    running,    \* the poller task that holds the lock of this name, or NoTask
    pending,    \* the poller task that waits for it (maxPending = 1), or NoTask
    mocks,      \* snapshots whose failed state the poller is about to post
    submit,     \* progress of each submission in rest-server
    budget,     \* what is left of the bounds
    reached,    \* history: requests the API server has held
    launched    \* history: whether an attempt of the framework has ever run

dbVars  == <<row, deletes, syncs>>
apiVars == <<api, watch, reached>>
polVars == <<running, pending, mocks>>
envVars == <<submit, budget>>
vars    == <<dbVars, apiVars, polVars, envVars, launched>>

(***************************************************************************)
(* Data.  A Snapshot is the json of a framework: its request and its       *)
(* status.  Of the request the code compares the generation annotation and *)
(* the rest; of the rest users can change the executionType.               *)
(***************************************************************************)
Phases    == {"AttemptCreationPending", "AttemptRunning", "Completed"}
Request   == [gen : Nat \ {0}, body : Bodies, exec : ExecTypes]
Status    == [phase : Phases, retries : Nat]
Snapshot  == [req : Request, status : Status]
Event     == [type : {"ADDED", "MODIFIED", "DELETED"}, snap : Snapshot]
Row       == [snap : Snapshot, subState : Phases, synced : BOOLEAN,
              deleted : BOOLEAN, defs : {"given", "cleared"}]
SyncTask  == [req : Request, call : {"patch", "create"}]
Task      == [snap : Snapshot, call : {"patch", "create", "delete", "mock"}]

NoRow    == [row |-> "none"]
NoObject == [object |-> "none"]
NoTask   == [task |-> "none"]

Content(r) == [body |-> r.body, exec |-> r.exec]

\* Mutant: a re-created framework starts without its retry counter.
BareMockStatus == [phase |-> "AttemptCreationPending"]

MockStatus == [phase |-> "AttemptCreationPending", retries |-> 0]

MockFailedStatus == [phase |-> "Completed", retries |-> 0]

Init ==
    /\ row = NoRow
    /\ api = NoObject
    /\ watch = <<>>
    /\ syncs = {}
    /\ deletes = FALSE
    /\ running = NoTask
    /\ pending = NoTask
    /\ mocks = {}
    /\ submit = [s \in Submitters |-> "idle"]
    /\ budget \in Budgets
    /\ reached = {}
    /\ launched = FALSE

(***************************************************************************)
(* Calls on the API server.  Each one is atomic there; a change of the     *)
(* object is announced to the watcher.                                     *)
(***************************************************************************)
ApiPatch(r) ==
    /\ api # NoObject
    /\ Content(r) \notin Rejectable
    /\ api' = [api EXCEPT !.req = r]
    /\ watch' = IF api.req = r THEN watch
                ELSE Append(watch, [type |-> "MODIFIED", snap |-> api'])
    /\ reached' = reached \union {r}

ApiCreate(r) ==
    /\ api = NoObject
    /\ Content(r) \notin Rejectable
    /\ api' = [req |-> r, status |-> MockStatus]
    /\ watch' = Append(watch, [type |-> "ADDED", snap |-> api'])
    /\ reached' = reached \union {r}

ApiDelete ==
    /\ api # NoObject
    /\ api' = NoObject
    /\ watch' = Append(watch, [type |-> "DELETED", snap |-> api])
    /\ UNCHANGED reached

\* The answer 413, 422 or "message larger than max": the poller gives up.
ApiRejects(r, call) ==
    /\ Content(r) \in Rejectable
    /\ call = "patch" => api # NoObject
    /\ UNCHANGED apiVars

(***************************************************************************)
(* The write merger.  Its handlers run under lock.acquire(frameworkName)   *)
(* from the read of the record to its update, hence each one is a step.    *)
(***************************************************************************)

\* silentSynchronizeRequest: not awaited, its errors are only logged.
StartSilentSync(r) == syncs' = syncs \union {[req |-> r, call |-> "patch"]}

OnCreateFrameworkRequest(content) ==
    LET r == [gen |-> 1, body |-> content.body, exec |-> content.exec] IN
    /\ row = NoRow
    /\ row' = [snap |-> [req |-> r, status |-> MockStatus],
               subState |-> MockStatus.phase,
               synced |-> FALSE, deleted |-> FALSE, defs |-> "given"]
    /\ StartSilentSync(r)

\* Mutant: the generation does not move with the request.
ModifyKeepsGeneration(content, status) ==
    /\ row # NoRow /\ row.defs = "given"
    /\ IF content = Content(row.snap.req)
       THEN UNCHANGED <<row, syncs>>
       ELSE LET r == [gen |-> row.snap.req.gen,
                      body |-> content.body, exec |-> content.exec] IN
            /\ row' = [row EXCEPT !.snap = [req |-> r, status |-> status],
                                  !.synced = FALSE]
            /\ StartSilentSync(r)

\* Mutant: requestSynced is not reset by a new request.
ModifyKeepsSynced(content, status) ==
    /\ row # NoRow /\ row.defs = "given"
    /\ IF content = Content(row.snap.req)
       THEN UNCHANGED <<row, syncs>>
       ELSE LET r == [gen |-> row.snap.req.gen + 1,
                      body |-> content.body, exec |-> content.exec] IN
            /\ row' = [row EXCEPT !.snap = [req |-> r, status |-> status]]
            /\ StartSilentSync(r)

\* `status` is what the new snapshot carries: the old one for a PATCH, a
\* mocked one for a PUT.  The column subState is not part of the update.
OnModifyFrameworkRequest(content, status) ==
    /\ row # NoRow
    /\ row.defs = "given"       \* new AddOns('') throws
    /\ IF content = Content(row.snap.req)
       THEN UNCHANGED <<row, syncs>>
       ELSE LET r == [gen |-> row.snap.req.gen + 1,
                      body |-> content.body, exec |-> content.exec] IN
            /\ row' = [row EXCEPT !.snap = [req |-> r, status |-> status],
                                  !.synced = FALSE]
            /\ StartSilentSync(r)

\* Mutant: the event's request replaces the record's (no overrideRequest).
MergedWithoutOverride(ev) ==
    LET gone == ev.type = "DELETED"
        done == ev.snap.status.phase = "Completed"
    IN  [row EXCEPT !.snap = IF gone /\ ~done THEN [ev.snap EXCEPT !.status = MockStatus]
                             ELSE ev.snap,
                    !.subState = IF gone /\ ~done THEN MockStatus.phase ELSE @,
                    !.synced = ev.snap.req.gen = row.snap.req.gen /\ (gone => done),
                    !.deleted = (@ /\ ~gone) \/ (gone /\ done),
                    !.defs = IF gone /\ done THEN "cleared" ELSE @]

\* Mutant: any event marks the request synced, whatever its generation.
MergedAlwaysSynced(ev) ==
    LET phase == ev.snap.status.phase
        gone == ev.type = "DELETED" /\ phase = "Completed"
    IN  [row EXCEPT !.snap.status = ev.snap.status, !.subState = phase,
                    !.synced = TRUE, !.deleted = @ \/ gone,
                    !.defs = IF gone THEN "cleared" ELSE @]

\* The effect of a watched (or mocked) event on an existing record.
MergedRow(ev) ==
    LET same == ev.snap.req.gen = row.snap.req.gen
        snap == [ev.snap EXCEPT !.req = row.snap.req]      \* overrideRequest
        phase == snap.status.phase
        merged == [row EXCEPT !.snap = snap, !.subState = phase,
                              !.synced = same]
    IN  CASE ev.type # "DELETED" -> merged
          [] ev.type = "DELETED" /\ phase = "Completed" ->
                [merged EXCEPT !.deleted = TRUE, !.defs = "cleared"]
          [] ev.type = "DELETED" /\ phase # "Completed" ->
                [merged EXCEPT !.snap = [req |-> row.snap.req, status |-> MockStatus],
                               !.subState = MockStatus.phase,
                               !.synced = FALSE, !.deleted = FALSE]

PostWatchEvents(ev) ==
    /\ row' = IF row = NoRow THEN row ELSE MergedRow(ev)
    /\ deletes' = IF row = NoRow THEN deletes \/ ~RetainMode ELSE deletes
    /\ UNCHANGED syncs

\* The asynchronous tail of a PUT or PATCH: patch, then create on a 404.
SilentPatch(t) ==
    /\ t \in syncs /\ t.call = "patch"
    /\ \/ ApiPatch(t.req) /\ syncs' = syncs \ {t}
       \/ /\ api = NoObject
          /\ syncs' = (syncs \ {t}) \union {[t EXCEPT !.call = "create"]}
          /\ UNCHANGED apiVars
    /\ UNCHANGED <<row, deletes, polVars, envVars, launched>>

SilentCreate(t) ==
    /\ t \in syncs /\ t.call = "create"
    /\ ApiCreate(t.req)
    /\ syncs' = syncs \ {t}
    /\ UNCHANGED <<row, deletes, polVars, envVars, launched>>

\* Any error (409, a rejection, a timeout, a crash of the write merger).
SilentSyncFails(t) ==
    /\ t \in syncs
    /\ syncs' = syncs \ {t}
    /\ UNCHANGED <<row, deletes, apiVars, polVars, envVars, launched>>

SilentDelete ==
    /\ deletes
    /\ deletes' = FALSE
    /\ ApiDelete \/ UNCHANGED apiVars
    /\ UNCHANGED <<row, syncs, polVars, envVars, launched>>

(***************************************************************************)
(* rest-server: a submission checks that the job does not exist, then      *)
(* prepares and sends the PUT; a stop or start is a PATCH.                 *)
(***************************************************************************)
CheckDuplicate(s) ==
    /\ submit[s] = "idle"
    /\ \E body \in Bodies : <<s, body>> \in budget.submit
    /\ submit' = [submit EXCEPT ![s] = IF row = NoRow THEN "checked" ELSE "refused"]
    /\ UNCHANGED <<dbVars, apiVars, polVars, budget, launched>>

PutFrameworkRequest(s, body) ==
    LET content == [body |-> body, exec |-> "Start"] IN
    /\ submit[s] = "checked" /\ <<s, body>> \in budget.submit
    /\ submit' = [submit EXCEPT ![s] = "accepted"]
    /\ \/ OnCreateFrameworkRequest(content)
       \/ OnModifyFrameworkRequest(content, MockStatus)
    /\ UNCHANGED <<deletes, apiVars, polVars, budget, launched>>

\* The write merger answers with an error, or is not reached.
PutFails(s) ==
    /\ submit[s] = "checked"
    /\ submit' = [submit EXCEPT ![s] = "refused"]
    /\ UNCHANGED <<dbVars, apiVars, polVars, budget, launched>>

PatchFrameworkRequest(exec) ==
    /\ budget.patch > 0
    /\ budget' = [budget EXCEPT !.patch = @ - 1]
    /\ row # NoRow
    /\ OnModifyFrameworkRequest([body |-> row.snap.req.body, exec |-> exec],
                                row.snap.status)
    /\ UNCHANGED <<deletes, apiVars, polVars, submit, launched>>

(***************************************************************************)
(* The watcher: in order for one name, retried until the write merger      *)
(* answers 200.                                                            *)
(***************************************************************************)
DeliverEvent ==
    /\ watch # <<>>
    /\ PostWatchEvents(Head(watch))
    /\ watch' = Tail(watch)
    /\ UNCHANGED <<api, reached, polVars, envVars, launched>>

\* The write merger handled the event, the answer was lost: it is sent again.
DeliverEventAgain ==
    /\ watch # <<>>
    /\ PostWatchEvents(Head(watch))
    /\ UNCHANGED <<apiVars, polVars, envVars, launched>>

\* The process exits on any informer error; the new one lists the objects.
RestartWatcher ==
    /\ budget.restart > 0
    /\ budget' = [budget EXCEPT !.restart = @ - 1]
    /\ watch' = IF api = NoObject THEN <<>>
                ELSE << [type |-> "ADDED", snap |-> api] >>
    /\ UNCHANGED <<api, reached, dbVars, polVars, submit, launched>>

(***************************************************************************)
(* The poller.                                                             *)
(***************************************************************************)
\* Mutant: completed frameworks are not selected once they are synced.
PolledUnsyncedOnly(r) == ~r.deleted /\ ~r.synced

Polled(r) == ~r.deleted /\ (r.subState = "Completed" \/ ~r.synced)

\* One round of poll(): new AddOns('') throws and ends the round; a task is
\* refused when another one already waits for the lock.
Poll ==
    /\ row # NoRow
    /\ Polled(row)
    /\ row.defs = "given"
    /\ LET t == [snap |-> row.snap,
                 call |-> IF row.subState = "Completed" THEN "delete" ELSE "patch"]
       IN  \/ running = NoTask /\ running' = t /\ UNCHANGED pending
           \/ /\ running # NoTask /\ pending = NoTask
              /\ pending' = t /\ UNCHANGED running
    /\ UNCHANGED <<dbVars, apiVars, mocks, envVars, launched>>

\* The task ends, the one that waits gets the lock.
Release == running' = pending /\ pending' = NoTask

PollerPatch ==
    /\ running # NoTask /\ running.call = "patch"
    /\ \/ ApiPatch(running.snap.req) /\ Release
       \/ /\ api = NoObject
          /\ running' = [running EXCEPT !.call = "create"]
          /\ UNCHANGED <<pending, apiVars>>
    /\ UNCHANGED <<dbVars, mocks, envVars, launched>>

\* Somebody else created the object meanwhile: 409, left to the next round.
PollerCreate ==
    /\ running # NoTask /\ running.call = "create"
    /\ ApiCreate(running.snap.req) \/ (api # NoObject /\ UNCHANGED apiVars)
    /\ Release
    /\ UNCHANGED <<dbVars, mocks, envVars, launched>>

\* Snapshot.setFailed throws unless this holds: the code writes the test of
\* the retries as `!count === 0`, which is false for every count.
SetFailedAccepts(snap) == snap.status.phase = "AttemptCreationPending"

\* The lock is released first, the event is posted from the RPC queue.
PollerRejected ==
    /\ running # NoTask /\ running.call \in {"patch", "create"}
    /\ ApiRejects(running.snap.req, running.call)
    /\ mocks' = IF SetFailedAccepts(running.snap) THEN mocks \union {running.snap}
                ELSE mocks
    /\ Release
    /\ UNCHANGED <<dbVars, envVars, launched>>

PostMockedFailure(m) ==
    /\ m \in mocks
    /\ mocks' = mocks \ {m}
    /\ PostWatchEvents([type |-> "MODIFIED",
                        snap |-> [m EXCEPT !.status = MockFailedStatus]])
    /\ UNCHANGED <<apiVars, running, pending, envVars, launched>>

PollerDelete ==
    /\ running # NoTask /\ running.call = "delete"
    /\ \/ ApiDelete /\ Release
       \/ /\ api = NoObject
          /\ running' = [running EXCEPT !.call = "mock"]
          /\ UNCHANGED <<pending, apiVars>>
    /\ UNCHANGED <<dbVars, mocks, envVars, launched>>

PostMockedDelete ==
    /\ running # NoTask /\ running.call = "mock"
    /\ PostWatchEvents([type |-> "DELETED", snap |-> running.snap])
    /\ Release
    /\ UNCHANGED <<apiVars, mocks, envVars, launched>>

\* A recoverable error is logged, the next round tries again.
PollerTaskFails ==
    /\ \/ running # NoTask /\ Release /\ UNCHANGED mocks
       \/ \E m \in mocks : mocks' = mocks \ {m} /\ UNCHANGED <<running, pending>>
    /\ UNCHANGED <<dbVars, apiVars, envVars, launched>>

RestartPoller ==
    /\ running # NoTask \/ mocks # {}
    /\ running' = NoTask /\ pending' = NoTask /\ mocks' = {}
    /\ UNCHANGED <<dbVars, apiVars, envVars, launched>>

(***************************************************************************)
(* The framework controller and people with access to the API server.      *)
(***************************************************************************)
SetStatus(status) ==
    /\ api' = [api EXCEPT !.status = status]
    /\ watch' = Append(watch, [type |-> "MODIFIED", snap |-> api'])
    /\ UNCHANGED <<reached, dbVars, polVars, envVars>>

LaunchAttempt ==
    /\ api # NoObject /\ api.req.exec = "Start"
    /\ api.status.phase = "AttemptCreationPending"
    /\ SetStatus([api.status EXCEPT !.phase = "AttemptRunning"])
    /\ launched' = TRUE

RetryAttempt ==
    /\ api # NoObject /\ api.req.exec = "Start"
    /\ api.status.phase = "AttemptRunning"
    /\ api.status.retries < budget.retry
    /\ SetStatus([phase |-> "AttemptCreationPending", retries |-> api.status.retries + 1])
    /\ UNCHANGED launched

\* The last attempt ends, or the job is stopped before it runs.
CompleteFramework ==
    /\ api # NoObject
    /\ \/ api.status.phase = "AttemptRunning"
       \/ api.status.phase = "AttemptCreationPending" /\ api.req.exec = "Stop"
    /\ SetStatus([api.status EXCEPT !.phase = "Completed"])
    /\ UNCHANGED launched

DeleteDirectly ==
    /\ budget.delete > 0
    /\ budget' = [budget EXCEPT !.delete = @ - 1]
    /\ ApiDelete
    /\ UNCHANGED <<dbVars, polVars, submit, launched>>

\* Somebody creates a framework that was not submitted through the database:
\* nobody submits a job under its name.
CreateDirectly(body) ==
    /\ row = NoRow /\ api = NoObject /\ watch = <<>> /\ ~deletes
    /\ \A s \in Submitters : submit[s] = "idle"
    /\ ApiCreate([gen |-> 1, body |-> body, exec |-> "Start"])
    /\ submit' = [s \in Submitters |-> "refused"]
    /\ UNCHANGED <<dbVars, polVars, budget, launched>>

-----------------------------------------------------------------------------
WriteMergerNext ==
    \/ \E t \in syncs : SilentPatch(t) \/ SilentCreate(t) \/ SilentSyncFails(t)
    \/ SilentDelete

RestServerNext ==
    \/ \E s \in Submitters :
          \/ CheckDuplicate(s) \/ PutFails(s)
          \/ \E body \in Bodies : PutFrameworkRequest(s, body)
    \/ \E exec \in ExecTypes : PatchFrameworkRequest(exec)

WatcherNext == DeliverEvent \/ DeliverEventAgain \/ RestartWatcher

PollerNext ==
    \/ Poll \/ PollerPatch \/ PollerCreate \/ PollerRejected
    \/ PollerDelete \/ PostMockedDelete \/ PollerTaskFails \/ RestartPoller
    \/ \E m \in mocks : PostMockedFailure(m)

ClusterNext ==
    \/ LaunchAttempt \/ RetryAttempt \/ CompleteFramework \/ DeleteDirectly
    \/ \E body \in Bodies : CreateDirectly(body)

Next ==
    \/ WriteMergerNext \/ RestServerNext \/ WatcherNext
    \/ PollerNext \/ ClusterNext

Spec == Init /\ [][Next]_vars

-----------------------------------------------------------------------------
ApiTyped ==
    /\ api \in Snapshot \union {NoObject}
    /\ watch \in Seq(Event)
    /\ reached \subseteq Request

DbTyped ==
    /\ row \in Row \union {NoRow}
    /\ deletes \in BOOLEAN
    /\ syncs \subseteq SyncTask

PolTyped ==
    /\ running \in Task \union {NoTask}
    /\ pending \in Task \union {NoTask}
    /\ mocks \subseteq Snapshot

EnvTyped ==
    /\ submit \in [Submitters -> {"idle", "checked", "accepted", "refused"}]
    /\ budget \in Budget
    /\ launched \in BOOLEAN

\* Every variable keeps the type its comment promises.
TypeOK == ApiTyped /\ DbTyped /\ PolTyped /\ EnvTyped

\* Every request held somewhere outside the database: by the API server, by
\* an event on its way, by a call in flight, by a task or a mock of the poller.
RequestsOutside ==
    UNION { IF api = NoObject THEN {} ELSE {api.req},
            { watch[i].snap.req : i \in DOMAIN watch },
            { t.req : t \in syncs },
            IF running = NoTask THEN {} ELSE {running.snap.req},
            IF pending = NoTask THEN {} ELSE {pending.snap.req},
            { m.req : m \in mocks } }

\* The write merger decides that a request is synced by comparing generation
\* numbers only (handler.js postWatchEvents): that is right as long as, for
\* every copy of a request in flight, the number is at most the database's and
\* an equal number means the same request.
GenerationIdentifiesRequest ==
    row # NoRow =>
        \A r \in RequestsOutside :
            /\ r.gen <= row.snap.req.gen
            /\ r.gen = row.snap.req.gen => r = row.snap.req

\* requestSynced is never a false promise while the job is alive: the API
\* server has held exactly the request of the record, whatever mocked, stale,
\* repeated or reordered event set the flag.
SyncedRequestReachedApiServer ==
    row # NoRow /\ row.synced /\ row.subState # "Completed" =>
        row.snap.req \in reached

\* The invariant behind them.  Without a record nothing works for the name;
\* a framework that exists without a record is foreign, so no submission is
\* under way; what the watcher sees and what is in the API server was accepted
\* there; and every copy of a request agrees with the record's numbering.
Numbered(r) ==
    /\ r.gen <= row.snap.req.gen
    /\ r.gen = row.snap.req.gen => r = row.snap.req

NoRecordNoWork ==
    row = NoRow => syncs = {} /\ running = NoTask /\ pending = NoTask /\ mocks = {}

ForeignIsRefused ==
    row = NoRow /\ reached # {} => \A s \in Submitters : submit[s] = "refused"

SeenWasReached ==
    /\ api # NoObject => api.req \in reached
    /\ \A i \in 1..Len(watch) : watch[i].snap.req \in reached

CopiesAreNumbered ==
    row # NoRow =>
        /\ \A r \in reached : Numbered(r)
        /\ \A t \in syncs : Numbered(t.req)
        /\ running # NoTask => Numbered(running.snap.req)
        /\ pending # NoTask => Numbered(pending.snap.req)
        /\ \A m \in mocks : Numbered(m.req)

IInv ==
    /\ TypeOK
    /\ NoRecordNoWork
    /\ ForeignIsRefused
    /\ SeenWasReached
    /\ CopiesAreNumbered
    /\ SyncedRequestReachedApiServer

\* "Records in the database are the ground truth": events never change the
\* request of a record, and every accepted change gets the next generation.
RequestNeverRolledBack ==
    [][row # NoRow =>
          /\ row' # NoRow
          /\ \/ row'.snap.req = row.snap.req
             \/ row'.snap.req.gen = row.snap.req.gen + 1]_vars

\* What the controller shows of a name, in the terms of RequestSync.  A foreign
\* framework, which has no record, is none of its business.
Wanted == IF row = NoRow THEN NoRow ELSE row.snap.req
Held   == IF row = NoRow THEN {} ELSE reached
Acked  == row # NoRow /\ row.synced /\ row.subState # "Completed"

Promise == INSTANCE RequestSync WITH
    Requests <- Request,
    None     <- NoRow,
    desired  <- Wanted,
    reached  <- Held,
    acked    <- Acked

\* The controller implements RequestSync: no mocked, repeated, delayed or lost
\* message, and no crash, makes it break the promise.
KeepsPromise == Promise!Spec

-----------------------------------------------------------------------------
(***************************************************************************)
(* Liveness.  The watcher retries for ever, the poller polls for ever, and *)
(* errors of the API server and of the RPC to the write merger are         *)
(* transient, so a call that is tried again and again succeeds in the end  *)
(* (strong fairness).  The framework controller runs every job to its end. *)
(* Nothing is assumed of users, of restarts, of direct deletions or of the *)
(* write merger's short cuts.                                              *)
(***************************************************************************)
Fairness ==
    /\ WF_vars(DeliverEvent)
    /\ WF_vars(Poll)
    /\ SF_vars(PollerPatch)
    /\ SF_vars(PollerCreate)
    /\ SF_vars(PollerRejected)
    /\ SF_vars(PollerDelete)
    /\ SF_vars(PostMockedDelete)
    /\ SF_vars(\E m \in mocks : PostMockedFailure(m))
    /\ WF_vars(LaunchAttempt)
    /\ WF_vars(CompleteFramework)

FairSpec == Spec /\ Fairness

\* Every job that the database accepted is closed: it completes, its framework is
\* deleted from the API server, and the database hears of it (steps 3 to 12 of
\* docs/database_controller.md).
EveryJobSettles == row # NoRow ~> (row # NoRow /\ row.defs = "cleared")
=============================================================================
