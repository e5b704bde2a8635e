---------------------- MODULE DatabaseController_proofs ----------------------
(***************************************************************************)
(* What DatabaseController guarantees for any number of submitters, job    *)
(* descriptions, patches, retries, direct deletions and restarts.          *)
(***************************************************************************)
EXTENDS DatabaseController, TLAPS

-----------------------------------------------------------------------------
(***************************************************************************)
(* Type correctness, one lemma for each group of variables.                *)
(***************************************************************************)
LEMMA MockStatusTyped == MockStatus \in Status /\ MockFailedStatus \in Status
BY DEF MockStatus, MockFailedStatus, Status, Phases

LEMMA ApiCallsTyped ==
    ASSUME ApiTyped, NEW r \in Request,
           ApiPatch(r) \/ ApiCreate(r) \/ ApiDelete \/ UNCHANGED apiVars
    PROVE  ApiTyped'
<1>1. CASE ApiPatch(r)
  <2>1. api' \in Snapshot
    BY <1>1 DEF ApiPatch, ApiTyped, Snapshot
  <2>2. [type |-> "MODIFIED", snap |-> api'] \in Event
    BY <2>1 DEF Event
  <2>3. watch' \in Seq(Event)
    BY <1>1, <2>2 DEF ApiPatch, ApiTyped
  <2> QED BY <1>1, <2>1, <2>3 DEF ApiPatch, ApiTyped
<1>2. CASE ApiCreate(r)
  <2>1. api' \in Snapshot
    BY <1>2, MockStatusTyped DEF ApiCreate, Snapshot
  <2>2. [type |-> "ADDED", snap |-> api'] \in Event
    BY <2>1 DEF Event
  <2>3. watch' \in Seq(Event)
    BY <1>2, <2>2 DEF ApiCreate, ApiTyped
  <2> QED BY <1>2, <2>1, <2>3 DEF ApiCreate, ApiTyped
<1>3. CASE ApiDelete
  <2>1. [type |-> "DELETED", snap |-> api] \in Event
    BY <1>3 DEF ApiDelete, ApiTyped, Event
  <2> QED BY <1>3, <2>1 DEF ApiDelete, ApiTyped
<1>4. CASE UNCHANGED apiVars
  BY <1>4 DEF apiVars, ApiTyped
<1> QED BY <1>1, <1>2, <1>3, <1>4

LEMMA ModifyTyped ==
    ASSUME DbTyped, NEW content \in [body : Bodies, exec : ExecTypes],
           NEW status \in Status,
           OnCreateFrameworkRequest(content) \/ OnModifyFrameworkRequest(content, status),
           UNCHANGED deletes
    PROVE  DbTyped'
<1>1. CASE OnCreateFrameworkRequest(content)
  <2> DEFINE r == [gen |-> 1, body |-> content.body, exec |-> content.exec]
  <2>1. r \in Request
    BY DEF Request
  <2>2. MockStatus.phase \in Phases
    BY DEF MockStatus, Phases
  <2>3. row' \in Row
    BY <1>1, <2>1, <2>2, MockStatusTyped DEF OnCreateFrameworkRequest, Row, Snapshot
  <2>4. syncs' \subseteq SyncTask
    BY <1>1, <2>1 DEF OnCreateFrameworkRequest, StartSilentSync, DbTyped, SyncTask
  <2> QED BY <2>3, <2>4 DEF DbTyped
<1>2. CASE OnModifyFrameworkRequest(content, status)
  <2> DEFINE r == [gen |-> row.snap.req.gen + 1, body |-> content.body, exec |-> content.exec]
  <2>1. CASE content = Content(row.snap.req)
    BY <1>2, <2>1 DEF OnModifyFrameworkRequest, DbTyped
  <2>2. CASE content # Content(row.snap.req)
    <3>1. row \in Row
      BY <1>2 DEF OnModifyFrameworkRequest, DbTyped
    <3>2. r \in Request
      BY <3>1 DEF Request, Row, Snapshot
    <3>3. [req |-> r, status |-> status] \in Snapshot
      BY <3>2 DEF Snapshot
    <3>4. row' = [row EXCEPT !.snap = [req |-> r, status |-> status], !.synced = FALSE]
      BY <1>2, <2>2 DEF OnModifyFrameworkRequest
    <3>5. row' \in Row
      BY <3>1, <3>3, <3>4 DEF Row
    <3>6. syncs' \subseteq SyncTask
      BY <1>2, <2>2, <3>2 DEF OnModifyFrameworkRequest, StartSilentSync, DbTyped, SyncTask
    <3> QED BY <3>5, <3>6 DEF DbTyped
  <2> QED BY <2>1, <2>2
<1> QED BY <1>1, <1>2

LEMMA MergedRowTyped ==
    ASSUME row \in Row, NEW ev \in Event
    PROVE  MergedRow(ev) \in Row
<1>1. ev.snap \in Snapshot /\ ev.snap.status.phase \in Phases /\ row.snap.req \in Request
  BY DEF Event, Snapshot, Status, Row
<1>2. [ev.snap EXCEPT !.req = row.snap.req] \in Snapshot
  BY <1>1 DEF Snapshot
<1>3. [req |-> row.snap.req, status |-> MockStatus] \in Snapshot
  BY <1>1, MockStatusTyped DEF Snapshot
<1>4. MockStatus.phase \in Phases
  BY DEF MockStatus, Phases
<1> QED
  BY <1>1, <1>2, <1>3, <1>4 DEF MergedRow, Row, Event, Snapshot

LEMMA PostWatchEventsTyped ==
    ASSUME DbTyped, NEW ev \in Event, PostWatchEvents(ev), RetainMode \in BOOLEAN
    PROVE  DbTyped'
<1>1. row' \in Row \union {NoRow}
  BY MergedRowTyped DEF PostWatchEvents, DbTyped
<1> QED BY <1>1 DEF PostWatchEvents, DbTyped

LEMMA InitTyped == Init => TypeOK
<1> SUFFICES ASSUME Init PROVE TypeOK
  OBVIOUS
<1>1. watch \in Seq(Event)
  BY DEF Init
<1>2. budget \in Budget
  BY ConstantsAssumption DEF Init
<1> QED BY <1>1, <1>2 DEF Init, TypeOK, ApiTyped, DbTyped, PolTyped, EnvTyped

LEMMA TaskTyped ==
    ASSUME PolTyped, running # NoTask
    PROVE  /\ running \in Task
           /\ running.snap \in Snapshot
           /\ running.snap.req \in Request
           /\ [running EXCEPT !.call = "create"] \in Task
           /\ [running EXCEPT !.call = "mock"] \in Task
BY DEF PolTyped, Task, Snapshot

LEMMA ReleaseTyped ==
    ASSUME PolTyped, Release, mocks' \subseteq Snapshot
    PROVE  PolTyped'
BY DEF PolTyped, Release

LEMMA WriteMergerTyped ==
    ASSUME TypeOK, WriteMergerNext
    PROVE  TypeOK'
<1> USE DEF TypeOK
<1>1. ASSUME NEW t \in syncs, SilentPatch(t)
      PROVE  TypeOK'
  <2>1. t \in SyncTask /\ t.req \in Request /\ [t EXCEPT !.call = "create"] \in SyncTask
    BY <1>1 DEF DbTyped, SyncTask
  <2>2. ApiTyped'
    BY <1>1, <2>1, ApiCallsTyped DEF SilentPatch
  <2>3. DbTyped'
    BY <1>1, <2>1 DEF SilentPatch, DbTyped
  <2> QED BY <1>1, <2>2, <2>3 DEF SilentPatch, polVars, envVars, PolTyped, EnvTyped
<1>2. ASSUME NEW t \in syncs, SilentCreate(t)
      PROVE  TypeOK'
  <2>1. t.req \in Request
    BY <1>2 DEF DbTyped, SyncTask
  <2>2. ApiTyped'
    BY <1>2, <2>1, ApiCallsTyped DEF SilentCreate
  <2> QED BY <1>2, <2>2 DEF SilentCreate, polVars, envVars, DbTyped, PolTyped, EnvTyped
<1>3. ASSUME NEW t \in syncs, SilentSyncFails(t)
      PROVE  TypeOK'
  BY <1>3 DEF SilentSyncFails, apiVars, polVars, envVars,
              ApiTyped, DbTyped, PolTyped, EnvTyped
<1>4. CASE SilentDelete
  <2>1. ApiTyped'
    <3>1. CASE ApiDelete
      <4>1. [type |-> "DELETED", snap |-> api] \in Event
        BY <3>1 DEF ApiDelete, ApiTyped, Event
      <4> QED BY <3>1, <4>1 DEF ApiDelete, ApiTyped
    <3> QED BY <1>4, <3>1 DEF SilentDelete, apiVars, ApiTyped
  <2> QED BY <1>4, <2>1 DEF SilentDelete, polVars, envVars, DbTyped, PolTyped, EnvTyped
<1> QED BY <1>1, <1>2, <1>3, <1>4 DEF WriteMergerNext

LEMMA RestServerTyped ==
    ASSUME TypeOK, RestServerNext
    PROVE  TypeOK'
<1> USE DEF TypeOK
<1>1. ASSUME NEW s \in Submitters, CheckDuplicate(s) \/ PutFails(s)
      PROVE  TypeOK'
  BY <1>1 DEF CheckDuplicate, PutFails, dbVars, apiVars, polVars,
              ApiTyped, DbTyped, PolTyped, EnvTyped
<1>2. ASSUME NEW s \in Submitters, NEW body \in Bodies, PutFrameworkRequest(s, body)
      PROVE  TypeOK'
  <2>1. [body |-> body, exec |-> "Start"] \in [body : Bodies, exec : ExecTypes]
    BY DEF ExecTypes
  <2>2. DbTyped'
    BY <1>2, <2>1, ModifyTyped, MockStatusTyped DEF PutFrameworkRequest
  <2> QED BY <1>2, <2>2 DEF PutFrameworkRequest, apiVars, polVars,
                            ApiTyped, PolTyped, EnvTyped
<1>3. ASSUME NEW exec \in ExecTypes, PatchFrameworkRequest(exec)
      PROVE  TypeOK'
  <2>1. row \in Row
    BY <1>3 DEF PatchFrameworkRequest, DbTyped
  <2>2. /\ [body |-> row.snap.req.body, exec |-> exec] \in [body : Bodies, exec : ExecTypes]
        /\ row.snap.status \in Status
    BY <2>1 DEF Row, Snapshot, Request
  <2>3. DbTyped'
    BY <1>3, <2>2, ModifyTyped DEF PatchFrameworkRequest
  <2>4. budget' \in Budget
    BY <1>3 DEF PatchFrameworkRequest, EnvTyped, Budget
  <2> QED BY <1>3, <2>3, <2>4 DEF PatchFrameworkRequest, apiVars, polVars,
                                  ApiTyped, PolTyped, EnvTyped
<1> QED BY <1>1, <1>2, <1>3 DEF RestServerNext

LEMMA WatcherTyped ==
    ASSUME TypeOK, WatcherNext
    PROVE  TypeOK'
<1> USE DEF TypeOK
<1>1. ASSUME watch # <<>>
      PROVE  Head(watch) \in Event /\ Tail(watch) \in Seq(Event)
  BY <1>1 DEF ApiTyped
<1>2. CASE DeliverEvent
  <2>1. DbTyped'
    BY <1>1, <1>2, ConstantsAssumption, PostWatchEventsTyped DEF DeliverEvent
  <2> QED BY <1>1, <1>2, <2>1 DEF DeliverEvent, polVars, envVars, ApiTyped, PolTyped, EnvTyped
<1>3. CASE DeliverEventAgain
  <2>1. DbTyped'
    BY <1>1, <1>3, ConstantsAssumption, PostWatchEventsTyped DEF DeliverEventAgain
  <2> QED BY <1>3, <2>1 DEF DeliverEventAgain, apiVars, polVars, envVars,
                            ApiTyped, PolTyped, EnvTyped
<1>4. CASE RestartWatcher
  <2>1. api # NoObject => [type |-> "ADDED", snap |-> api] \in Event
    BY DEF ApiTyped, Event
  <2>2. watch' \in Seq(Event)
    BY <1>4, <2>1 DEF RestartWatcher
  <2>3. budget' \in Budget
    BY <1>4 DEF RestartWatcher, EnvTyped, Budget
  <2> QED BY <1>4, <2>2, <2>3 DEF RestartWatcher, dbVars, polVars,
                                  ApiTyped, DbTyped, PolTyped, EnvTyped
<1> QED BY <1>2, <1>3, <1>4 DEF WatcherNext

LEMMA PollerTyped ==
    ASSUME TypeOK, PollerNext
    PROVE  TypeOK'
<1> USE DEF TypeOK
<1>1. CASE Poll
  <2> DEFINE t == [snap |-> row.snap,
                   call |-> IF row.subState = "Completed" THEN "delete" ELSE "patch"]
  <2>1. t \in Task
    BY <1>1 DEF Poll, DbTyped, Row, Task
  <2>2. PolTyped'
    BY <1>1, <2>1 DEF Poll, PolTyped
  <2> QED BY <1>1, <2>2 DEF Poll, dbVars, apiVars, envVars, ApiTyped, DbTyped, EnvTyped
<1>2. CASE PollerPatch
  <2>1. running # NoTask
    BY <1>2 DEF PollerPatch
  <2>2. ApiTyped'
    BY <1>2, <2>1, TaskTyped, ApiCallsTyped DEF PollerPatch
  <2>3. PolTyped'
    BY <1>2, <2>1, TaskTyped, ReleaseTyped DEF PollerPatch, PolTyped
  <2> QED BY <1>2, <2>2, <2>3 DEF PollerPatch, dbVars, envVars, DbTyped, EnvTyped
<1>3. CASE PollerCreate
  <2>1. running # NoTask
    BY <1>3 DEF PollerCreate
  <2>2. ApiTyped'
    BY <1>3, <2>1, TaskTyped, ApiCallsTyped DEF PollerCreate
  <2>3. PolTyped'
    BY <1>3, ReleaseTyped DEF PollerCreate, PolTyped
  <2> QED BY <1>3, <2>2, <2>3 DEF PollerCreate, dbVars, envVars, DbTyped, EnvTyped
<1>4. CASE PollerRejected
  <2>1. running # NoTask
    BY <1>4 DEF PollerRejected
  <2>2. mocks' \subseteq Snapshot
    BY <1>4, <2>1, TaskTyped DEF PollerRejected, PolTyped
  <2>3. PolTyped'
    BY <1>4, <2>2, ReleaseTyped DEF PollerRejected
  <2> QED BY <1>4, <2>3 DEF PollerRejected, ApiRejects, dbVars, apiVars, envVars,
                            ApiTyped, DbTyped, EnvTyped
<1>5. ASSUME NEW m \in mocks, PostMockedFailure(m)
      PROVE  TypeOK'
  <2>1. m \in Snapshot
    BY <1>5 DEF PolTyped
  <2>2. [m EXCEPT !.status = MockFailedStatus] \in Snapshot
    BY <2>1, MockStatusTyped DEF Snapshot
  <2>3. [type |-> "MODIFIED", snap |-> [m EXCEPT !.status = MockFailedStatus]] \in Event
    BY <2>2 DEF Event
  <2>4. DbTyped'
    BY <1>5, <2>3, ConstantsAssumption, PostWatchEventsTyped DEF PostMockedFailure
  <2> QED BY <1>5, <2>4 DEF PostMockedFailure, apiVars, envVars, ApiTyped, PolTyped, EnvTyped
<1>6. CASE PollerDelete
  <2>1. running # NoTask
    BY <1>6 DEF PollerDelete
  <2>2. ApiTyped'
    BY <1>6, <2>1, TaskTyped, ApiCallsTyped DEF PollerDelete
  <2>3. PolTyped'
    BY <1>6, <2>1, TaskTyped, ReleaseTyped DEF PollerDelete, PolTyped
  <2> QED BY <1>6, <2>2, <2>3 DEF PollerDelete, dbVars, envVars, DbTyped, EnvTyped
<1>7. CASE PostMockedDelete
  <2>1. running # NoTask
    BY <1>7 DEF PostMockedDelete
  <2>2. [type |-> "DELETED", snap |-> running.snap] \in Event
    BY <2>1, TaskTyped DEF Event
  <2>3. DbTyped'
    BY <1>7, <2>2, ConstantsAssumption, PostWatchEventsTyped DEF PostMockedDelete
  <2>4. PolTyped'
    BY <1>7, ReleaseTyped DEF PostMockedDelete, PolTyped
  <2> QED BY <1>7, <2>3, <2>4 DEF PostMockedDelete, apiVars, envVars, ApiTyped, EnvTyped
<1>8. CASE PollerTaskFails
  <2>1. PolTyped'
    BY <1>8, ReleaseTyped DEF PollerTaskFails, PolTyped
  <2> QED BY <1>8, <2>1 DEF PollerTaskFails, dbVars, apiVars, envVars,
                            ApiTyped, DbTyped, EnvTyped
<1>9. CASE RestartPoller
  BY <1>9 DEF RestartPoller, dbVars, apiVars, envVars, ApiTyped, DbTyped, PolTyped, EnvTyped
<1> QED BY <1>1, <1>2, <1>3, <1>4, <1>5, <1>6, <1>7, <1>8, <1>9 DEF PollerNext

LEMMA SetStatusTyped ==
    ASSUME TypeOK, api # NoObject, NEW status \in Status, SetStatus(status),
           launched' \in BOOLEAN
    PROVE  TypeOK'
<1> USE DEF TypeOK, ApiTyped, DbTyped, PolTyped, EnvTyped
<1>1. api' \in Snapshot
  BY DEF SetStatus, Snapshot
<1>2. [type |-> "MODIFIED", snap |-> api'] \in Event
  BY <1>1 DEF Event
<1>3. watch' \in Seq(Event)
  BY <1>2 DEF SetStatus
<1> QED BY <1>1, <1>3 DEF SetStatus, dbVars, polVars, envVars

LEMMA ClusterTyped ==
    ASSUME TypeOK, ClusterNext
    PROVE  TypeOK'
<1> USE DEF TypeOK
<1>1. ASSUME api # NoObject
      PROVE  /\ [api.status EXCEPT !.phase = "AttemptRunning"] \in Status
             /\ [api.status EXCEPT !.phase = "Completed"] \in Status
             /\ [phase |-> "AttemptCreationPending", retries |-> api.status.retries + 1] \in Status
  BY <1>1 DEF ApiTyped, Snapshot, Status, Phases
<1>2. CASE LaunchAttempt
  BY <1>1, <1>2, SetStatusTyped DEF LaunchAttempt
<1>3. CASE RetryAttempt
  BY <1>1, <1>3, SetStatusTyped DEF RetryAttempt, EnvTyped
<1>4. CASE CompleteFramework
  BY <1>1, <1>4, SetStatusTyped DEF CompleteFramework, EnvTyped
<1>5. CASE DeleteDirectly
  <2>1. [type |-> "DELETED", snap |-> api] \in Event
    BY <1>5 DEF DeleteDirectly, ApiDelete, ApiTyped, Event
  <2>2. ApiTyped'
    BY <1>5, <2>1 DEF DeleteDirectly, ApiDelete, ApiTyped
  <2>3. budget' \in Budget
    BY <1>5 DEF DeleteDirectly, EnvTyped, Budget
  <2> QED BY <1>5, <2>2, <2>3 DEF DeleteDirectly, dbVars, polVars, DbTyped, PolTyped, EnvTyped
<1>6. ASSUME NEW body \in Bodies, CreateDirectly(body)
      PROVE  TypeOK'
  <2>1. [gen |-> 1, body |-> body, exec |-> "Start"] \in Request
    BY DEF Request, ExecTypes
  <2>2. ApiTyped'
    BY <1>6, <2>1, ApiCallsTyped DEF CreateDirectly
  <2> QED BY <1>6, <2>2 DEF CreateDirectly, dbVars, polVars, DbTyped, PolTyped, EnvTyped
<1> QED BY <1>2, <1>3, <1>4, <1>5, <1>6 DEF ClusterNext

LEMMA StutterTyped == TypeOK /\ UNCHANGED vars => TypeOK'
BY DEF TypeOK, ApiTyped, DbTyped, PolTyped, EnvTyped, vars, dbVars, apiVars, polVars, envVars

\* Every variable keeps its type, for all values of the constants.
THEOREM TypeCorrect == Spec => []TypeOK
<1>1. Init => TypeOK
  BY InitTyped
<1>2. TypeOK /\ [Next]_vars => TypeOK'
  BY WriteMergerTyped, RestServerTyped, WatcherTyped, PollerTyped, ClusterTyped, StutterTyped
     DEF Next
<1> QED BY <1>1, <1>2, PTL DEF Spec
-----------------------------------------------------------------------------
(***************************************************************************)
(* The inductive invariant.                                                *)
(***************************************************************************)

LEMMA RowIsARecord == NoRow \notin Row
BY DEF NoRow, Row

\* What IInv says besides types.
Kept ==
    /\ NoRecordNoWork
    /\ ForeignIsRefused
    /\ SeenWasReached
    /\ CopiesAreNumbered
    /\ SyncedRequestReachedApiServer

\* A call with a numbered request keeps what is said of the API server.
LEMMA ApiCallKeeps ==
    ASSUME TypeOK, TypeOK', SeenWasReached, NEW r \in Request,
           ApiPatch(r) \/ ApiCreate(r) \/ ApiDelete \/ UNCHANGED apiVars
    PROVE  /\ SeenWasReached'
           /\ reached \subseteq reached' /\ reached' \subseteq reached \union {r}
<1> USE DEF TypeOK, ApiTyped, SeenWasReached
<1>1. CASE ApiPatch(r)
  <2>1. api' # NoObject => api'.req = r
    BY <1>1 DEF ApiPatch, Snapshot
  <2>2. ASSUME NEW i \in 1..Len(watch')
        PROVE  watch'[i].snap.req \in reached'
    <3>1. watch'[i] \in {watch[j] : j \in 1..Len(watch)} \union
                       {[type |-> "MODIFIED", snap |-> api']}
      BY <1>1, <2>2 DEF ApiPatch
    <3> QED BY <1>1, <2>1, <3>1 DEF ApiPatch
  <2> QED BY <1>1, <2>1, <2>2 DEF ApiPatch
<1>2. CASE ApiCreate(r)
  <2>1. api'.req = r
    BY <1>2 DEF ApiCreate
  <2>2. ASSUME NEW i \in 1..Len(watch')
        PROVE  watch'[i].snap.req \in reached'
    <3>1. watch'[i] \in {watch[j] : j \in 1..Len(watch)} \union
                       {[type |-> "ADDED", snap |-> api']}
      BY <1>2, <2>2 DEF ApiCreate
    <3> QED BY <1>2, <2>1, <3>1 DEF ApiCreate
  <2> QED BY <1>2, <2>1, <2>2 DEF ApiCreate
<1>3. CASE ApiDelete
  <2>1. ASSUME NEW i \in 1..Len(watch')
        PROVE  watch'[i].snap.req \in reached'
    <3>1. watch'[i] \in {watch[j] : j \in 1..Len(watch)} \union
                       {[type |-> "DELETED", snap |-> api]}
      BY <1>3, <2>1 DEF ApiDelete
    <3> QED BY <1>3, <3>1 DEF ApiDelete
  <2> QED BY <1>3, <2>1 DEF ApiDelete
<1>4. CASE UNCHANGED apiVars
  BY <1>4 DEF apiVars
<1> QED BY <1>1, <1>2, <1>3, <1>4

\* A numbered call that leaves the record and all other work alone.
LEMMA NumberedCallKeeps ==
    ASSUME TypeOK, TypeOK', Kept, row # NoRow, UNCHANGED row,
           NEW r \in Request, Numbered(r),
           ApiPatch(r) \/ ApiCreate(r) \/ ApiDelete \/ UNCHANGED apiVars,
           \A t \in syncs' : Numbered(t.req),
           running' # NoTask => Numbered(running'.snap.req),
           pending' # NoTask => Numbered(pending'.snap.req),
           \A m \in mocks' : Numbered(m.req)
    PROVE  Kept'
<1>1. /\ SeenWasReached'
      /\ reached \subseteq reached' /\ reached' \subseteq reached \union {r}
  BY ApiCallKeeps DEF Kept
<1>2. CopiesAreNumbered'
  BY <1>1 DEF Kept, CopiesAreNumbered, Numbered
<1> QED
  BY <1>1, <1>2 DEF Kept, NoRecordNoWork, ForeignIsRefused, SyncedRequestReachedApiServer

\* An event about a numbered request never touches the request of the record,
\* and marks it synced only if the API server has held it.
LEMMA EventKeeps ==
    ASSUME TypeOK, TypeOK', SyncedRequestReachedApiServer, UNCHANGED reached,
           NEW ev \in Event, PostWatchEvents(ev),
           row # NoRow => /\ Numbered(ev.snap.req)
                          /\ \/ ev.snap.req \in reached
                             \/ ev.type = "DELETED"
                             \/ ev.snap.status.phase = "Completed"
    PROVE  /\ row = NoRow => row' = NoRow
           /\ row # NoRow => row' # NoRow /\ row'.snap.req = row.snap.req
           /\ SyncedRequestReachedApiServer'
<1>1. CASE row = NoRow
  BY <1>1 DEF PostWatchEvents, SyncedRequestReachedApiServer
<1>2. CASE row # NoRow
  <2>1. row \in Row /\ row' = MergedRow(ev)
    BY <1>2 DEF PostWatchEvents, TypeOK, DbTyped
  <2>2. row' # NoRow
    BY <2>1, MergedRowTyped, RowIsARecord
  <2>3. row'.snap.req = row.snap.req
    BY <2>1 DEF MergedRow, Row, Event, Snapshot
  <2>4. row'.synced => ev.snap.req.gen = row.snap.req.gen
    BY <2>1 DEF MergedRow, Row, Event, Snapshot
  <2>5. row'.synced /\ row'.subState # "Completed" =>
            ev.type # "DELETED" /\ ev.snap.status.phase # "Completed"
    BY <2>1 DEF MergedRow, Row, Event, Snapshot
  <2>6. SyncedRequestReachedApiServer'
    BY <1>2, <2>3, <2>4, <2>5 DEF SyncedRequestReachedApiServer, Numbered
  <2> QED BY <1>2, <2>2, <2>3, <2>6
<1> QED BY <1>1, <1>2

LEMMA EventKeepsAll ==
    ASSUME TypeOK, TypeOK', Kept, UNCHANGED <<reached, api, syncs, submit>>,
           NEW ev \in Event, PostWatchEvents(ev),
           row # NoRow => /\ Numbered(ev.snap.req)
                          /\ \/ ev.snap.req \in reached
                             \/ ev.type = "DELETED"
                             \/ ev.snap.status.phase = "Completed",
           SeenWasReached',
           running' \in {running, pending, NoTask},
           pending' \in {pending, NoTask},
           mocks' \subseteq mocks
    PROVE  Kept'
<1>1. /\ row = NoRow => row' = NoRow
      /\ row # NoRow => row' # NoRow /\ row'.snap.req = row.snap.req
      /\ SyncedRequestReachedApiServer'
  BY EventKeeps DEF Kept
<1>2. NoRecordNoWork' /\ ForeignIsRefused'
  BY <1>1 DEF Kept, NoRecordNoWork, ForeignIsRefused
<1>3. CopiesAreNumbered'
  BY <1>1 DEF Kept, CopiesAreNumbered, Numbered
<1> QED BY <1>1, <1>2, <1>3 DEF Kept

\* Steps that give the API server no request and change no record.
LEMMA QuietStepKeeps ==
    ASSUME Kept, SeenWasReached', ForeignIsRefused', UNCHANGED <<row, syncs, reached>>,
           running' \in {running, pending, NoTask},
           pending' \in {pending, NoTask},
           mocks' \subseteq mocks
    PROVE  Kept'
<1>1. NoRecordNoWork' /\ SyncedRequestReachedApiServer'
  BY DEF Kept, NoRecordNoWork, SyncedRequestReachedApiServer
<1>2. CopiesAreNumbered'
  BY DEF Kept, CopiesAreNumbered, Numbered
<1> QED BY <1>1, <1>2 DEF Kept

LEMMA DeletionKeepsSeen ==
    ASSUME TypeOK, SeenWasReached, ApiDelete \/ UNCHANGED apiVars
    PROVE  SeenWasReached' /\ UNCHANGED reached
<1> USE DEF TypeOK, ApiTyped, SeenWasReached
<1>1. CASE ApiDelete
  <2>1. ASSUME NEW i \in 1..Len(watch')
        PROVE  watch'[i].snap.req \in reached'
    <3>1. watch'[i] \in {watch[j] : j \in 1..Len(watch)} \union
                       {[type |-> "DELETED", snap |-> api]}
      BY <1>1, <2>1 DEF ApiDelete
    <3> QED BY <1>1, <3>1 DEF ApiDelete
  <2> QED BY <1>1, <2>1 DEF ApiDelete
<1>2. CASE UNCHANGED apiVars
  BY <1>2 DEF apiVars
<1> QED BY <1>1, <1>2

LEMMA WriteMergerKeeps ==
    ASSUME TypeOK, TypeOK', Kept, WriteMergerNext
    PROVE  Kept'
<1>1. ASSUME NEW t \in syncs, SilentPatch(t) \/ SilentCreate(t) \/ SilentSyncFails(t)
      PROVE  Kept'
  <2>1. row # NoRow /\ t.req \in Request /\ Numbered(t.req)
    BY <1>1 DEF Kept, NoRecordNoWork, CopiesAreNumbered, TypeOK, DbTyped, SyncTask
  <2>2. UNCHANGED row /\ UNCHANGED polVars
    BY <1>1 DEF SilentPatch, SilentCreate, SilentSyncFails
  <2>3. ApiPatch(t.req) \/ ApiCreate(t.req) \/ ApiDelete \/ UNCHANGED apiVars
    BY <1>1 DEF SilentPatch, SilentCreate, SilentSyncFails
  <2>4. \A u \in syncs' : u \in syncs \/ u.req = t.req
    <3>1. [t EXCEPT !.call = "create"].req = t.req
      BY DEF TypeOK, DbTyped, SyncTask
    <3> QED BY <1>1, <3>1 DEF SilentPatch, SilentCreate, SilentSyncFails
  <2>5. \A u \in syncs' : Numbered(u.req)
    BY <2>1, <2>4 DEF Kept, CopiesAreNumbered, Numbered
  <2>6. /\ running' # NoTask => Numbered(running'.snap.req)
        /\ pending' # NoTask => Numbered(pending'.snap.req)
        /\ \A m \in mocks' : Numbered(m.req)
    BY <2>1, <2>2 DEF Kept, CopiesAreNumbered, Numbered, polVars
  <2> QED BY <2>1, <2>2, <2>3, <2>5, <2>6, NumberedCallKeeps
<1>2. CASE SilentDelete
  <2>1. SeenWasReached' /\ UNCHANGED reached
    BY <1>2, DeletionKeepsSeen DEF SilentDelete, Kept
  <2>2. UNCHANGED <<row, syncs, submit, polVars>>
    BY <1>2 DEF SilentDelete, envVars
  <2>3. ForeignIsRefused'
    BY <2>1, <2>2 DEF Kept, ForeignIsRefused
  <2> QED BY <2>1, <2>2, <2>3, QuietStepKeeps DEF polVars
<1> QED BY <1>1, <1>2 DEF WriteMergerNext

\* A new request has the next generation: every older copy stays numbered.
LEMMA ModifyKeeps ==
    ASSUME TypeOK, TypeOK', Kept, UNCHANGED <<apiVars, polVars>>,
           NEW content \in [body : Bodies, exec : ExecTypes],
           NEW status \in Status,
           OnModifyFrameworkRequest(content, status)
    PROVE  Kept'
<1> DEFINE r == [gen |-> row.snap.req.gen + 1, body |-> content.body, exec |-> content.exec]
<1>1. row \in Row /\ row # NoRow /\ row.snap.req \in Request
  BY DEF OnModifyFrameworkRequest, TypeOK, DbTyped, Row, Snapshot
<1>2. CASE content = Content(row.snap.req)
  BY <1>1, <1>2 DEF OnModifyFrameworkRequest, apiVars, polVars, Kept, NoRecordNoWork,
                    ForeignIsRefused, SeenWasReached, CopiesAreNumbered, Numbered,
                    SyncedRequestReachedApiServer
<1>3. CASE content # Content(row.snap.req)
  <2>1. /\ row' = [row EXCEPT !.snap = [req |-> r, status |-> status], !.synced = FALSE]
        /\ syncs' = syncs \union {[req |-> r, call |-> "patch"]}
    BY <1>3 DEF OnModifyFrameworkRequest, StartSilentSync
  <2>2. [req |-> r, status |-> status] \in Snapshot
    BY <1>1 DEF Snapshot, Request
  <2>3. row'.snap.req = r /\ row'.synced = FALSE /\ row' \in Row
    BY <1>1, <2>1, <2>2 DEF Row
  <2>4. row' # NoRow
    BY <2>3, RowIsARecord
  <2>5. ASSUME NEW q \in Request, Numbered(q)
        PROVE  q.gen <= r.gen /\ (q.gen = r.gen => q = r)
    BY <1>1, <2>5 DEF Numbered, Request
  <2>6. /\ \A q \in reached : q \in Request
        /\ \A t \in syncs : t.req \in Request
        /\ \A m \in mocks : m.req \in Request
        /\ running # NoTask => running.snap.req \in Request
        /\ pending # NoTask => pending.snap.req \in Request
    BY DEF TypeOK, ApiTyped, DbTyped, PolTyped, SyncTask, Task, Snapshot
  <2>7. CopiesAreNumbered'
    <3>1. /\ r.gen <= r.gen
          /\ \A t \in syncs' : t \in syncs \/ t.req = r
      BY <1>1, <2>1 DEF Request
    <3> HIDE DEF r
    <3> QED BY <1>1, <2>3, <2>5, <2>6, <3>1
            DEF Kept, CopiesAreNumbered, Numbered, apiVars, polVars
  <2>8. SeenWasReached'
    BY DEF Kept, SeenWasReached, apiVars
  <2> QED BY <1>1, <2>3, <2>4, <2>7, <2>8
          DEF Kept, NoRecordNoWork, ForeignIsRefused, SyncedRequestReachedApiServer
<1> QED BY <1>2, <1>3

\* The first request of a name finds nothing left of an earlier one.
LEMMA CreateKeeps ==
    ASSUME TypeOK, TypeOK', Kept, UNCHANGED <<apiVars, polVars>>,
           NEW content \in [body : Bodies, exec : ExecTypes],
           OnCreateFrameworkRequest(content), reached = {}
    PROVE  Kept'
<1> DEFINE r == [gen |-> 1, body |-> content.body, exec |-> content.exec]
<1>1. row = NoRow /\ syncs' = {[req |-> r, call |-> "patch"]}
  BY DEF OnCreateFrameworkRequest, StartSilentSync, Kept, NoRecordNoWork
<1>2. row'.snap.req = r /\ row'.synced = FALSE
  BY DEF OnCreateFrameworkRequest
<1>3. row' \in Row
  <2>1. [req |-> r, status |-> MockStatus] \in Snapshot /\ MockStatus.phase \in Phases
    BY MockStatusTyped DEF Snapshot, Request, MockStatus, Phases
  <2> QED BY <2>1 DEF OnCreateFrameworkRequest, Row
<1>4. row' # NoRow
  BY <1>3, RowIsARecord
<1>5. \A t \in syncs' : t.req = r
  BY <1>1
<1>6. reached' = {} /\ mocks' = {} /\ running' = NoTask /\ pending' = NoTask
  BY <1>1 DEF Kept, NoRecordNoWork, apiVars, polVars
<1>7. r.gen = 1
  OBVIOUS
<1>8. CopiesAreNumbered'
  <2> HIDE DEF r
  <2> QED BY <1>2, <1>5, <1>6, <1>7 DEF CopiesAreNumbered, Numbered
<1>9. SeenWasReached'
  BY DEF Kept, SeenWasReached, apiVars
<1> QED BY <1>2, <1>4, <1>6, <1>8, <1>9
        DEF Kept, NoRecordNoWork, ForeignIsRefused, SyncedRequestReachedApiServer

LEMMA RestServerKeeps ==
    ASSUME TypeOK, TypeOK', Kept, RestServerNext
    PROVE  Kept'
<1>1. ASSUME NEW s \in Submitters, CheckDuplicate(s) \/ PutFails(s)
      PROVE  Kept'
  <2>1. submit[s] # "refused" /\ UNCHANGED <<dbVars, apiVars, polVars>>
    BY <1>1 DEF CheckDuplicate, PutFails
  <2>2. ForeignIsRefused' /\ SeenWasReached'
    BY <2>1 DEF Kept, ForeignIsRefused, SeenWasReached, dbVars, apiVars
  <2> QED BY <2>1, <2>2, QuietStepKeeps DEF dbVars, apiVars, polVars
<1>2. ASSUME NEW s \in Submitters, NEW body \in Bodies, PutFrameworkRequest(s, body)
      PROVE  Kept'
  <2> DEFINE content == [body |-> body, exec |-> "Start"]
  <2>1. content \in [body : Bodies, exec : ExecTypes]
    BY DEF ExecTypes
  <2>2. UNCHANGED <<apiVars, polVars>> /\ submit[s] # "refused"
    BY <1>2 DEF PutFrameworkRequest
  <2>3. CASE OnCreateFrameworkRequest(content)
    <3>1. reached = {}
      BY <2>2, <2>3 DEF OnCreateFrameworkRequest, Kept, ForeignIsRefused
    <3> QED BY <2>1, <2>2, <2>3, <3>1, CreateKeeps
  <2>4. CASE OnModifyFrameworkRequest(content, MockStatus)
    BY <2>1, <2>2, <2>4, ModifyKeeps, MockStatusTyped
  <2> QED BY <1>2, <2>3, <2>4 DEF PutFrameworkRequest
<1>3. ASSUME NEW exec \in ExecTypes, PatchFrameworkRequest(exec)
      PROVE  Kept'
  <2>1. row \in Row
    BY <1>3 DEF PatchFrameworkRequest, TypeOK, DbTyped
  <2>2. /\ [body |-> row.snap.req.body, exec |-> exec] \in [body : Bodies, exec : ExecTypes]
        /\ row.snap.status \in Status
    BY <2>1 DEF Row, Snapshot, Request
  <2> QED BY <1>3, <2>2, ModifyKeeps DEF PatchFrameworkRequest
<1> QED BY <1>1, <1>2, <1>3 DEF RestServerNext

LEMMA WatcherKeeps ==
    ASSUME TypeOK, TypeOK', Kept, WatcherNext
    PROVE  Kept'
<1> USE DEF TypeOK, ApiTyped
<1>1. ASSUME watch # <<>>
      PROVE  /\ Head(watch) \in Event
             /\ Head(watch).snap.req \in reached
             /\ row # NoRow => Numbered(Head(watch).snap.req)
  BY <1>1 DEF Kept, SeenWasReached, CopiesAreNumbered
<1>2. CASE DeliverEvent
  <2>1. SeenWasReached'
    BY <1>2 DEF DeliverEvent, Kept, SeenWasReached
  <2> QED BY <1>1, <1>2, <2>1, EventKeepsAll
          DEF DeliverEvent, PostWatchEvents, polVars, envVars
<1>3. CASE DeliverEventAgain
  <2>1. SeenWasReached'
    BY <1>3 DEF DeliverEventAgain, apiVars, Kept, SeenWasReached
  <2> QED BY <1>1, <1>3, <2>1, EventKeepsAll
          DEF DeliverEventAgain, PostWatchEvents, apiVars, polVars, envVars
<1>4. CASE RestartWatcher
  <2>1. SeenWasReached'
    BY <1>4 DEF RestartWatcher, Kept, SeenWasReached
  <2>2. ForeignIsRefused'
    BY <1>4 DEF RestartWatcher, dbVars, Kept, ForeignIsRefused
  <2> QED BY <1>4, <2>1, <2>2, QuietStepKeeps DEF RestartWatcher, dbVars, polVars
<1> QED BY <1>2, <1>3, <1>4 DEF WatcherNext

\* What is known of the task that runs.
LEMMA TaskIsNumbered ==
    ASSUME TypeOK, Kept, running # NoTask
    PROVE  /\ row # NoRow
           /\ running.snap.req \in Request
           /\ Numbered(running.snap.req)
BY TaskTyped DEF TypeOK, Kept, NoRecordNoWork, CopiesAreNumbered

LEMMA ReleaseKeeps ==
    ASSUME Kept, row # NoRow, UNCHANGED row, Release
    PROVE  /\ running' # NoTask => Numbered(running'.snap.req)
           /\ pending' # NoTask => Numbered(pending'.snap.req)
BY DEF Kept, CopiesAreNumbered, Numbered, Release

LEMMA PollerTaskKeeps ==
    ASSUME TypeOK, TypeOK', Kept, running # NoTask, UNCHANGED <<dbVars, envVars>>,
           NEW call \in {"create", "mock"},
           \/ Release
           \/ running' = [running EXCEPT !.call = call] /\ UNCHANGED pending,
           \/ ApiPatch(running.snap.req) \/ ApiCreate(running.snap.req)
           \/ ApiDelete \/ UNCHANGED apiVars,
           \A m \in mocks' : m \in mocks \/ m = running.snap
    PROVE  Kept'
<1>1. row # NoRow /\ running.snap.req \in Request /\ Numbered(running.snap.req)
  BY TaskIsNumbered
<1>2. UNCHANGED <<row, syncs>>
  BY DEF dbVars
<1>3. /\ \A t \in syncs' : Numbered(t.req)
      /\ \A m \in mocks' : Numbered(m.req)
  BY <1>1, <1>2 DEF Kept, CopiesAreNumbered, Numbered
<1>4. /\ running' # NoTask => Numbered(running'.snap.req)
      /\ pending' # NoTask => Numbered(pending'.snap.req)
  <2>1. CASE Release
    BY <1>1, <1>2, <2>1, ReleaseKeeps
  <2>2. CASE running' = [running EXCEPT !.call = call] /\ UNCHANGED pending
    <3>1. running'.snap = running.snap
      BY <2>2 DEF TypeOK, PolTyped, Task
    <3> QED BY <1>1, <2>2, <3>1 DEF Kept, CopiesAreNumbered
  <2> QED BY <2>1, <2>2
<1> QED BY <1>1, <1>2, <1>3, <1>4, NumberedCallKeeps

LEMMA PollerKeeps ==
    ASSUME TypeOK, TypeOK', Kept, PollerNext
    PROVE  Kept'
<1>1. CASE Poll
  <2> DEFINE t == [snap |-> row.snap,
                   call |-> IF row.subState = "Completed" THEN "delete" ELSE "patch"]
  <2>1. row # NoRow /\ row.snap.req \in Request /\ UNCHANGED <<dbVars, apiVars, mocks, envVars>>
    BY <1>1 DEF Poll, TypeOK, DbTyped, Row, Snapshot
  <2>2. t.snap = row.snap /\ Numbered(row.snap.req)
    BY <2>1 DEF Numbered, Request
  <2>3. running' \in {running, t} /\ pending' \in {pending, t}
    BY <1>1 DEF Poll
  <2>4. /\ running' # NoTask => Numbered(running'.snap.req)
        /\ pending' # NoTask => Numbered(pending'.snap.req)
    <3> HIDE DEF t
    <3> QED BY <2>1, <2>2, <2>3 DEF Kept, CopiesAreNumbered
  <2>5. /\ \A u \in syncs' : Numbered(u.req)
        /\ \A m \in mocks' : Numbered(m.req)
    BY <2>1 DEF Kept, CopiesAreNumbered, dbVars
  <2>6. UNCHANGED row /\ UNCHANGED apiVars
    BY <2>1 DEF dbVars
  <2> QED BY <2>1, <2>2, <2>4, <2>5, <2>6, NumberedCallKeeps
<1>2. CASE PollerPatch
  BY <1>2, PollerTaskKeeps DEF PollerPatch
<1>3. CASE PollerCreate
  BY <1>3, PollerTaskKeeps DEF PollerCreate
<1>4. CASE PollerRejected
  BY <1>4, PollerTaskKeeps DEF PollerRejected, ApiRejects
<1>5. ASSUME NEW m \in mocks, PostMockedFailure(m)
      PROVE  Kept'
  <2> DEFINE ev == [type |-> "MODIFIED", snap |-> [m EXCEPT !.status = MockFailedStatus]]
  <2>1. m \in Snapshot /\ row # NoRow /\ Numbered(m.req)
    BY <1>5 DEF TypeOK, PolTyped, Kept, NoRecordNoWork, CopiesAreNumbered
  <2>2. [m EXCEPT !.status = MockFailedStatus] \in Snapshot
    BY <2>1, MockStatusTyped DEF Snapshot
  <2>3. ev \in Event
    BY <2>2 DEF Event
  <2>4. ev.snap.req = m.req /\ ev.snap.status.phase = "Completed"
    BY <2>1 DEF Snapshot, MockFailedStatus
  <2>5. PostWatchEvents(ev) /\ UNCHANGED <<apiVars, running, pending, envVars>> /\ mocks' \subseteq mocks
    BY <1>5 DEF PostMockedFailure
  <2>6. SeenWasReached'
    BY <2>5 DEF apiVars, Kept, SeenWasReached
  <2> HIDE DEF ev
  <2> QED BY <2>1, <2>3, <2>4, <2>5, <2>6, EventKeepsAll DEF PostWatchEvents, apiVars, envVars
<1>6. CASE PollerDelete
  BY <1>6, PollerTaskKeeps DEF PollerDelete
<1>7. CASE PostMockedDelete
  <2> DEFINE ev == [type |-> "DELETED", snap |-> running.snap]
  <2>1. running # NoTask /\ PostWatchEvents(ev) /\ UNCHANGED <<apiVars, mocks, envVars>> /\ Release
    BY <1>7 DEF PostMockedDelete
  <2>2. ev \in Event /\ Numbered(ev.snap.req)
    BY <2>1, TaskTyped, TaskIsNumbered DEF TypeOK, Event
  <2>3. ev.type = "DELETED"
    OBVIOUS
  <2>4. SeenWasReached'
    BY <2>1 DEF apiVars, Kept, SeenWasReached
  <2> HIDE DEF ev
  <2> QED BY <2>1, <2>2, <2>3, <2>4, EventKeepsAll DEF PostWatchEvents, Release, apiVars, envVars
<1>8. ASSUME PollerTaskFails \/ RestartPoller
      PROVE  Kept'
  <2>1. UNCHANGED <<dbVars, apiVars, envVars>>
    BY <1>8 DEF PollerTaskFails, RestartPoller
  <2>2. SeenWasReached' /\ ForeignIsRefused'
    BY <2>1 DEF dbVars, apiVars, envVars, Kept, SeenWasReached, ForeignIsRefused
  <2> QED BY <1>8, <2>1, <2>2, QuietStepKeeps
          DEF PollerTaskFails, RestartPoller, Release, dbVars, apiVars
<1> QED BY <1>1, <1>2, <1>3, <1>4, <1>5, <1>6, <1>7, <1>8 DEF PollerNext

LEMMA SetStatusKeeps ==
    ASSUME TypeOK, Kept, api # NoObject, NEW status, SetStatus(status)
    PROVE  Kept'
<1> USE DEF TypeOK, ApiTyped
<1>1. api'.req = api.req
  BY DEF SetStatus, Snapshot
<1>2. ASSUME NEW i \in 1..Len(watch')
      PROVE  watch'[i].snap.req \in reached'
  <2>1. watch'[i] \in {watch[j] : j \in 1..Len(watch)} \union
                     {[type |-> "MODIFIED", snap |-> api']}
    BY <1>2 DEF SetStatus
  <2> QED BY <1>1, <2>1 DEF SetStatus, Kept, SeenWasReached
<1>3. SeenWasReached'
  BY <1>1, <1>2 DEF SetStatus, Kept, SeenWasReached
<1>4. UNCHANGED <<row, syncs, reached, polVars>> /\ ForeignIsRefused'
  BY DEF SetStatus, dbVars, envVars, Kept, ForeignIsRefused
<1> QED BY <1>3, <1>4, QuietStepKeeps DEF polVars

LEMMA ClusterKeeps ==
    ASSUME TypeOK, TypeOK', Kept, ClusterNext
    PROVE  Kept'
<1>1. CASE LaunchAttempt \/ RetryAttempt \/ CompleteFramework
  BY <1>1, SetStatusKeeps DEF LaunchAttempt, RetryAttempt, CompleteFramework
<1>2. CASE DeleteDirectly
  <2>1. SeenWasReached' /\ UNCHANGED reached
    BY <1>2, DeletionKeepsSeen DEF DeleteDirectly, Kept
  <2>2. UNCHANGED <<row, syncs, submit, polVars>>
    BY <1>2 DEF DeleteDirectly, dbVars
  <2>3. ForeignIsRefused'
    BY <2>1, <2>2 DEF Kept, ForeignIsRefused
  <2> QED BY <2>1, <2>2, <2>3, QuietStepKeeps DEF polVars
<1>3. ASSUME NEW body \in Bodies, CreateDirectly(body)
      PROVE  Kept'
  <2> DEFINE r == [gen |-> 1, body |-> body, exec |-> "Start"]
  <2>1. r \in Request
    BY DEF Request, ExecTypes
  <2>2. row = NoRow /\ ApiCreate(r) /\ UNCHANGED <<dbVars, polVars>>
    BY <1>3 DEF CreateDirectly
  <2>3. SeenWasReached'
    BY <2>1, <2>2, ApiCallKeeps DEF Kept
  <2>4. ForeignIsRefused'
    BY <1>3 DEF CreateDirectly, ForeignIsRefused
  <2>5. row' = NoRow /\ NoRecordNoWork'
    BY <2>2 DEF dbVars, polVars, Kept, NoRecordNoWork
  <2> QED BY <2>3, <2>4, <2>5 DEF Kept, CopiesAreNumbered, SyncedRequestReachedApiServer
<1> QED BY <1>1, <1>2, <1>3 DEF ClusterNext

LEMMA StutterKeeps == Kept /\ UNCHANGED vars => Kept'
BY DEF Kept, NoRecordNoWork, ForeignIsRefused, SeenWasReached, CopiesAreNumbered, Numbered,
       SyncedRequestReachedApiServer, vars, dbVars, apiVars, polVars, envVars

LEMMA InitKept == Init => Kept
BY DEF Init, Kept, NoRecordNoWork, ForeignIsRefused, SeenWasReached, CopiesAreNumbered,
       SyncedRequestReachedApiServer

\* The invariant that the theorems below follow from holds, for all values of the constants.
THEOREM Inductive == Spec => []IInv
<1>1. IInv <=> TypeOK /\ Kept
  BY DEF IInv, Kept
<1>2. Init => Kept
  BY InitKept
<1>3. TypeOK /\ TypeOK' /\ Kept /\ [Next]_vars => Kept'
  BY WriteMergerKeeps, RestServerKeeps, WatcherKeeps, PollerKeeps, ClusterKeeps, StutterKeeps
     DEF Next
<1> QED BY <1>1, <1>2, <1>3, TypeCorrect, PTL DEF Spec

\* handler.js, postWatchEvents: the comparison of generation numbers is a
\* comparison of requests, for every message on its way.
THEOREM GenerationsAreNames == Spec => []GenerationIdentifiesRequest
<1>1. IInv => GenerationIdentifiesRequest
  <2> SUFFICES ASSUME IInv, row # NoRow, NEW r \in RequestsOutside
               PROVE  Numbered(r)
    BY DEF GenerationIdentifiesRequest, Numbered
  <2>1. /\ api # NoObject => Numbered(api.req)
        /\ \A i \in DOMAIN watch : Numbered(watch[i].snap.req)
    BY DEF IInv, TypeOK, ApiTyped, SeenWasReached, CopiesAreNumbered
  <2> QED BY <2>1 DEF IInv, CopiesAreNumbered, RequestsOutside
<1> QED BY <1>1, Inductive, PTL

\* requestSynced is true only of a request that the API server has held.
THEOREM SyncedMeansReached == Spec => []SyncedRequestReachedApiServer
<1>1. IInv => SyncedRequestReachedApiServer
  BY DEF IInv
<1> QED BY <1>1, Inductive, PTL

-----------------------------------------------------------------------------
(***************************************************************************)
(* What one step may do to the record, and the two theorems that follow.   *)
(***************************************************************************)
RowStep ==
    \/ UNCHANGED row /\ reached \subseteq reached'
    \/ /\ UNCHANGED reached
       /\ row' \in Row
       /\ \/ row # NoRow /\ row'.snap.req = row.snap.req
          \/ /\ row # NoRow /\ row'.snap.req.gen = row.snap.req.gen + 1
             /\ ~row'.synced
          \/ /\ row = NoRow /\ reached = {} /\ row'.snap.req.gen = 1
             /\ ~row'.synced

LEMMA EventIsRowStep ==
    ASSUME TypeOK, UNCHANGED reached, NEW ev \in Event, PostWatchEvents(ev)
    PROVE  RowStep
<1>1. CASE row = NoRow
  BY <1>1 DEF PostWatchEvents, RowStep
<1>2. CASE row # NoRow
  <2>1. row \in Row /\ row' = MergedRow(ev)
    BY <1>2 DEF PostWatchEvents, TypeOK, DbTyped
  <2>2. row'.snap.req = row.snap.req
    BY <2>1 DEF MergedRow, Row, Event, Snapshot
  <2> QED BY <1>2, <2>1, <2>2, MergedRowTyped DEF RowStep
<1> QED BY <1>1, <1>2

LEMMA ApiCallIsRowStep ==
    ASSUME UNCHANGED row, NEW r,
           ApiPatch(r) \/ ApiCreate(r) \/ ApiDelete \/ UNCHANGED apiVars
    PROVE  RowStep
BY DEF ApiPatch, ApiCreate, ApiDelete, apiVars, RowStep

LEMMA ModifyIsRowStep ==
    ASSUME TypeOK, TypeOK', UNCHANGED reached, NEW content, NEW status,
           \/ OnModifyFrameworkRequest(content, status)
           \/ OnCreateFrameworkRequest(content) /\ reached = {}
    PROVE  RowStep
<1>1. CASE OnModifyFrameworkRequest(content, status)
  <2> DEFINE r == [gen |-> row.snap.req.gen + 1, body |-> content.body, exec |-> content.exec]
  <2>1. row \in Row /\ row # NoRow
    BY <1>1 DEF OnModifyFrameworkRequest, TypeOK, DbTyped
  <2>2. CASE content = Content(row.snap.req)
    BY <1>1, <2>2 DEF OnModifyFrameworkRequest, RowStep
  <2>3. CASE content # Content(row.snap.req)
    <3>1. row' = [row EXCEPT !.snap = [req |-> r, status |-> status], !.synced = FALSE]
      BY <1>1, <2>3 DEF OnModifyFrameworkRequest
    <3>2. row'.snap.req.gen = row.snap.req.gen + 1 /\ row'.synced = FALSE
      BY <2>1, <3>1 DEF Row
    <3>3. row' # NoRow
      BY <2>1, <3>1 DEF Row, NoRow
    <3> QED BY <2>1, <3>2, <3>3 DEF RowStep, TypeOK, DbTyped
  <2> QED BY <2>2, <2>3
<1>2. CASE OnCreateFrameworkRequest(content) /\ reached = {}
  <2>1. row = NoRow /\ row' # NoRow
    BY <1>2 DEF OnCreateFrameworkRequest, NoRow
  <2>2. row'.snap.req.gen = 1 /\ row'.synced = FALSE
    BY <1>2 DEF OnCreateFrameworkRequest
  <2> QED BY <1>2, <2>1, <2>2 DEF RowStep, TypeOK, DbTyped
<1> QED BY <1>1, <1>2

LEMMA EveryStepIsRowStep ==
    ASSUME TypeOK, TypeOK', Kept, [Next]_vars
    PROVE  RowStep
<1>1. CASE WriteMergerNext
  BY <1>1, ApiCallIsRowStep
     DEF WriteMergerNext, SilentPatch, SilentCreate, SilentSyncFails, SilentDelete, RowStep, apiVars
<1>2. CASE RestServerNext
  <2>1. ASSUME NEW s \in Submitters, CheckDuplicate(s) \/ PutFails(s)
        PROVE  RowStep
    BY <2>1 DEF CheckDuplicate, PutFails, dbVars, apiVars, RowStep
  <2>2. ASSUME NEW s \in Submitters, NEW body \in Bodies, PutFrameworkRequest(s, body)
        PROVE  RowStep
    <3>1. submit[s] # "refused" /\ UNCHANGED reached
      BY <2>2 DEF PutFrameworkRequest, apiVars
    <3>2. row = NoRow => reached = {}
      BY <3>1 DEF Kept, ForeignIsRefused
    <3> QED BY <2>2, <3>1, <3>2, ModifyIsRowStep
            DEF PutFrameworkRequest, OnCreateFrameworkRequest
  <2>3. ASSUME NEW exec \in ExecTypes, PatchFrameworkRequest(exec)
        PROVE  RowStep
    BY <2>3, ModifyIsRowStep DEF PatchFrameworkRequest, apiVars
  <2> QED BY <1>2, <2>1, <2>2, <2>3 DEF RestServerNext
<1>3. CASE WatcherNext
  <2>1. watch # <<>> => Head(watch) \in Event
    BY DEF TypeOK, ApiTyped
  <2> QED BY <1>3, <2>1, EventIsRowStep
          DEF WatcherNext, DeliverEvent, DeliverEventAgain, RestartWatcher, dbVars, apiVars, RowStep
<1>4. CASE PollerNext
  <2>1. CASE Poll \/ PollerPatch \/ PollerCreate \/ PollerRejected \/ PollerDelete
             \/ PollerTaskFails \/ RestartPoller
    BY <2>1, ApiCallIsRowStep
       DEF Poll, PollerPatch, PollerCreate, PollerRejected, ApiRejects, PollerDelete,
           PollerTaskFails, RestartPoller, dbVars
  <2>2. ASSUME NEW m \in mocks, PostMockedFailure(m)
        PROVE  RowStep
    <3>1. [m EXCEPT !.status = MockFailedStatus] \in Snapshot
      BY MockStatusTyped DEF TypeOK, PolTyped, Snapshot
    <3>2. [type |-> "MODIFIED", snap |-> [m EXCEPT !.status = MockFailedStatus]] \in Event
      BY <3>1 DEF Event
    <3> QED BY <2>2, <3>2, EventIsRowStep DEF PostMockedFailure, apiVars
  <2>3. CASE PostMockedDelete
    <3>1. [type |-> "DELETED", snap |-> running.snap] \in Event
      BY <2>3, TaskTyped DEF PostMockedDelete, TypeOK, Event
    <3> QED BY <2>3, <3>1, EventIsRowStep DEF PostMockedDelete, apiVars
  <2> QED BY <1>4, <2>1, <2>2, <2>3 DEF PollerNext
<1>5. CASE ClusterNext
  BY <1>5, ApiCallIsRowStep
     DEF ClusterNext, LaunchAttempt, RetryAttempt, CompleteFramework, SetStatus,
         DeleteDirectly, CreateDirectly, dbVars, RowStep
<1>6. CASE UNCHANGED vars
  BY <1>6 DEF vars, dbVars, apiVars, RowStep
<1> QED BY <1>1, <1>2, <1>3, <1>4, <1>5, <1>6 DEF Next

\* database_controller.md: records are the ground truth.  No event, however old
\* or often repeated, takes a request back, and generations are consecutive.
THEOREM NeverRolledBack == Spec => RequestNeverRolledBack
<1>1. IInv /\ IInv' /\ [Next]_vars =>
        [row # NoRow =>
            /\ row' # NoRow
            /\ \/ row'.snap.req = row.snap.req
               \/ row'.snap.req.gen = row.snap.req.gen + 1]_vars
  <2> SUFFICES ASSUME IInv, IInv', [Next]_vars, row # NoRow
               PROVE  /\ row' # NoRow
                      /\ \/ row'.snap.req = row.snap.req
                         \/ row'.snap.req.gen = row.snap.req.gen + 1
    OBVIOUS
  <2>1. RowStep
    BY EveryStepIsRowStep DEF IInv, Kept
  <2> QED BY <2>1, RowIsARecord DEF RowStep
<1> QED BY <1>1, Inductive, PTL DEF Spec, RequestNeverRolledBack

\* The controller implements RequestSync.
THEOREM ImplementsRequestSync == Spec => KeepsPromise
<1>1. Init => Promise!Init
  BY DEF Init, Promise!Init, Wanted, Held, Acked
<1>2. IInv /\ IInv' /\ [Next]_vars => [Promise!Next]_(Promise!vars)
  <2> SUFFICES ASSUME IInv, IInv', [Next]_vars
               PROVE  [Promise!Next]_(Promise!vars)
    OBVIOUS
  <2>1. RowStep
    BY EveryStepIsRowStep DEF IInv, Kept
  <2>2. CASE UNCHANGED row /\ reached \subseteq reached' /\ row # NoRow
    <3>1. Wanted' = Wanted /\ Acked' = Acked /\ Held' = reached' /\ Held = reached
      BY <2>2 DEF Wanted, Held, Acked
    <3>2. Wanted # NoRow
      BY <2>2 DEF Wanted, IInv, TypeOK, DbTyped, Row, Snapshot, Request, NoRow
    <3>3. ASSUME NEW r \in reached'
          PROVE  /\ r \in Request
                 /\ r.gen <= Wanted.gen
                 /\ r.gen = Wanted.gen => r = Wanted
      BY <2>2, <3>3 DEF IInv, TypeOK, ApiTyped, CopiesAreNumbered, Numbered, Wanted
    <3> QED BY <2>2, <3>1, <3>2, <3>3 DEF Promise!Next, Promise!Reach
  <2>3. CASE UNCHANGED row /\ row = NoRow
    BY <2>3 DEF Wanted, Held, Acked, Promise!vars
  <2>4. ASSUME row' \in Row, row # NoRow
        PROVE  /\ row' # NoRow
               /\ Wanted' = row'.snap.req /\ Wanted' \in Request
               /\ Wanted = row.snap.req /\ Wanted # NoRow
    <3>1. row' # NoRow
      BY <2>4, RowIsARecord
    <3>2. row.snap.req \in Request /\ row'.snap.req \in Request
      BY <2>4 DEF IInv, TypeOK, DbTyped, Row, Snapshot
    <3> QED BY <2>4, <3>1, <3>2 DEF Wanted, Request, NoRow
  <2>5. CASE /\ UNCHANGED reached /\ row' \in Row
             /\ row # NoRow /\ row'.snap.req = row.snap.req
    <3>1. Wanted' = Wanted /\ Held' = Held
      BY <2>4, <2>5 DEF Held
    <3>2. Acked' => Wanted \in Held
      BY <2>4, <2>5 DEF Acked, Held, IInv, SyncedRequestReachedApiServer
    <3>3. Acked' \in BOOLEAN
      BY DEF Acked
    <3> QED BY <3>1, <3>2, <3>3
            DEF Promise!Next, Promise!Acknowledge, Promise!Withdraw
  <2>6. CASE /\ UNCHANGED reached /\ row' \in Row /\ ~row'.synced
             /\ row # NoRow /\ row'.snap.req.gen = row.snap.req.gen + 1
    <3>1. Held' = Held /\ Acked' = FALSE
      BY <2>4, <2>6 DEF Held, Acked
    <3> QED BY <2>4, <2>6, <3>1 DEF Promise!Next, Promise!Change
  <2>7. CASE /\ UNCHANGED reached /\ row' \in Row /\ ~row'.synced
             /\ row = NoRow /\ reached = {} /\ row'.snap.req.gen = 1
    <3>1. row' # NoRow
      BY <2>7, RowIsARecord
    <3>2. Wanted = NoRow /\ Wanted' = row'.snap.req /\ Wanted' \in Request
      BY <2>7, <3>1 DEF Wanted, Row, Snapshot
    <3>3. Held' = Held /\ Acked' = FALSE
      BY <2>7, <3>1 DEF Held, Acked
    <3> QED BY <2>7, <3>2, <3>3 DEF Promise!Next, Promise!Submit
  <2> QED BY <2>1, <2>2, <2>3, <2>5, <2>6, <2>7 DEF RowStep
<1> QED BY <1>1, <1>2, Inductive, PTL DEF Spec, KeepsPromise, Promise!Spec
=============================================================================
