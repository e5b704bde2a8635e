------------------------- MODULE UserGroups_proofs --------------------------
(***************************************************************************)
(* Proofs about the references of users to groups: a start-up that no      *)
(* request overlaps repairs them all, and the deletion of a group that no  *)
(* request overlaps leaves none behind.                                    *)
(***************************************************************************)
EXTENDS UserAccounts_proofs

-----------------------------------------------------------------------------
(***************************************************************************)
(* The inductive invariant, first part: the start-up.                      *)
(***************************************************************************)
\* The process is starting, and no request has run since.
Starting == Running(Boot) /\ ~mixed

\* So none is running.
StartsAlone == Starting => \A c \in Calls : ~Running(c)

\* What the start-up reads is what the secrets hold: of the groups, whether they exist;
\* of the users, all that it is not about to change.
StartUpReads ==
    Starting /\ ~At("exit") =>
        /\ At("config") => groupList = NoList
        /\ call[Boot].pc \in {"config", "vcs", "admin", "sync"} => userList = NoList
        /\ groupList # NoList => \A g \in Groups : groupList[g] = NoGroup <=> groupSecret[g] = NoGroup
        /\ \A g \in Groups : groupCache[g] # NoGroup => groupSecret[g] # NoGroup
        /\ userList # NoList => \A u \in Users :
               \/ userList[u] = userSecret[u] \/ u \in call[Boot].drops
               \/ \E p \in call[Boot].puts : p.user = u

\* At the end of the start-up, whoever refers to a group that is gone is being saved
\* without it.
RepairUnderWay ==
    Starting /\ ~OIDC /\ At("save") =>
        /\ \A p \in call[Boot].puts : \A g \in p.value.groups : groupSecret[g] # NoGroup
        /\ \A u \in Users : Dangling(u) # {} => \E p \in call[Boot].puts : p.user = u

(***************************************************************************)
(* Second part: the requests.                                              *)
(***************************************************************************)
\* The start-up is over and has overlapped no request; users come from this API only.
Serving == ~Running(Boot) /\ ~mixed /\ ~OIDC

\* The group is being deleted.
Deleting(g) == \E c \in Calls : Running(c) /\ Deletes(c) /\ request[c].group = g

\* Users may refer to the group: it exists, or its deletion is not over, or has
\* overlapped another request or failed.
Live == {g \in Groups : \/ groupSecret[g] # NoGroup \/ Deleting(g)
                        \/ g \in orphans \union {AdminGroup, DefaultGroup}}

\* A deletion that no other request has overlapped.
Lone(c) == Running(c) /\ Deletes(c) /\ request[c].group \notin orphans

\* While it runs, no other request does.
LoneDeletion == \A c \in Calls : Lone(c) => \A d \in Calls \ {c} : ~Running(d)

\* Somewhere the user has this set of groups: in the secret, the caches, an object that
\* a call holds or a PUT that is under way.
HasGroups(u, gs) ==
    \/ userSecret[u] # NoUser /\ gs = userSecret[u].groups
    \/ userCache[u] # NoRef /\ gs = objects[userCache[u]].groups
    \/ userList # NoList /\ userList[u] # NoUser /\ gs = userList[u].groups
    \/ \E c \in Calls : call[c].ref # NoRef /\ request[c].user = u /\ gs = objects[call[c].ref].groups
    \/ \E c \in Calls : \E p \in call[c].puts : p.user = u /\ gs = p.value.groups

\* Wherever that is, they may be referred to.
RefersToLive == \A u \in Users \ tainted, gs \in SUBSET Groups : HasGroups(u, gs) => gs \subseteq Live

\* So may the groups that a handler has checked and not yet given to the user.
ChecksHold ==
    \A c \in Calls :
        /\ request[c].op = "addGroup" /\ call[c].pc \in {"checked", "have"} => request[c].group \in Live
        /\ request[c].op \in {"setVCs", "create"} /\ call[c].pc \in {"checked", "have", "allowed"}
               => request[c].vcs \subseteq Live

\* And those that are cached.
CachedAreLive ==
    \A g \in Groups : groupCache[g] # NoGroup \/ (groupList # NoList /\ groupList[g] # NoGroup) => g \in Live

\* Calls that share an object serve the same user.
SharersAgree ==
    \A c, d \in Calls : call[c].ref = call[d].ref /\ call[c].ref # NoRef => request[c].user = request[d].user

\* After a lone deletion has removed the group, the group is in no cache; once the members
\* are being saved, whoever still refers to the group is among them.
Forgotten(c) ==
    LET g == request[c].group IN
    /\ call[c].pc \in {"members", "save", "failed"} =>
           groupCache[g] = NoGroup /\ (groupList # NoList => groupList[g] = NoGroup)
    /\ call[c].pc \in {"save", "failed"} =>
           /\ \A p \in call[c].puts : g \notin p.value.groups
           /\ \A u \in Users \ tainted :
                  /\ userSecret[u] # NoUser /\ g \in userSecret[u].groups
                         => \E p \in call[c].puts : p.user = u
                  /\ userCache[u] # NoRef /\ g \in objects[userCache[u]].groups
                         => u \in call[c].drops \/ \E p \in call[c].puts : p.user = u
                  /\ userList # NoList /\ userList[u] # NoUser => g \notin userList[u].groups

\* The invariant of the requests.
ServingInv ==
    /\ RefersToLive /\ ChecksHold /\ CachedAreLive /\ SharersAgree
    /\ \A c \in Calls : Lone(c) => Forgotten(c)

\* The inductive invariant.
ReferenceInv ==
    /\ StartsAlone /\ StartUpReads /\ RepairUnderWay
    /\ LoneDeletion
    /\ Serving => ServingInv

-----------------------------------------------------------------------------
(***************************************************************************)
(* The steps of the start-up.                                              *)
(***************************************************************************)
\* The parts of the invariant that are about the start-up.
StartInv == StartsAlone /\ StartUpReads /\ RepairUnderWay

\* A step of the start-up is not the first step of a request.
LEMMA BootRecords ==
    ASSUME AccountInv, NEW names, NEW deleted, Record(Boot, names, deleted)
    PROVE  mixed' = mixed
<1>1. call[Boot].pc # "new" /\ mixed \in BOOLEAN
  BY DEF AccountInv, AccountsTyped, PlacesAreRight, BootPlaces
<1> QED
  BY <1>1 DEF Record

\* What a step of the start-up has to establish.
LEMMA StartUpStep ==
    ASSUME AccountInv, StartInv, NEW pc, NEW ref, NEW puts, NEW drops,
           Moves(Boot, pc, ref, puts, drops), call[Boot].pc \notin {"new", "end", "up"},
           UNCHANGED <<request, mixed>>,
           ~mixed /\ pc \notin {"exit", "up"} =>
               /\ pc = "config" => groupList' = NoList
               /\ pc \in {"config", "vcs", "admin", "sync"} => userList' = NoList
               /\ groupList' # NoList =>
                      \A g \in Groups : groupList'[g] = NoGroup <=> groupSecret'[g] = NoGroup
               /\ \A g \in Groups : groupCache'[g] # NoGroup => groupSecret'[g] # NoGroup
               /\ userList' # NoList => \A u \in Users :
                      \/ userList'[u] = userSecret'[u] \/ u \in drops \/ \E p \in puts : p.user = u,
           ~mixed /\ ~OIDC /\ pc = "save" =>
               /\ \A p \in puts : \A g \in p.value.groups : groupSecret'[g] # NoGroup
               /\ \A u \in Users : Dangling(u)' # {} => \E p \in puts : p.user = u
    PROVE  StartInv'
<1>1. /\ call'[Boot].pc = pc /\ call'[Boot].puts = puts /\ call'[Boot].drops = drops
      /\ \A c \in Calls : call'[c] = call[c]
  BY BootReady DEF Moves, Everyone
<1>2. Starting' => Starting /\ ~mixed /\ pc # "up"
  BY <1>1 DEF Starting, Running
<1>3. StartsAlone'
  BY <1>1, <1>2 DEF StartInv, StartsAlone, Running
<1>4. StartUpReads'
  BY <1>1, <1>2 DEF StartUpReads, At
<1>5. OIDC' <=> OIDC
  BY DEF OIDC
<1>6. RepairUnderWay'
  BY <1>1, <1>2, <1>5 DEF RepairUnderWay, At
<1> QED
  BY <1>3, <1>4, <1>6 DEF StartInv

\* What is known before a step of a start-up that no request has overlapped.
LEMMA StartUpKnows ==
    ASSUME AccountInv, StartInv, ~mixed, call[Boot].pc \notin {"new", "end", "up", "exit"}
    PROVE  /\ \A g \in Groups : AllGroups[g] = NoGroup <=> groupSecret[g] = NoGroup
           /\ \A g \in Groups : GroupView(g) # NoGroup => groupSecret[g] # NoGroup
           /\ call[Boot].pc \in {"config", "vcs", "admin", "sync"} => userList = NoList
           /\ call[Boot].pc = "config" => groupList = NoList
           /\ call[Boot].pc \notin {"purge", "save"} => call[Boot].puts = {} /\ call[Boot].drops = {}
           /\ \A u \in Users : \/ AllUsers[u] = userSecret[u] \/ u \in call[Boot].drops
                               \/ \E p \in call[Boot].puts : p.user = u
<1>1. Starting /\ ~At("exit")
  BY DEF Starting, Running, At
<1>2. call[Boot].pc \notin {"purge", "save"} => call[Boot].puts = {} /\ call[Boot].drops = {}
  BY DEF AccountInv, PlacesAreRight
<1> QED
  BY <1>1, <1>2 DEF StartInv, StartUpReads, AllGroups, GroupView, AllUsers, At

\* A missing group is created; its creation may have been lost, or the start-up ends.
LEMMA CreateMissingStarts ==
    ASSUME AccountInv, StartInv, request \in Scripts, NEW outcome \in Outcomes, NEW g \in Groups,
           CreateMissing(g, outcome), NEW pc, Enter(pc),
           \/ At("config") /\ pc \in {"config", "vcs"}
           \/ At("sync") /\ pc = (IF outcome = "ok" THEN "sync" ELSE "exit")
    PROVE  StartInv'
<1>1. /\ groupSecret' \in {groupSecret, [groupSecret EXCEPT ![g] = ConfiguredGroup(g)]}
      /\ groupList' = IF outcome = "ok" THEN NoList ELSE groupList
      /\ UNCHANGED <<userSecret, userList, groupCache, request, mixed>>
  BY BootRecords DEF CreateMissing, WriteGroup, Taint, users
<1>2. /\ Moves(Boot, pc, call[Boot].ref, call[Boot].puts, call[Boot].drops)
      /\ call[Boot].pc \notin {"new", "end", "up", "exit", "save", "purge"} /\ pc # "save"
  BY EnterMoves DEF At, BootPlaces
<1>3. ConfiguredGroup(g) # NoGroup
  <2>1. ConfiguredGroup(g) \in Group
    BY AccountsAssumption DEF ConfiguredGroup, VCGroup, Group
  <2> QED
    BY <2>1, NothingIsNoGroup
<1>4. \A h \in Groups : groupSecret[h] # NoGroup => groupSecret'[h] # NoGroup
  BY <1>1, <1>3 DEF AccountInv, AccountsTyped
<1>5. ~mixed /\ pc # "exit" =>
          /\ groupList' = NoList /\ userList' = NoList
          /\ \A h \in Groups : groupCache'[h] # NoGroup => groupSecret'[h] # NoGroup
  <2> SUFFICES ASSUME ~mixed, pc # "exit"
               PROVE  /\ groupList' = NoList /\ userList' = NoList
                      /\ \A h \in Groups : groupCache'[h] # NoGroup => groupSecret'[h] # NoGroup
    OBVIOUS
  <2>1. userList = NoList /\ (At("config") => groupList = NoList)
    BY <1>2, StartUpKnows DEF At
  <2>2. \A h \in Groups : groupCache[h] # NoGroup => groupSecret[h] # NoGroup
    BY <1>2, StartUpKnows DEF GroupView
  <2> QED
    BY <1>1, <1>4, <2>1, <2>2
<1> QED
  BY <1>1, <1>2, <1>5, StartUpStep

\* The start-up has read groups, and goes on.
LEMMA StartUpFinds ==
    ASSUME AccountInv, StartInv, NEW pc \in BootPlaces, Enter(pc), GroupStep,
           call[Boot].pc \notin {"new", "end", "up", "exit", "save"},
           call[Boot].puts = {}, call[Boot].drops = {},
           UNCHANGED <<userSecret, userList, request, mixed>>,
           pc \in {"config", "vcs", "admin", "sync"} => call[Boot].pc \in {"config", "vcs", "admin", "sync"},
           pc \notin {"config", "save"}
    PROVE  StartInv'
<1>1. Moves(Boot, pc, call[Boot].ref, {}, {}) /\ call[Boot].pc \notin {"new", "end", "up", "exit"}
  BY EnterMoves
<1>2. ~mixed =>
          /\ groupList' # NoList =>
                 \A g \in Groups : groupList'[g] = NoGroup <=> groupSecret'[g] = NoGroup
          /\ \A g \in Groups : groupCache'[g] # NoGroup => groupSecret'[g] # NoGroup
          /\ call[Boot].pc \in {"config", "vcs", "admin", "sync"} => userList' = NoList
          /\ userList' # NoList => \A u \in Users : userList'[u] = userSecret'[u]
  <2> SUFFICES ASSUME ~mixed
               PROVE  /\ groupList' # NoList =>
                             \A g \in Groups : groupList'[g] = NoGroup <=> groupSecret'[g] = NoGroup
                      /\ \A g \in Groups : groupCache'[g] # NoGroup => groupSecret'[g] # NoGroup
                      /\ call[Boot].pc \in {"config", "vcs", "admin", "sync"} => userList' = NoList
                      /\ userList' # NoList => \A u \in Users : userList'[u] = userSecret'[u]
    OBVIOUS
  <2>1. /\ \A g \in Groups : AllGroups[g] = NoGroup <=> groupSecret[g] = NoGroup
        /\ \A g \in Groups : GroupView(g) # NoGroup => groupSecret[g] # NoGroup
        /\ call[Boot].pc \in {"config", "vcs", "admin", "sync"} => userList = NoList
        /\ \A u \in Users : AllUsers[u] = userSecret[u]
    BY <1>1, StartUpKnows
  <2>2. groupList' # NoList =>
            \A g \in Groups : groupList'[g] = NoGroup <=> groupSecret'[g] = NoGroup
    BY <2>1 DEF GroupStep, AllGroups
  <2>3. \A g \in Groups : groupCache'[g] # NoGroup => groupSecret'[g] # NoGroup
    BY <2>1 DEF GroupStep, GroupView
  <2> QED
    BY <2>1, <2>2, <2>3 DEF AllUsers
<1> QED
  BY <1>1, <1>2, StartUpStep

\* The groups of the configuration.
LEMMA InitGrouplistInCfgStarts ==
    ASSUME AccountInv, StartInv, request \in Scripts, NEW outcome \in Outcomes,
           InitGrouplistInCfg(outcome)
    PROVE  StartInv'
<1>1. /\ At("config")
      /\ \/ \E g \in {AdminGroup, DefaultGroup}, pc \in {"config", "vcs"} :
                CreateMissing(g, outcome) /\ Enter(pc)
         \/ /\ ReadGroups({AdminGroup, DefaultGroup}) /\ Enter("vcs")
            /\ UNCHANGED <<users, request, history>>
  BY DEF InitGrouplistInCfg, After
<1>2. {AdminGroup, DefaultGroup} \subseteq Groups
  BY AccountsAssumption
<1>3. call[Boot].puts = {} /\ call[Boot].drops = {} /\ AccountsTyped
  BY <1>1 DEF AccountInv, At, PlacesAreRight
<1>4. CASE \E g \in {AdminGroup, DefaultGroup}, pc \in {"config", "vcs"} :
               CreateMissing(g, outcome) /\ Enter(pc)
  BY <1>1, <1>2, <1>4, CreateMissingStarts
<1>5. CASE /\ ReadGroups({AdminGroup, DefaultGroup}) /\ Enter("vcs")
           /\ UNCHANGED <<users, request, history>>
  <2>1. GroupStep /\ UNCHANGED <<groupList, userSecret, userList, request, mixed>>
    BY <1>3, <1>5, GroupReads DEF ReadGroups, users, history
  <2>2. At("config") /\ call[Boot].pc = "config" /\ "vcs" \in BootPlaces /\ Enter("vcs")
    BY <1>1, <1>5 DEF At, BootPlaces
  <2> QED
    BY <1>3, <2>1, <2>2, StartUpFinds
<1> QED
  BY <1>1, <1>4, <1>5

\* The groups of the virtual clusters.
LEMMA CreateVCGroupsStarts ==
    ASSUME AccountInv, StartInv, request \in Scripts, NEW outcome \in Outcomes, CreateVCGroups(outcome)
    PROVE  StartInv'
<1>1. /\ At("sync")
      /\ \/ \E g \in VCs : /\ CreateMissing(g, outcome)
                           /\ Enter(IF outcome = "ok" THEN "sync" ELSE "exit")
         \/ ReadGroups(VCs) /\ Enter("purge") /\ UNCHANGED <<users, request, history>>
  BY DEF CreateVCGroups, After
<1>2. VCs \subseteq Groups
  BY AccountsAssumption
<1>3. call[Boot].puts = {} /\ call[Boot].drops = {} /\ AccountsTyped
  BY <1>1 DEF AccountInv, At, PlacesAreRight
<1>4. CASE \E g \in VCs : /\ CreateMissing(g, outcome)
                          /\ Enter(IF outcome = "ok" THEN "sync" ELSE "exit")
  BY <1>1, <1>2, <1>4, CreateMissingStarts
<1>5. CASE ReadGroups(VCs) /\ Enter("purge") /\ UNCHANGED <<users, request, history>>
  <2>1. GroupStep /\ UNCHANGED <<userSecret, userList, request, mixed>>
    BY <1>3, <1>5, GroupReads DEF users, history
  <2>2. call[Boot].pc = "sync" /\ "purge" \in BootPlaces /\ Enter("purge")
    BY <1>1, <1>5 DEF At, BootPlaces
  <2> QED
    BY <1>3, <2>1, <2>2, StartUpFinds
<1> QED
  BY <1>1, <1>4, <1>5

\* Groups lose the virtual clusters that do not exist; none appears or disappears.
LEMMA DeleteNonexistVCsStarts ==
    ASSUME AccountInv, StartInv, request \in Scripts, NEW outcome \in Outcomes, DeleteNonexistVCs(outcome)
    PROVE  StartInv'
<1> DEFINE Checked(g) == [AllGroups[g] EXCEPT !.vcs = @ \intersect VCs]
           Done(g) == outcome = "ok" /\ groupSecret[g] # NoGroup
           Corrects(g) ==
               /\ Known(g)
               /\ IF groupSecret[g] # NoGroup THEN WriteGroup(g, Checked(g), outcome)
                                              ELSE UNCHANGED groupSecret
               /\ groupCache' = IF Done(g) THEN [groupCache EXCEPT ![g] = NoGroup] ELSE groupCache
               /\ groupList' = IF Done(g) THEN NoList ELSE [AllGroups EXCEPT ![g] = Checked(g)]
               /\ Enter(IF Done(g) THEN "vcs" ELSE AfterVCs)
               /\ Taint(Boot, IF outcome = "ok" THEN {} ELSE {g})
<1>1. /\ At("vcs") /\ UNCHANGED <<users, request>>
      /\ \/ \E g \in Groups : Corrects(g)
         \/ ReadAllGroups /\ Enter(AfterVCs) /\ UNCHANGED history
  BY DEF DeleteNonexistVCs
<1>2. /\ AccountsTyped /\ RefsAreOwn /\ call[Boot].pc = "vcs" /\ "vcs" \in BootPlaces
      /\ call[Boot].puts = {} /\ call[Boot].drops = {} /\ AfterVCs \in BootPlaces
  BY <1>1, BootReady DEF At, PlacesAreRight, AfterVCs, BootPlaces
<1>3. PICK pc \in {"vcs", "save", "admin"} : Enter(pc) /\ (~OIDC => pc # "save")
  BY <1>1 DEF AfterVCs
<1>4. Moves(Boot, pc, call[Boot].ref, {}, {})
  BY <1>2, <1>3, EnterMoves DEF BootPlaces
<1>5. UNCHANGED <<request, mixed, userSecret, userList>>
  BY <1>1, BootRecords DEF users, history, Taint
<1>6. ASSUME ~mixed
      PROVE  /\ userList' = NoList
             /\ groupList' # NoList =>
                    \A h \in Groups : groupList'[h] = NoGroup <=> groupSecret'[h] = NoGroup
             /\ \A h \in Groups : groupCache'[h] # NoGroup => groupSecret'[h] # NoGroup
  <2>1. /\ \A h \in Groups : AllGroups[h] = NoGroup <=> groupSecret[h] = NoGroup
        /\ \A h \in Groups : GroupView(h) # NoGroup => groupSecret[h] # NoGroup
        /\ userList = NoList
    BY <1>2, <1>6, StartUpKnows
  <2>2. \A h \in Groups : groupCache[h] # NoGroup => groupSecret[h] # NoGroup
    BY <2>1 DEF GroupView
  <2>3. ASSUME NEW g \in Groups, Corrects(g)
        PROVE  /\ groupList' # NoList =>
                      \A h \in Groups : groupList'[h] = NoGroup <=> groupSecret'[h] = NoGroup
               /\ \A h \in Groups : groupCache'[h] # NoGroup => groupSecret'[h] # NoGroup
    <3>1. AllGroups \in [Groups -> Group \union {NoGroup}] /\ AllGroups[g] \in Group
      BY <1>2, <2>3, ViewsAreTyped DEF Known
    <3>2. Checked(g) \in Group
      BY <3>1 DEF Group
    <3> HIDE DEF Checked
    <3>3. Checked(g) # NoGroup /\ groupSecret[g] # NoGroup
      BY <2>1, <2>3, <3>2, NothingIsNoGroup DEF Known
    <3>4. \A h \in Groups : groupSecret'[h] = NoGroup <=> groupSecret[h] = NoGroup
      BY <1>2, <2>3, <3>3 DEF WriteGroup, AccountsTyped
    <3>5. groupList' # NoList => groupList' = [AllGroups EXCEPT ![g] = Checked(g)]
      BY <2>3
    <3>6. \A h \in Groups : groupCache'[h] # NoGroup => groupCache[h] # NoGroup
      BY <1>2, <2>3 DEF AccountsTyped
    <3> QED
      BY <2>1, <2>2, <3>1, <3>3, <3>4, <3>5, <3>6
  <2>4. CASE ReadAllGroups
    <3>1. groupList' = AllGroups /\ groupSecret' = groupSecret /\ groupCache' = groupCache
      BY <2>4 DEF ReadAllGroups
    <3> QED
      BY <1>5, <2>1, <2>2, <3>1
  <2> QED
    BY <1>1, <1>5, <2>1, <2>3, <2>4
<1> QED
  BY <1>2, <1>3, <1>4, <1>5, <1>6, StartUpStep

\* The administrator is created unless it exists; the list of the users is not read yet.
LEMMA CreateDefaultAdminUserStarts ==
    ASSUME AccountInv, StartInv, request \in Scripts, NEW outcome \in Outcomes,
           CreateDefaultAdminUser(outcome)
    PROVE  StartInv'
<1>1. /\ At("admin") /\ Enter("sync") /\ userList' \in {userList, NoList}
      /\ UNCHANGED <<groupSecret, groupCache, groupList, request>>
  BY DEF CreateDefaultAdminUser, groups
<1>2. UNCHANGED mixed
  BY BootRecords DEF CreateDefaultAdminUser, Taint
<1>3. /\ call[Boot].pc = "admin" /\ "sync" \in BootPlaces
      /\ call[Boot].puts = {} /\ call[Boot].drops = {}
  BY <1>1, BootReady DEF At, PlacesAreRight, BootPlaces
<1>4. Moves(Boot, "sync", call[Boot].ref, {}, {})
  BY <1>1, <1>3, EnterMoves
<1>5. ASSUME ~mixed
      PROVE  /\ userList' = NoList
             /\ groupList' # NoList =>
                    \A h \in Groups : groupList'[h] = NoGroup <=> groupSecret'[h] = NoGroup
             /\ \A h \in Groups : groupCache'[h] # NoGroup => groupSecret'[h] # NoGroup
  <2>1. /\ \A h \in Groups : AllGroups[h] = NoGroup <=> groupSecret[h] = NoGroup
        /\ \A h \in Groups : GroupView(h) # NoGroup => groupSecret[h] # NoGroup
        /\ userList = NoList
    BY <1>3, <1>5, StartUpKnows
  <2> QED
    BY <1>1, <2>1 DEF AllGroups, GroupView
<1> QED
  BY <1>1, <1>2, <1>3, <1>4, <1>5, StartUpStep

\* Each of the users that lose groups has its PUT.
LEMMA PutsAreOf ==
    ASSUME NEW us, NEW gs
    PROVE  /\ \A u \in us : \E p \in PutsOf(us, gs) : p.user = u
           /\ \A p \in PutsOf(us, gs) : \E u \in us : p.user = u /\ p.value = Without(u, gs)
<1>1. ASSUME NEW u \in us
      PROVE  \E p \in PutsOf(us, gs) : p.user = u
  <2>1. [user |-> u, value |-> Without(u, gs)] \in PutsOf(us, gs)
    BY DEF PutsOf
  <2> QED
    BY <2>1
<1>2. ASSUME NEW p \in PutsOf(us, gs)
      PROVE  \E u \in us : p.user = u /\ p.value = Without(u, gs)
  <2>1. PICK u \in us : p = [user |-> u, value |-> Without(u, gs)]
    BY DEF PutsOf
  <2> QED
    BY <2>1
<1> QED
  BY <1>1, <1>2

\* What the list holds after users have lost groups: what the secrets hold, unless the
\* user is being saved.
LEMMA SaveWithoutReads ==
    ASSUME AccountInv, StartInv, ~mixed, call[Boot].pc \in {"purge", "repair"},
           NEW us \in SUBSET Users, NEW gs, NEW pc \in Places,
           \A u \in us : AllUsers[u] # NoUser, SaveWithout(Boot, us, gs, pc), UNCHANGED userSecret
    PROVE  \A u \in Users :
               \/ userList'[u] = userSecret'[u] \/ u \in call[Boot].drops
               \/ \E p \in call[Boot].puts \union PutsOf(us, gs) : p.user = u
<1>1. \A u \in Users \ us : userList'[u] = AllUsers[u]
  BY BootReady, SaveWithoutMoves
<1>2. \A u \in Users : \/ AllUsers[u] = userSecret[u] \/ u \in call[Boot].drops
                       \/ \E p \in call[Boot].puts : p.user = u
  BY StartUpKnows
<1>3. \A u \in us : \E p \in PutsOf(us, gs) : p.user = u
  BY PutsAreOf
<1> QED
  BY <1>1, <1>2, <1>3

\* Groups without a virtual cluster are deleted, and their members saved without them.
LEMMA PurgeGroupsStarts ==
    ASSUME AccountInv, StartInv, request \in Scripts, NEW outcome \in Outcomes, PurgeGroups(outcome)
    PROVE  StartInv'
<1>1. /\ At("purge") /\ UNCHANGED <<userSecret, objects, userCache, request, history>>
      /\ \/ \E g \in Groups :
                /\ WriteGroup(g, NoGroup, outcome)
                /\ \/ /\ outcome = "ok" /\ groupCache' = [groupCache EXCEPT ![g] = NoGroup]
                      /\ groupList' = NoList /\ SaveWithout(Boot, Members(g), {g}, "purge")
                   \/ UNCHANGED <<groupCache, groupList, userList>> /\ Enter("exit")
         \/ /\ call[Boot].puts = {} /\ call[Boot].drops = {} /\ ReadAllGroups
            /\ Enter("repair") /\ UNCHANGED userList
  BY DEF PurgeGroups
<1>2. /\ AccountsTyped /\ Boot \in Everyone /\ call[Boot].pc = "purge" /\ "exit" \in BootPlaces
      /\ "repair" \in BootPlaces /\ "purge" \in Places /\ UNCHANGED <<request, mixed>>
  BY <1>1, BootReady DEF At, BootPlaces, Places, history
<1>3. ASSUME NEW g \in Groups, WriteGroup(g, NoGroup, outcome), outcome = "ok",
             groupCache' = [groupCache EXCEPT ![g] = NoGroup], groupList' = NoList,
             SaveWithout(Boot, Members(g), {g}, "purge")
      PROVE  StartInv'
  <2> DEFINE us == Members(g)
             puts == call[Boot].puts \union PutsOf(us, {g})
  <2>1. us \in SUBSET Users /\ (\A u \in us : AllUsers[u] # NoUser) /\ SaveWithout(Boot, us, {g}, "purge")
    BY <1>3 DEF Members
  <2> HIDE DEF us
  <2>2. Moves(Boot, "purge", call[Boot].ref, puts, call[Boot].drops)
    BY <1>2, <2>1, SaveWithoutMoves
  <2>3. ASSUME ~mixed
        PROVE  /\ \A h \in Groups : groupCache'[h] # NoGroup => groupSecret'[h] # NoGroup
               /\ \A u \in Users : \/ userList'[u] = userSecret'[u] \/ u \in call[Boot].drops
                                   \/ \E p \in puts : p.user = u
    <3>1. \A h \in Groups : GroupView(h) # NoGroup => groupSecret[h] # NoGroup
      BY <1>2, <2>3, StartUpKnows
    <3>2. \A h \in Groups : groupCache'[h] # NoGroup => groupSecret'[h] # NoGroup
      BY <1>2, <1>3, <3>1 DEF WriteGroup, AccountsTyped, GroupView
    <3> QED
      BY <1>1, <1>2, <2>1, <2>3, <3>2, SaveWithoutReads
  <2> HIDE DEF puts
  <2> QED
    BY <1>2, <1>3, <2>2, <2>3, StartUpStep
<1>4. ASSUME Enter("exit")
      PROVE  StartInv'
  <2>1. Moves(Boot, "exit", call[Boot].ref, call[Boot].puts, call[Boot].drops)
    BY <1>2, <1>4, EnterMoves
  <2> QED
    BY <1>2, <2>1, StartUpStep
<1>5. CASE /\ call[Boot].puts = {} /\ call[Boot].drops = {} /\ ReadAllGroups
           /\ Enter("repair") /\ UNCHANGED userList
  BY <1>1, <1>2, <1>5, GroupReads, StartUpFinds
<1> QED
  BY <1>1, <1>3, <1>4, <1>5

\* Users lose the groups that do not exist: all that refer to one are saved, and to
\* groups that exist.
LEMMA DeleteInexistStarts ==
    ASSUME AccountInv, StartInv, request \in Scripts, DeleteInexistGroupFromUserlist
    PROVE  StartInv'
<1> DEFINE gone == {g \in Groups : ~Known(g)}
           us == UNION {Members(g) : g \in gone}
           puts == PutsOf(us, gone)
<1>1. /\ At("repair") /\ ReadAllGroups /\ SaveWithout(Boot, us, gone, "save")
      /\ UNCHANGED <<userSecret, objects, userCache, request, history>>
  BY DEF DeleteInexistGroupFromUserlist
<1>2. us \in SUBSET Users /\ \A u \in us : AllUsers[u] # NoUser
  BY DEF Members
<1>3. \A u \in Users, g \in gone : AllUsers[u] # NoUser /\ g \in AllUsers[u].groups => u \in us
  BY DEF Members
<1> HIDE DEF us
<1>4. /\ AccountsTyped /\ RefsAreOwn /\ Boot \in Everyone /\ call[Boot].pc = "repair"
      /\ call[Boot].puts = {} /\ call[Boot].drops = {} /\ "save" \in Places
      /\ UNCHANGED <<groupSecret, groupCache, request, mixed>> /\ groupList' = AllGroups
  BY <1>1, BootReady DEF At, PlacesAreRight, Places, BootPlaces, history, ReadAllGroups
<1>5. Moves(Boot, "save", call[Boot].ref, puts, {})
  <2>1. Moves(Boot, "save", call[Boot].ref, call[Boot].puts \union puts, call[Boot].drops)
    BY <1>1, <1>2, <1>4, SaveWithoutMoves
  <2> QED
    BY <1>4, <2>1
<1>6. ASSUME ~mixed
      PROVE  /\ \A g \in Groups : groupList'[g] = NoGroup <=> groupSecret'[g] = NoGroup
             /\ \A g \in Groups : groupCache'[g] # NoGroup => groupSecret'[g] # NoGroup
             /\ \A u \in Users : userList'[u] = userSecret'[u] \/ \E p \in puts : p.user = u
             /\ \A p \in puts : \A g \in p.value.groups : groupSecret'[g] # NoGroup
             /\ \A u \in Users : Dangling(u)' # {} => \E p \in puts : p.user = u
  <2>1. /\ \A g \in Groups : AllGroups[g] = NoGroup <=> groupSecret[g] = NoGroup
        /\ \A g \in Groups : GroupView(g) # NoGroup => groupSecret[g] # NoGroup
        /\ \A u \in Users : AllUsers[u] = userSecret[u]
    BY <1>4, <1>6, StartUpKnows
  <2>2. \A g \in Groups : g \in gone <=> groupSecret[g] = NoGroup
    BY <2>1 DEF Known
  <2>3. \A u \in Users : userList'[u] = userSecret'[u] \/ \E p \in puts : p.user = u
    <3>1. \A u \in Users : \/ userList'[u] = userSecret'[u] \/ u \in call[Boot].drops
                           \/ \E p \in call[Boot].puts \union puts : p.user = u
      BY <1>1, <1>2, <1>4, <1>6, SaveWithoutReads
    <3> QED
      BY <1>4, <3>1
  <2>4. ASSUME NEW u \in us, NEW g \in Without(u, gone).groups
        PROVE  groupSecret[g] # NoGroup
    <3>1. AllUsers[u] \in User
      BY <1>2, <1>4, ViewsAreTyped
    <3>2. g \in Groups /\ g \notin gone
      BY <2>4, <3>1 DEF Without, User
    <3> QED
      BY <2>2, <3>2
  <2>5. \A p \in puts : \A g \in p.value.groups : groupSecret'[g] # NoGroup
    BY <1>4, <2>4, PutsAreOf
  <2>6. ASSUME NEW u \in Users, Dangling(u)' # {}
        PROVE  \E p \in puts : p.user = u
    <3>1. PICK g \in userSecret[u].groups : userSecret[u] # NoUser /\ groupSecret[g] = NoGroup
      BY <1>1, <1>4, <2>6 DEF Dangling
    <3>2. g \in Groups
      BY <1>4, <3>1 DEF AccountsTyped, User
    <3>3. u \in us
      BY <1>3, <2>1, <2>2, <3>1, <3>2
    <3> QED
      BY <3>3, PutsAreOf
  <2>7. \A g \in Groups : groupCache'[g] # NoGroup => groupSecret'[g] # NoGroup
    BY <1>4, <2>1 DEF GroupView
  <2> QED
    BY <1>4, <2>1, <2>3, <2>5, <2>6, <2>7
<1> HIDE DEF puts
<1> QED
  BY <1>4, <1>5, <1>6, StartUpStep

\* The PUT of a user does not do what it was meant to: it fails, or the user is gone.
PutFails(p, outcome) == outcome # "ok" \/ userSecret[p.user] = NoUser

\* Where a PUT leaves the call.
LEMMA PutMoves ==
    ASSUME AccountInv, NEW c \in Everyone, NEW p \in call[c].puts, NEW outcome \in Outcomes,
           PutUser(c, p, outcome)
    PROVE  /\ p \in [user : Users, value : User] /\ p.user \in Users /\ p.value \in User
           /\ userSecret' \in {userSecret, [userSecret EXCEPT ![p.user] = p.value]}
           /\ UNCHANGED <<objects, userCache, userList, groupSecret, groupCache, groupList, request>>
           /\ PutFails(p, outcome) /\ c = Boot => Moves(c, "exit", NoRef, {}, {})
           /\ PutFails(p, outcome) /\ c # Boot =>
                  Moves(c, "failed", call[c].ref, call[c].puts \ {p}, call[c].drops)
           /\ ~PutFails(p, outcome) =>
                  /\ userSecret' = [userSecret EXCEPT ![p.user] = p.value]
                  /\ Moves(c, call[c].pc, call[c].ref, call[c].puts \ {p}, call[c].drops \union {p.user})
<1>1. AccountsTyped /\ call[c] \in Call
  BY DEF AccountInv, AccountsTyped
<1>2. p \in [user : Users, value : User]
  BY <1>1 DEF Call
<1>3. p.user \in Users /\ p.value \in User
  BY <1>2
<1>4. /\ userSecret' \in {userSecret, [userSecret EXCEPT ![p.user] = p.value]}
      /\ UNCHANGED <<objects, userCache, userList, groupSecret, groupCache, groupList, request>>
      /\ ~PutFails(p, outcome) => userSecret' = [userSecret EXCEPT ![p.user] = p.value]
  BY DEF PutUser, groups, PutFails
<1>5. PutFails(p, outcome) /\ c = Boot => Moves(c, "exit", NoRef, {}, {})
  <2>1. PutFails(p, outcome) /\ c = Boot => call' = [call EXCEPT ![c] = Fresh("exit")]
    BY DEF PutUser, PutFails
  <2> QED
    BY <1>1, <2>1 DEF AccountsTyped, Moves, Call, Fresh, Places, BootPlaces
<1>6. PutFails(p, outcome) /\ c # Boot =>
          Moves(c, "failed", call[c].ref, call[c].puts \ {p}, call[c].drops)
  <2> DEFINE k == [call[c] EXCEPT !.pc = "failed", !.puts = @ \ {p}]
  <2>1. "failed" \in Places /\ call[c].puts \ {p} \in SUBSET [user : Users, value : User]
    BY <1>1 DEF Call, Places
  <2>2. k \in Call /\ k.pc = "failed" /\ k.ref = call[c].ref /\ k.puts = call[c].puts \ {p}
        /\ k.drops = call[c].drops
    BY <1>1, <2>1 DEF Call
  <2>3. PutFails(p, outcome) /\ c # Boot => call' = [call EXCEPT ![c] = k]
    BY <1>1 DEF PutUser, PutFails, AccountsTyped, Call
  <2> HIDE DEF k
  <2> QED
    BY <1>1, <2>2, <2>3 DEF AccountsTyped, Moves
<1>7. ~PutFails(p, outcome) =>
          Moves(c, call[c].pc, call[c].ref, call[c].puts \ {p}, call[c].drops \union {p.user})
  <2> DEFINE k == [call[c] EXCEPT !.puts = @ \ {p}, !.drops = @ \union {p.user}]
  <2>1. /\ call[c].puts \ {p} \in SUBSET [user : Users, value : User]
        /\ call[c].drops \union {p.user} \in SUBSET Users
    BY <1>1, <1>3 DEF Call
  <2>2. k \in Call /\ k.pc = call[c].pc /\ k.ref = call[c].ref /\ k.puts = call[c].puts \ {p}
        /\ k.drops = call[c].drops \union {p.user}
    BY <1>1, <2>1 DEF Call
  <2>3. ~PutFails(p, outcome) => call' = [call EXCEPT ![c] = k]
    BY <1>1 DEF PutUser, PutFails, AccountsTyped, Call
  <2> HIDE DEF k
  <2> QED
    BY <1>1, <2>2, <2>3 DEF AccountsTyped, Moves
<1> QED
  BY <1>2, <1>3, <1>4, <1>5, <1>6, <1>7

\* Where the deletion of a cache entry leaves the call.
LEMMA DropMoves ==
    ASSUME AccountInv, NEW c \in Everyone, NEW u \in call[c].drops, DropUser(c, u)
    PROVE  /\ Moves(c, call[c].pc, call[c].ref, call[c].puts, call[c].drops \ {u})
           /\ u \in Users /\ userCache' = [userCache EXCEPT ![u] = NoRef] /\ userList' = NoList
           /\ UNCHANGED <<userSecret, objects, groupSecret, groupCache, groupList, request,
                          tainted, orphans, mixed>>
<1>1. AccountsTyped /\ call[c] \in Call
  BY DEF AccountInv, AccountsTyped
<1>2. call' = [call EXCEPT ![c] = [call[c] EXCEPT !.drops = @ \ {u}]]
  BY <1>1 DEF DropUser, AccountsTyped, Call
<1>3. Moves(c, call[c].pc, call[c].ref, call[c].puts, call[c].drops \ {u})
  BY <1>1, <1>2 DEF AccountsTyped, Moves, Call
<1>4. u \in Users
  BY <1>1 DEF Call
<1> QED
  BY <1>3, <1>4 DEF DropUser, groups, history

\* Where the end of a call, or of the start-up, leaves it.
LEMMA FinishMoves ==
    ASSUME AccountInv, NEW c \in Everyone, Finish(c)
    PROVE  /\ call[c].pc \in {"save", "failed"} /\ call[c].puts = {} /\ call[c].drops = {}
           /\ UNCHANGED <<users, groups, request, history>>
           /\ c = Boot => Moves(c, "up", NoRef, {}, {})
           /\ c # Boot => Moves(c, "end", NoRef, {}, {})
                          \/ (SetsPassword(c) /\ Moves(c, "revoke", NoRef, {}, {}))
<1>1. AccountsTyped
  BY DEF AccountInv
<1>2. PICK pc \in {"up", "revoke", "end"} :
          /\ call' = [call EXCEPT ![c] = Fresh(pc)]
          /\ c = Boot => pc = "up"
          /\ c # Boot => pc = "end" \/ (pc = "revoke" /\ SetsPassword(c))
  BY DEF Finish
<1>3. Moves(c, pc, NoRef, {}, {})
  BY <1>1, <1>2 DEF Moves, AccountsTyped, Call, Fresh, Places, BootPlaces
<1> QED
  BY <1>2, <1>3 DEF Finish

\* A user is saved at the start-up.
LEMMA BootPutStarts ==
    ASSUME AccountInv, StartInv, request \in Scripts, NEW p \in call[Boot].puts,
           NEW outcome \in Outcomes, PutUser(Boot, p, outcome)
    PROVE  StartInv'
<1>1. /\ Boot \in Everyone /\ AccountsTyped /\ call[Boot].pc \in {"purge", "save", "exit"}
  BY BootReady DEF PlacesAreRight
<1>2. UNCHANGED <<userList, groupSecret, groupCache, groupList, request>> /\ UNCHANGED mixed
  BY <1>1, PutMoves, BootRecords DEF PutUser
<1>3. CASE PutFails(p, outcome)
  BY <1>1, <1>2, <1>3, PutMoves, StartUpStep
<1>4. CASE ~PutFails(p, outcome)
  <2> DEFINE puts == call[Boot].puts \ {p}
             drops == call[Boot].drops \union {p.user}
  <2>1. /\ Moves(Boot, call[Boot].pc, call[Boot].ref, puts, drops)
        /\ p.user \in Users /\ userSecret' = [userSecret EXCEPT ![p.user] = p.value]
    BY <1>1, <1>4, PutMoves
  <2>2. \A u \in Users \ {p.user} : userSecret'[u] = userSecret[u]
    BY <1>1, <2>1 DEF AccountsTyped
  <2>3. ASSUME ~mixed, call[Boot].pc # "exit"
        PROVE  /\ groupList' # NoList =>
                      \A g \in Groups : groupList'[g] = NoGroup <=> groupSecret'[g] = NoGroup
               /\ \A g \in Groups : groupCache'[g] # NoGroup => groupSecret'[g] # NoGroup
               /\ userList' # NoList => \A u \in Users :
                      \/ userList'[u] = userSecret'[u] \/ u \in drops \/ \E q \in puts : q.user = u
    <3>1. /\ \A g \in Groups : AllGroups[g] = NoGroup <=> groupSecret[g] = NoGroup
          /\ \A g \in Groups : GroupView(g) # NoGroup => groupSecret[g] # NoGroup
          /\ \A u \in Users : \/ AllUsers[u] = userSecret[u] \/ u \in call[Boot].drops
                              \/ \E q \in call[Boot].puts : q.user = u
      BY <1>1, <2>3, StartUpKnows
    <3>2. \A u \in Users : \/ AllUsers[u] = userSecret'[u] \/ u \in drops
                           \/ \E q \in puts : q.user = u
      BY <2>2, <3>1
    <3> QED
      BY <1>2, <3>1, <3>2 DEF AllGroups, GroupView, AllUsers
  <2>4. ASSUME ~mixed, ~OIDC, call[Boot].pc = "save"
        PROVE  /\ \A q \in puts : \A g \in q.value.groups : groupSecret'[g] # NoGroup
               /\ \A u \in Users : Dangling(u)' # {} => \E q \in puts : q.user = u
    <3>1. /\ \A q \in call[Boot].puts : \A g \in q.value.groups : groupSecret[g] # NoGroup
          /\ \A u \in Users : Dangling(u) # {} => \E q \in call[Boot].puts : q.user = u
      BY <2>4 DEF StartInv, RepairUnderWay, Starting, Running, At
    <3>2. ASSUME NEW u \in Users, Dangling(u)' # {}
          PROVE  \E q \in puts : q.user = u
      <4>1. CASE u = p.user
        <5>1. userSecret'[u] = p.value
          BY <1>1, <2>1, <4>1 DEF AccountsTyped
        <5>2. PICK g \in p.value.groups : groupSecret'[g] = NoGroup
          BY <3>2, <5>1 DEF Dangling
        <5> QED
          BY <1>2, <3>1, <5>2
      <4>2. CASE u # p.user
        <5>1. Dangling(u) # {}
          BY <1>2, <2>2, <3>2, <4>2 DEF Dangling
        <5> QED
          BY <3>1, <4>2, <5>1
      <4> QED
        BY <4>1, <4>2
    <3> QED
      BY <1>2, <3>1, <3>2
  <2> HIDE DEF puts, drops
  <2> QED
    BY <1>1, <1>2, <2>1, <2>3, <2>4, StartUpStep
<1> QED
  BY <1>3, <1>4

\* The cache entry of a user is deleted at the start-up, and with it the list.
LEMMA BootDropStarts ==
    ASSUME AccountInv, StartInv, NEW u \in call[Boot].drops, DropUser(Boot, u)
    PROVE  StartInv'
<1>1. /\ Boot \in Everyone /\ call[Boot].pc \in {"purge", "save", "exit"}
  BY BootReady DEF PlacesAreRight
<1>2. /\ Moves(Boot, call[Boot].pc, call[Boot].ref, call[Boot].puts, call[Boot].drops \ {u})
      /\ userList' = NoList
      /\ UNCHANGED <<userSecret, groupSecret, groupCache, groupList, request, mixed>>
  BY <1>1, DropMoves
<1>3. ASSUME ~mixed, call[Boot].pc # "exit"
      PROVE  /\ groupList' # NoList =>
                    \A g \in Groups : groupList'[g] = NoGroup <=> groupSecret'[g] = NoGroup
             /\ \A g \in Groups : groupCache'[g] # NoGroup => groupSecret'[g] # NoGroup
  <2>1. /\ \A g \in Groups : AllGroups[g] = NoGroup <=> groupSecret[g] = NoGroup
        /\ \A g \in Groups : GroupView(g) # NoGroup => groupSecret[g] # NoGroup
    BY <1>1, <1>3, StartUpKnows
  <2> QED
    BY <1>2, <2>1 DEF AllGroups, GroupView
<1>4. ASSUME ~mixed, ~OIDC, call[Boot].pc = "save"
      PROVE  /\ \A q \in call[Boot].puts : \A g \in q.value.groups : groupSecret'[g] # NoGroup
             /\ \A v \in Users : Dangling(v)' # {} => \E q \in call[Boot].puts : q.user = v
  <2>1. /\ \A q \in call[Boot].puts : \A g \in q.value.groups : groupSecret[g] # NoGroup
        /\ \A v \in Users : Dangling(v) # {} => \E q \in call[Boot].puts : q.user = v
    BY <1>4 DEF StartInv, RepairUnderWay, Starting, Running, At
  <2>2. \A v \in Users : Dangling(v)' = Dangling(v)
    BY <1>2 DEF Dangling
  <2> QED
    BY <1>2, <2>1, <2>2
<1> QED
  BY <1>1, <1>2, <1>3, <1>4, StartUpStep

\* Every step of the start-up.
BootStep ==
    \/ \E o \in Outcomes :
           \/ InitGrouplistInCfg(o) \/ DeleteNonexistVCs(o) \/ CreateDefaultAdminUser(o)
           \/ CreateVCGroups(o) \/ PurgeGroups(o)
    \/ DeleteInexistGroupFromUserlist
    \/ Finish(Boot)
    \/ \E u \in call[Boot].drops : DropUser(Boot, u)
    \/ \E p \in call[Boot].puts, o \in Outcomes : PutUser(Boot, p, o)

\* Every step of the start-up keeps what it relies on.
LEMMA BootStepStarts ==
    ASSUME AccountInv, StartInv, request \in Scripts, BootStep
    PROVE  StartInv'
<1>1. CASE Finish(Boot)
  <2>1. /\ Moves(Boot, "up", NoRef, {}, {}) /\ call[Boot].pc \in {"save", "failed"}
        /\ UNCHANGED <<request, mixed>>
    BY <1>1, BootReady, FinishMoves DEF history
  <2> QED
    BY <2>1, StartUpStep
<1> QED
  BY <1>1, InitGrouplistInCfgStarts, DeleteNonexistVCsStarts, CreateDefaultAdminUserStarts,
     CreateVCGroupsStarts, PurgeGroupsStarts, DeleteInexistStarts, BootDropStarts, BootPutStarts
     DEF BootStep

-----------------------------------------------------------------------------
(***************************************************************************)
(* The steps of a request.                                                 *)
(***************************************************************************)
\* Every step of a call.
CallStep(c) ==
    \/ Handler(c)
    \/ \E o \in Outcomes : DeleteUser(c, o) \/ CreateUser(c, o) \/ ChangeGroup(c, o)
    \/ Finish(c)
    \/ \E u \in call[c].drops : DropUser(c, u)
    \/ \E p \in call[c].puts, o \in Outcomes : PutUser(c, p, o)

\* The history records that the call starts, what runs beside it and the start-up.
Recorded(c) ==
    /\ tainted \subseteq tainted' /\ orphans \subseteq orphans'
    /\ mixed' = (mixed \/ (call[c].pc = "new" /\ Running(Boot)))
    /\ call[c].pc = "new" => Overlapped(c) \subseteq orphans'

\* A step of a call leaves the other calls alone, and is recorded.
Advances(c) ==
    /\ \A d \in Everyone \ {c} : call'[d] = call[d]
    /\ request' = request
    /\ call[c].pc \notin {"end", "up"}
    /\ Recorded(c)

\* What Record records.
LEMMA RecordRecords ==
    ASSUME AccountsTyped, NEW c, NEW names, NEW deleted, Record(c, names, deleted)
    PROVE  Recorded(c)
<1>1. mixed \in BOOLEAN
  BY DEF AccountsTyped
<1>2. tainted' = tainted \union names /\ orphans \subseteq orphans'
      /\ (call[c].pc = "new" => Overlapped(c) \subseteq orphans')
      /\ mixed' = (mixed \/ (call[c].pc = "new" /\ Running(Boot)))
  BY DEF Record
<1> QED
  BY <1>1, <1>2 DEF Recorded

\* A later step of a call has nothing to record.
LEMMA LaterRecords ==
    ASSUME AccountsTyped, NEW c, call[c].pc # "new", UNCHANGED history
    PROVE  Recorded(c)
BY DEF AccountsTyped, Recorded, history

\* One call moves.
LEMMA OneMoves ==
    ASSUME AccountsTyped, NEW c \in Everyone
    PROVE  /\ \A pc : Goto(c, pc) => \A d \in Everyone \ {c} : call'[d] = call[d]
           /\ Answer(c) => \A d \in Everyone \ {c} : call'[d] = call[d]
           /\ \A v : Save(c, v) => \A d \in Everyone \ {c} : call'[d] = call[d]
           /\ \A v : ChangeAndSave(c, v) => \A d \in Everyone \ {c} : call'[d] = call[d]
           /\ \A o : SaveWithPassword(c, o) => \A d \in Everyone \ {c} : call'[d] = call[d]
           /\ \A us, gs, pc : SaveWithout(c, us, gs, pc) => \A d \in Everyone \ {c} : call'[d] = call[d]
BY DEF AccountsTyped, Goto, Answer, Save, ChangeAndSave, SaveWithPassword, SaveWithout

\* A handler that goes on, answers or saves.
LEMMA HandlerAdvances ==
    ASSUME AccountInv, NEW c \in Calls, Handler(c)
    PROVE  Advances(c)
<1>1. AccountsTyped /\ c \in Everyone /\ call[c].pc \in PlacesOf(request[c].op)
  BY DEF AccountInv, PlacesAreRight, Everyone
<1>2. ASSUME \/ FetchUser(c) \/ NoSuchUser(c) \/ CheckGroup(c) \/ CheckVCs(c) \/ CheckAdmin(c)
             \/ Login(c) \/ ListUsers(c) \/ ReadForUpdate(c)
      PROVE  Advances(c)
  <2>1. Continues(c) /\ call[c].pc \in {"new", "checked", "have"} /\ UNCHANGED request
    BY <1>2 DEF FetchUser, NoSuchUser, CheckGroup, CheckVCs, CheckAdmin, Login, ListUsers,
                ReadForUpdate, AboutToReadUser
  <2>2. Recorded(c)
    BY <1>1, <2>1, RecordRecords DEF Continues
  <2>3. \A d \in Everyone \ {c} : call'[d] = call[d]
    <3>1. CASE FetchUser(c)
      BY <1>1, <3>1 DEF FetchUser, AccountsTyped
    <3>2. CASE ~FetchUser(c)
      BY <1>1, <1>2, <3>2, OneMoves DEF NoSuchUser, CheckGroup, CheckVCs, CheckAdmin, Login,
                                        ListUsers, ReadForUpdate
    <3> QED
      BY <3>1, <3>2
  <2> QED
    BY <2>1, <2>2, <2>3 DEF Advances
<1>3. ASSUME \/ GetUser(c) \/ SetEmail(c) \/ SetGroups(c) \/ AddGroup(c) \/ RemoveGroup(c)
             \/ SetPassword(c) \/ SignIn(c) \/ SetVCs(c) \/ SetAdmin(c) \/ UpdateEmail(c)
             \/ Created(c) \/ DropGroup(c) \/ RemoveMembers(c)
      PROVE  Advances(c)
  <2>1. /\ call[c].pc \in {"have", "allowed", "created", "written", "members"}
        /\ UNCHANGED <<request, history>>
    BY <1>3 DEF GetUser, SetEmail, SetGroups, AddGroup, RemoveGroup, SetPassword, SignIn, SetVCs,
                SetAdmin, UpdateEmail, Created, DropGroup, RemoveMembers, Holds
  <2>2. Recorded(c)
    BY <1>1, <2>1, LaterRecords
  <2>3. \A d \in Everyone \ {c} : call'[d] = call[d]
    BY <1>1, <1>3, OneMoves
       DEF GetUser, SetEmail, SetGroups, AddGroup, RemoveGroup, SetPassword, SignIn, SetVCs,
           SetAdmin, UpdateEmail, Created, DropGroup, RemoveMembers
  <2> QED
    BY <2>1, <2>2, <2>3 DEF Advances
<1>4. ASSUME UpdateVCs(c) \/ UpdateRest(c) \/ UpdateSelf(c)
      PROVE  Advances(c)
  <2>1. call[c].pc \in {"vc", "admin", "have", "verified"} /\ UNCHANGED request
    BY <1>4 DEF UpdateVCs, UpdateRest, UpdateSelf, Holds
  <2>2. UNCHANGED history \/ Taint(c, {request[c].user})
    BY <1>4 DEF UpdateVCs, UpdateRest, UpdateSelf
  <2>3. Recorded(c)
    BY <1>1, <2>1, <2>2, LaterRecords, RecordRecords DEF Taint
  <2>4. \A d \in Everyone \ {c} : call'[d] = call[d]
    BY <1>1, <1>4, OneMoves DEF UpdateVCs, UpdateRest, UpdateSelf
  <2> QED
    BY <2>1, <2>3, <2>4 DEF Advances
<1> QED
  BY <1>2, <1>3, <1>4 DEF Handler

\* Every step of a call.
LEMMA CallAdvances ==
    ASSUME AccountInv, NEW c \in Calls, CallStep(c)
    PROVE  Advances(c)
<1>1. AccountsTyped /\ c \in Everyone /\ call[c].pc \in PlacesOf(request[c].op)
  BY DEF AccountInv, PlacesAreRight, Everyone
<1>2. ASSUME NEW o \in Outcomes, DeleteUser(c, o) \/ CreateUser(c, o)
      PROVE  Advances(c)
  <2>1. call[c].pc \in {"allowed", "checked", "absent"} /\ UNCHANGED request
    BY <1>2 DEF DeleteUser, CreateUser
  <2>2. UNCHANGED history \/ Taint(c, {request[c].user})
    BY <1>2 DEF DeleteUser, CreateUser
  <2>3. Recorded(c)
    BY <1>1, <2>1, <2>2, LaterRecords, RecordRecords DEF Taint
  <2>4. \A d \in Everyone \ {c} : call'[d] = call[d]
    <3>1. CASE DeleteUser(c, o)
      BY <1>1, <3>1, OneMoves DEF DeleteUser, AccountsTyped
    <3>2. CASE CreateUser(c, o)
      BY <1>1, <3>2, OneMoves DEF CreateUser
    <3> QED
      BY <1>2, <3>1, <3>2
  <2> QED
    BY <2>1, <2>3, <2>4 DEF Advances
<1>3. ASSUME NEW o \in Outcomes, ChangeGroup(c, o)
      PROVE  Advances(c)
  <2>1. call[c].pc \in {"group", "new"} /\ UNCHANGED request
    BY <1>3 DEF ChangeGroup
  <2>2. Recorded(c)
    BY <1>1, <1>3, RecordRecords DEF ChangeGroup
  <2>3. \A d \in Everyone \ {c} : call'[d] = call[d]
    BY <1>1, <1>3, OneMoves DEF ChangeGroup
  <2> QED
    BY <2>1, <2>2, <2>3 DEF Advances
<1>4. CASE Finish(c)
  <2>1. call[c].pc \in {"save", "failed"} /\ UNCHANGED <<request, history>>
    BY <1>4 DEF Finish
  <2>2. \A d \in Everyone \ {c} : call'[d] = call[d]
    BY <1>1, <1>4 DEF Finish, AccountsTyped
  <2> QED
    BY <1>1, <2>1, <2>2, LaterRecords DEF Advances
<1>5. call[c].puts # {} \/ call[c].drops # {} => call[c].pc \in {"save", "failed"}
  BY DEF AccountInv, PlacesAreRight
<1>6. ASSUME NEW u \in call[c].drops, DropUser(c, u)
      PROVE  Advances(c)
  <2>1. UNCHANGED <<request, history>>
    BY <1>6 DEF DropUser
  <2>2. \A d \in Everyone \ {c} : call'[d] = call[d]
    BY <1>1, <1>6 DEF DropUser, AccountsTyped
  <2> QED
    BY <1>1, <1>5, <2>1, <2>2, LaterRecords DEF Advances
<1>7. ASSUME NEW p \in call[c].puts, NEW o \in Outcomes, PutUser(c, p, o)
      PROVE  Advances(c)
  <2>1. UNCHANGED request /\ Recorded(c)
    BY <1>1, <1>7, RecordRecords DEF PutUser
  <2>2. \A d \in Everyone \ {c} : call'[d] = call[d]
    BY <1>1, <1>7 DEF PutUser, AccountsTyped
  <2> QED
    BY <1>5, <2>1, <2>2 DEF Advances
<1> QED
  BY <1>2, <1>3, <1>4, <1>6, <1>7, HandlerAdvances DEF CallStep

\* A call that starts while the process does is recorded, and none runs before.
LEMMA AdvancesStarts ==
    ASSUME StartInv, NEW c \in Calls, Advances(c)
    PROVE  StartInv'
<1>1. call'[Boot] = call[Boot] /\ c # Boot
  BY AccountsAssumption DEF Advances, Everyone
<1>2. ~Starting'
  BY <1>1 DEF StartInv, StartsAlone, Starting, Advances, Recorded, Running
<1> QED
  BY <1>2 DEF StartInv, StartsAlone, StartUpReads, RepairUnderWay

\* Nor does a deletion stay alone when another call starts, or when it starts beside one.
LEMMA LoneIsAlone ==
    ASSUME LoneDeletion, NEW c \in Calls, Advances(c), NEW e \in Calls, Lone(e)'
    PROVE  /\ e = c /\ Deletes(c)
           /\ \A d \in Calls \ {c} : ~Running(d)
           /\ Running(c) => Lone(c)
<1>1. /\ \A d \in Calls \ {c} : Running(d)' <=> Running(d)
      /\ call[c].pc = "new" \/ Running(c)
      /\ request' = request /\ orphans \subseteq orphans'
      /\ call[c].pc = "new" => Overlapped(c) \subseteq orphans'
  BY DEF Advances, Recorded, Running, Everyone
<1>2. Running(e)' /\ Deletes(e) /\ request[e].group \notin orphans'
  BY <1>1 DEF Lone, Deletes
<1>3. ASSUME NEW d \in Calls \ {c}, Running(d), call[c].pc = "new", e \in {c, d}
      PROVE  request[e].group \in Overlapped(c)
  BY <1>2, <1>3 DEF Overlapped
<1>4. CASE e = c
  <2>1. Running(c) => Lone(c)
    BY <1>1, <1>2, <1>4 DEF Lone
  <2> QED
    BY <1>1, <1>2, <1>3, <1>4, <2>1 DEF LoneDeletion
<1>5. CASE e # c
  <2>1. Running(e) /\ Lone(e)
    BY <1>1, <1>2, <1>5 DEF Lone
  <2> QED
    BY <1>1, <1>2, <1>3, <1>5, <2>1 DEF LoneDeletion
<1> QED
  BY <1>4, <1>5

\* So a deletion that no call overlaps runs alone.
LEMMA LoneDeletionNext ==
    ASSUME LoneDeletion, NEW c \in Calls, Advances(c)
    PROVE  LoneDeletion'
<1> SUFFICES ASSUME NEW e \in Calls, Lone(e)', NEW d \in Calls \ {e}
             PROVE  ~Running(d)'
  BY DEF LoneDeletion
<1>1. e = c /\ ~Running(d)
  BY LoneIsAlone
<1> QED
  BY <1>1 DEF Advances, Running, Everyone

\* A step of the start-up leaves the deletions as they are.
LEMMA BootLeavesLone ==
    ASSUME AccountInv, LoneDeletion, BootStep
    PROVE  LoneDeletion'
<1>1. AccountsTyped /\ Boot \in Everyone /\ Boot \notin Calls /\ call[Boot].pc \in BootPlaces
  BY BootReady DEF PlacesAreRight
<1>2. orphans \subseteq orphans'
  <2>1. ASSUME NEW names, NEW deleted, Record(Boot, names, deleted)
        PROVE  orphans \subseteq orphans'
    BY <2>1 DEF Record
  <2> QED
    BY <2>1 DEF BootStep, InitGrouplistInCfg, CreateMissing, DeleteNonexistVCs, CreateDefaultAdminUser,
           CreateVCGroups, PurgeGroups, DeleteInexistGroupFromUserlist, Finish, DropUser,
           PutUser, Taint, history
<1>3. request' = request
  BY DEF BootStep, InitGrouplistInCfg, CreateMissing, DeleteNonexistVCs, CreateDefaultAdminUser,
         CreateVCGroups, PurgeGroups, DeleteInexistGroupFromUserlist, Finish, DropUser, PutUser
<1>4. \A d \in Calls : call'[d] = call[d]
  <2>1. ASSUME \/ \E o \in Outcomes : InitGrouplistInCfg(o) \/ DeleteNonexistVCs(o)
               \/ \E o \in Outcomes : CreateDefaultAdminUser(o) \/ CreateVCGroups(o)
        PROVE  \A d \in Calls : call'[d] = call[d]
    BY <1>1, <2>1, OneMoves DEF InitGrouplistInCfg, DeleteNonexistVCs, CreateDefaultAdminUser,
           CreateVCGroups, Enter, After, Everyone
  <2>2. ASSUME NEW o \in Outcomes, PurgeGroups(o)
        PROVE  \A d \in Calls : call'[d] = call[d]
    BY <1>1, <2>2, OneMoves DEF PurgeGroups, Enter, Everyone
  <2>3. ASSUME DeleteInexistGroupFromUserlist
        PROVE  \A d \in Calls : call'[d] = call[d]
    BY <1>1, <2>3, OneMoves DEF DeleteInexistGroupFromUserlist, Everyone
  <2>4. ASSUME Finish(Boot) \/ (\E u \in call[Boot].drops : DropUser(Boot, u))
               \/ \E p \in call[Boot].puts, o \in Outcomes : PutUser(Boot, p, o)
        PROVE  \A d \in Calls : call'[d] = call[d]
    BY <1>1, <2>4 DEF Finish, DropUser, PutUser, AccountsTyped, Everyone
  <2> QED
    BY <2>1, <2>2, <2>3, <2>4 DEF BootStep
<1> QED
  BY <1>2, <1>3, <1>4 DEF LoneDeletion, Lone, Running, Deletes

\* Only its end makes the start-up a server without a start-up.
LEMMA BootRuns ==
    ASSUME AccountInv, BootStep, ~Finish(Boot)
    PROVE  Running(Boot)'
<1>1. AccountsTyped /\ Boot \in Everyone /\ call[Boot].pc \in BootPlaces /\ call[Boot] \in Call
  BY BootReady DEF PlacesAreRight
<1>2. \A pc : Enter(pc) => call'[Boot].pc = pc
  BY <1>1 DEF Enter, Goto, AccountsTyped, Call
<1>3. ASSUME NEW o \in Outcomes, InitGrouplistInCfg(o) \/ DeleteNonexistVCs(o)
             \/ CreateDefaultAdminUser(o) \/ CreateVCGroups(o)
      PROVE  call'[Boot].pc \notin {"new", "end", "up"}
  BY <1>2, <1>3 DEF InitGrouplistInCfg, DeleteNonexistVCs, CreateDefaultAdminUser, CreateVCGroups,
                    After, AfterVCs
<1>4. \A us, gs, pc : SaveWithout(Boot, us, gs, pc) => call'[Boot].pc = pc
  BY <1>1 DEF SaveWithout, AccountsTyped, Call
<1>5. ASSUME (\E o \in Outcomes : PurgeGroups(o)) \/ DeleteInexistGroupFromUserlist
      PROVE  call'[Boot].pc \notin {"new", "end", "up"}
  BY <1>2, <1>4, <1>5 DEF PurgeGroups, DeleteInexistGroupFromUserlist
<1>6. call[Boot].puts # {} \/ call[Boot].drops # {} => call[Boot].pc \in {"purge", "save", "exit"}
  BY DEF AccountInv, PlacesAreRight
<1>7. ASSUME \/ \E u \in call[Boot].drops : DropUser(Boot, u)
             \/ \E p \in call[Boot].puts, o \in Outcomes : PutUser(Boot, p, o)
      PROVE  call'[Boot].pc \notin {"new", "end", "up"}
  <2>1. call'[Boot].pc \in {call[Boot].pc, "exit"}
    <3>1. ASSUME NEW u \in call[Boot].drops, DropUser(Boot, u)
          PROVE  call'[Boot].pc = call[Boot].pc
      BY <1>1, <3>1, DropMoves DEF Moves
    <3>2. ASSUME NEW p \in call[Boot].puts, NEW o \in Outcomes, PutUser(Boot, p, o)
          PROVE  call'[Boot].pc \in {call[Boot].pc, "exit"}
      BY <1>1, <3>2, PutMoves DEF Moves
    <3> QED
      BY <1>7, <3>1, <3>2
  <2> QED
    BY <1>6, <1>7, <2>1
<1> QED
  BY <1>3, <1>5, <1>7 DEF BootStep, Running

\* A start-up that no request has overlapped ends with every reference repaired.
LEMMA StartUpRepairs ==
    ASSUME AccountInv, StartInv, Finish(Boot), ~mixed, ~OIDC
    PROVE  \A u \in Users : Dangling(u) = {} /\ Dangling(u)' = {}
<1>1. /\ call[Boot].pc = "save" /\ call[Boot].puts = {}
      /\ UNCHANGED <<userSecret, groupSecret>>
  BY BootReady DEF Finish, PlacesAreRight, BootPlaces, users, groups
<1>2. Starting /\ At("save")
  BY <1>1 DEF Starting, Running, At
<1>3. \A u \in Users : Dangling(u) = {}
  BY <1>1, <1>2 DEF StartInv, RepairUnderWay
<1> QED
  BY <1>1, <1>3 DEF Dangling

-----------------------------------------------------------------------------
(***************************************************************************)
(* What a step of a request leaves users to refer to.                      *)
(***************************************************************************)
\* What users refer to after the step, they referred to before, or they may.
RefersKept ==
    \A u \in Users, gs \in SUBSET Groups :
        u \notin tainted' /\ HasGroups(u, gs)' => HasGroups(u, gs) \/ gs \subseteq Live'

\* The groups that a call at this place has checked.
ChecksAt(c, pc, live) ==
    /\ request[c].op = "addGroup" /\ pc \in {"checked", "have"} => request[c].group \in live
    /\ request[c].op \in {"setVCs", "create"} /\ pc \in {"checked", "have", "allowed"}
           => request[c].vcs \subseteq live

\* A group that users may refer to stays so, but for the one that the call deletes.
LEMMA LiveGrows ==
    ASSUME NEW c \in Calls, Advances(c),
           Deletes(c) /\ Running(c) => request[c].group \in Live',
           \A g \in Groups : groupSecret[g] # NoGroup => g \in Live'
    PROVE  Live \subseteq Live'
<1> SUFFICES ASSUME NEW g \in Live
             PROVE  g \in Live'
  OBVIOUS
<1>1. /\ request' = request /\ orphans \subseteq orphans' /\ g \in Groups
      /\ \A d \in Calls \ {c} : call'[d] = call[d]
  BY DEF Advances, Recorded, Everyone, Live
<1>2. CASE Deleting(g)
  <2>1. PICK d \in Calls : Running(d) /\ Deletes(d) /\ request[d].group = g
    BY <1>2 DEF Deleting
  <2>2. CASE d = c
    BY <2>1, <2>2
  <2>3. CASE d # c
    <3>1. Running(d)'
      BY <1>1, <2>1, <2>3 DEF Running
    <3>2. Deleting(g)'
      BY <1>1, <2>1, <3>1 DEF Deleting, Deletes
    <3> QED
      BY <1>1, <3>2 DEF Live
  <2> QED
    BY <2>2, <2>3
<1>3. CASE groupSecret[g] # NoGroup
  BY <1>1, <1>3
<1>4. CASE g \in orphans \union {AdminGroup, DefaultGroup}
  BY <1>1, <1>4 DEF Live
<1> QED
  BY <1>2, <1>3, <1>4 DEF Live

\* That one stays so as well, unless its deletion ends, if groups are not removed.
LEMMA LiveStays ==
    ASSUME request \in Scripts, NEW c \in Calls, Advances(c), Deletes(c) /\ Running(c) => Running(c)',
           \A g \in Groups : groupSecret[g] # NoGroup => groupSecret'[g] # NoGroup
    PROVE  Live \subseteq Live'
<1>1. \A g \in Groups : groupSecret[g] # NoGroup => g \in Live'
  BY DEF Live
<1>2. ASSUME Deletes(c), Running(c)'
      PROVE  request[c].group \in Live'
  <2>1. request[c].group \in Groups /\ request' = request
    BY <1>2, RequestIsTyped DEF Deletes, Advances
  <2>2. Deleting(request[c].group)'
    BY <1>2, <2>1 DEF Deleting, Deletes
  <2> QED
    BY <2>1, <2>2 DEF Live
<1> QED
  BY <1>1, <1>2, LiveGrows

\* A step keeps the invariant if it keeps each part of it for the call and the groups.
LEMMA ServeStep ==
    ASSUME AccountInv, LoneDeletion, ServingInv, NEW c \in Calls, Advances(c),
           Live \subseteq Live', RefersKept, CachedAreLive', ChecksAt(c, call'[c].pc, Live'),
           \/ call'[c].ref \in {call[c].ref, NoRef}
           \/ \A d \in Calls \ {c} : call[d].ref = call'[c].ref => request[d].user = request[c].user,
           Lone(c)' => Forgotten(c)'
    PROVE  ServingInv'
<1>1. /\ request' = request /\ tainted \subseteq tainted'
      /\ \A d \in Calls \ {c} : call'[d] = call[d]
  BY DEF Advances, Recorded, Everyone
<1>2. RefersToLive'
  BY <1>1 DEF ServingInv, RefersToLive, RefersKept
<1>3. ChecksHold'
  BY <1>1 DEF ServingInv, ChecksHold, ChecksAt
<1>4. SharersAgree'
  BY <1>1 DEF ServingInv, SharersAgree
<1>5. \A e \in Calls : Lone(e)' => Forgotten(e)'
  BY LoneIsAlone
<1> QED
  BY <1>2, <1>3, <1>4, <1>5 DEF ServingInv

\* Groups that are read exist or are cached.
LEMMA ReadAreLive ==
    ASSUME CachedAreLive, GroupStep, Live \subseteq Live'
    PROVE  CachedAreLive'
<1> SUFFICES ASSUME NEW g \in Groups,
                    groupCache'[g] # NoGroup \/ (groupList' # NoList /\ groupList'[g] # NoGroup)
             PROVE  g \in Live'
  BY DEF CachedAreLive
<1>1. groupSecret[g] # NoGroup => g \in Live
  BY DEF Live
<1>2. groupCache[g] # NoGroup \/ (groupList # NoList /\ groupList[g] # NoGroup) => g \in Live
  BY DEF CachedAreLive
<1> QED
  BY <1>1, <1>2 DEF GroupStep, AllGroups

\* What the server finds of a group tells that users may refer to it.
LEMMA FoundAreLive ==
    ASSUME CachedAreLive, NEW g \in Groups, GroupView(g) # NoGroup \/ AllGroups[g] # NoGroup
    PROVE  g \in Live
BY DEF CachedAreLive, Live, GroupView, AllGroups

\* The user has these groups already, or is the one who is given them.
HasOrGets(u, gs, c, given) == HasGroups(u, gs) \/ (u = request[c].user /\ gs = given)

\* The objects, of a step that gives the user of c these groups, and leaves c the
\* reference.
ObjectsKeep(c, ref, given) ==
    /\ \A u \in Users : userCache'[u] # NoRef =>
           HasOrGets(u, objects'[userCache'[u]].groups, c, given)
    /\ \A d \in Calls \ {c} : call[d].ref # NoRef =>
           HasOrGets(request[d].user, objects'[call[d].ref].groups, c, given)
    /\ ref # NoRef => HasOrGets(request[c].user, objects'[ref].groups, c, given)

\* What the list holds is what users have.
LEMMA ListHas ==
    ASSUME NEW u \in Users, AllUsers[u] # NoUser
    PROVE  HasGroups(u, AllUsers[u].groups)
BY DEF AllUsers, HasGroups

\* Nothing but the references may change.
LEMMA SameObjects ==
    ASSUME NEW c \in Calls, NEW ref \in {call[c].ref, NoRef}, NEW given, UNCHANGED objects,
           \A u \in Users : userCache'[u] \in {userCache[u], NoRef}
    PROVE  ObjectsKeep(c, ref, given)
BY DEF ObjectsKeep, HasOrGets, HasGroups

\* A user is read from the cache, or from the secret into a reference of its own.
LEMMA ReadObjects ==
    ASSUME AccountInv, NEW c \in Calls, NEW u \in Users, u = request[c].user, UserView(u) # NoUser,
           ReadUser(u), NEW ref \in {call[c].ref, NoRef, userCache'[u]}, NEW given
    PROVE  ObjectsKeep(c, ref, given)
<1>1. AccountsTyped
  BY DEF AccountInv
<1>2. CASE userCache[u] # NoRef
  <2>1. UNCHANGED <<objects, userCache>>
    BY <1>2 DEF ReadUser
  <2> QED
    BY <1>2, <2>1 DEF ObjectsKeep, HasOrGets, HasGroups
<1>3. CASE userCache[u] = NoRef
  <2>1. /\ Spare \in Refs
        /\ \A v \in Users : userCache[v] # Spare
        /\ \A d \in Calls : call[d].ref # Spare
    BY <1>1, <1>3, SpareIsFree
  <2> DEFINE r == Spare
  <2>2. /\ objects' = [objects EXCEPT ![r] = userSecret[u]]
        /\ userCache' = [userCache EXCEPT ![u] = r]
        /\ userSecret[u] # NoUser
    BY <1>3 DEF ReadUser, UserView
  <2>3. r \in Refs /\ (\A v \in Users : userCache[v] # r) /\ \A d \in Calls : call[d].ref # r
    BY <2>1
  <2> HIDE DEF r
  <2>4. /\ objects'[r] = userSecret[u] /\ userCache'[u] = r
        /\ \A s : s # r => objects'[s] = objects[s]
        /\ \A v \in Users \ {u} : userCache'[v] = userCache[v]
    BY <1>1, <2>2, <2>3 DEF AccountsTyped
  <2>5. HasGroups(u, objects'[r].groups)
    BY <2>2, <2>4 DEF HasGroups
  <2>6. \A v \in Users \ {u} : userCache[v] # NoRef => HasGroups(v, objects'[userCache[v]].groups)
    BY <2>3, <2>4 DEF HasGroups
  <2>7. \A d \in Calls : call[d].ref # NoRef => HasGroups(request[d].user, objects'[call[d].ref].groups)
    BY <2>3, <2>4 DEF HasGroups
  <2> QED
    BY <2>4, <2>5, <2>6, <2>7 DEF ObjectsKeep, HasOrGets
<1> QED
  BY <1>2, <1>3

\* The handler gives the object it holds, and shares, other groups, or the same.
LEMMA ChangedObjects ==
    ASSUME AccountInv, SharersAgree, NEW c \in Calls, call[c].ref # NoRef, NEW o,
           objects' = [objects EXCEPT ![call[c].ref] = o], UNCHANGED userCache,
           NEW ref \in {call[c].ref, NoRef}
    PROVE  ObjectsKeep(c, ref, o.groups)
<1>1. AccountsTyped /\ RefsAreOwn /\ call[c] \in Call
  BY DEF AccountInv, AccountsTyped, Everyone
<1>2. /\ objects'[call[c].ref] = o
      /\ \A s : s # call[c].ref => objects'[s] = objects[s]
  BY <1>1 DEF AccountsTyped, Call
<1>3. \A u \in Users : userCache[u] # NoRef /\ userCache[u] = call[c].ref => u = request[c].user
  BY <1>1 DEF RefsAreOwn
<1>4. \A d \in Calls : call[d].ref = call[c].ref => request[d].user = request[c].user
  BY DEF SharersAgree
<1>5. \A u \in Users : userCache[u] # NoRef =>
          HasOrGets(u, objects'[userCache[u]].groups, c, o.groups)
  BY <1>2, <1>3 DEF HasOrGets, HasGroups
<1>6. \A d \in Calls : call[d].ref # NoRef =>
          HasOrGets(request[d].user, objects'[call[d].ref].groups, c, o.groups)
  BY <1>2, <1>4 DEF HasOrGets, HasGroups
<1> QED
  BY <1>5, <1>6 DEF ObjectsKeep

\* A step of a handler that deletes no group: it reads, and may give its user groups
\* that users may refer to.
LEMMA HandlerServes ==
    ASSUME AccountInv, request \in Scripts, LoneDeletion, ServingInv,
           NEW c \in Calls, Advances(c), ~Deletes(c),
           NEW pc, NEW ref, NEW puts, NEW drops, Moves(c, pc, ref, puts, drops),
           GroupStep, ListStep, UNCHANGED userSecret,
           NEW given, request[c].user \in tainted \/ given \subseteq Live,
           ObjectsKeep(c, ref, given),
           \A p \in puts : p \in call[c].puts \/ (p.user = request[c].user /\ p.value.groups = given),
           \/ ref \in {call[c].ref, NoRef}
           \/ \A d \in Calls \ {c} : call[d].ref = ref => request[d].user = request[c].user,
           ChecksAt(c, pc, Live)
    PROVE  ServingInv'
<1>1. /\ request' = request /\ tainted \subseteq tainted' /\ userSecret' = userSecret
      /\ call'[c].pc = pc /\ call'[c].ref = ref /\ call'[c].puts = puts
      /\ \A d \in Calls \ {c} : call'[d] = call[d]
  BY DEF Advances, Recorded, Everyone, Moves
<1>2. Live \subseteq Live'
  BY LiveStays DEF GroupStep
<1>3. CachedAreLive'
  BY <1>2, ReadAreLive DEF ServingInv
<1>4. RefersKept
  <2> SUFFICES ASSUME NEW u \in Users, NEW gs \in SUBSET Groups, u \notin tainted', HasGroups(u, gs)'
               PROVE  HasGroups(u, gs) \/ gs \subseteq Live'
    BY DEF RefersKept
  <2>1. HasOrGets(u, gs, c, given) => HasGroups(u, gs) \/ gs \subseteq Live'
    BY <1>1, <1>2 DEF HasOrGets
  <2>2. CASE userSecret[u] # NoUser /\ gs = userSecret[u].groups
    BY <2>2 DEF HasGroups
  <2>3. CASE userCache'[u] # NoRef /\ gs = objects'[userCache'[u]].groups
    BY <2>1, <2>3 DEF ObjectsKeep
  <2>4. CASE userList' # NoList /\ userList'[u] # NoUser /\ gs = userList'[u].groups
    <3>1. CASE userList' = AllUsers
      BY <2>4, <3>1, ListHas
    <3>2. CASE userList' = userList
      BY <2>4, <3>2 DEF HasGroups
    <3> QED
      BY <2>4, <3>1, <3>2 DEF ListStep
  <2>5. ASSUME NEW d \in Calls, call'[d].ref # NoRef, request[d].user = u,
               gs = objects'[call'[d].ref].groups
        PROVE  HasGroups(u, gs) \/ gs \subseteq Live'
    <3>1. HasOrGets(u, gs, c, given)
      BY <1>1, <2>5 DEF ObjectsKeep
    <3> QED
      BY <2>1, <3>1
  <2>6. ASSUME NEW d \in Calls, NEW p \in call'[d].puts, p.user = u, gs = p.value.groups
        PROVE  HasGroups(u, gs) \/ gs \subseteq Live'
    <3>1. HasOrGets(u, gs, c, given)
      BY <1>1, <2>6 DEF HasOrGets, HasGroups
    <3> QED
      BY <2>1, <3>1
  <2>7. \/ userSecret[u] # NoUser /\ gs = userSecret[u].groups
        \/ userCache'[u] # NoRef /\ gs = objects'[userCache'[u]].groups
        \/ userList' # NoList /\ userList'[u] # NoUser /\ gs = userList'[u].groups
        \/ \E d \in Calls : call'[d].ref # NoRef /\ request[d].user = u /\ gs = objects'[call'[d].ref].groups
        \/ \E d \in Calls : \E p \in call'[d].puts : p.user = u /\ gs = p.value.groups
    BY <1>1 DEF HasGroups
  <2> QED
    BY <2>2, <2>3, <2>4, <2>5, <2>6, <2>7
<1>5. ChecksAt(c, call'[c].pc, Live')
  BY <1>1, <1>2 DEF ChecksAt
<1>6. ~Lone(c)'
  BY <1>1 DEF Lone, Deletes
<1> QED
  BY <1>1, <1>2, <1>3, <1>4, <1>5, <1>6, ServeStep

-----------------------------------------------------------------------------
(***************************************************************************)
(* The handlers of users, of which none deletes a group.                   *)
(***************************************************************************)
\* What is known before a step of a request that the start-up has not overlapped.
Sound ==
    /\ AccountInv /\ request \in Scripts
    /\ ~Running(Boot) /\ ~OIDC
    /\ LoneDeletion /\ ServingInv

\* The handler answers.
LEMMA AnswerServes ==
    ASSUME Sound, NEW c \in Calls, Advances(c), ~Deletes(c), Answer(c),
           GroupStep, ListStep, UNCHANGED userSecret,
           NEW given, request[c].user \in tainted \/ given \subseteq Live,
           ObjectsKeep(c, NoRef, given)
    PROVE  ServingInv'
<1>1. AccountInv /\ request \in Scripts /\ LoneDeletion /\ ServingInv /\ c \in Everyone /\ AccountsTyped
  BY DEF Sound, AccountInv, Everyone
<1>2. Moves(c, "end", NoRef, {}, {})
  BY <1>1, AnswerMoves
<1>3. ChecksAt(c, "end", Live)
  BY DEF ChecksAt
<1> QED
  BY <1>1, <1>2, <1>3, HandlerServes

\* The handler goes on, with the object it holds.
LEMMA GotoServes ==
    ASSUME Sound, NEW c \in Calls, Advances(c), ~Deletes(c), NEW pc \in Places, Goto(c, pc),
           GroupStep, ListStep, UNCHANGED userSecret,
           NEW given, request[c].user \in tainted \/ given \subseteq Live,
           ObjectsKeep(c, call[c].ref, given), ChecksAt(c, pc, Live)
    PROVE  ServingInv'
<1>1. AccountInv /\ request \in Scripts /\ LoneDeletion /\ ServingInv /\ c \in Everyone /\ AccountsTyped
  BY DEF Sound, AccountInv, Everyone
<1>2. Moves(c, pc, call[c].ref, call[c].puts, call[c].drops)
  BY <1>1, GotoMoves
<1> QED
  BY <1>1, <1>2, HandlerServes

\* The handler saves.
LEMMA SaveServes ==
    ASSUME Sound, NEW c \in Calls, Advances(c), ~Deletes(c), NEW value \in User, Save(c, value),
           request[c].user \in Users, GroupStep, ListStep, UNCHANGED userSecret,
           request[c].user \in tainted \/ value.groups \subseteq Live,
           ObjectsKeep(c, call[c].ref, value.groups)
    PROVE  ServingInv'
<1>1. AccountInv /\ request \in Scripts /\ LoneDeletion /\ ServingInv /\ AccountsTyped
  BY DEF Sound, AccountInv
<1> DEFINE p == [user |-> request[c].user, value |-> value]
<1>2. Moves(c, "save", call[c].ref, {p}, call[c].drops)
  BY <1>1, SaveMoves
<1>3. p.user = request[c].user /\ p.value.groups = value.groups
  OBVIOUS
<1> HIDE DEF p
<1>4. ChecksAt(c, "save", Live)
  BY DEF ChecksAt
<1>5. \A q \in {p} : q \in call[c].puts \/ (q.user = request[c].user /\ q.value.groups = value.groups)
  BY <1>3
<1> QED
  BY <1>1, <1>2, <1>4, <1>5, HandlerServes

\* The groups of the object that a handler holds may be referred to.
LEMMA ObjectIsLive ==
    ASSUME Sound, NEW c \in Calls, Has(c), request[c].user \in Users
    PROVE  /\ Object(c) \in User /\ Object(c).groups \in SUBSET Groups /\ call[c].ref # NoRef
           /\ request[c].user \in tainted \/ Object(c).groups \subseteq Live
<1>1. Object(c) \in User /\ call[c].ref # NoRef
  BY DEF Sound, AccountInv, RefsAreOwn, Object
<1>2. Object(c).groups \in SUBSET Groups
  BY <1>1 DEF User
<1>3. HasGroups(request[c].user, Object(c).groups)
  BY <1>1 DEF HasGroups, Object
<1> QED
  BY <1>1, <1>2, <1>3 DEF Sound, ServingInv, RefersToLive

\* The user is read.
LEMMA FetchUserServes ==
    ASSUME Sound, NEW c \in Calls, Advances(c), FetchUser(c)
    PROVE  ServingInv'
<1> DEFINE u == request[c].user
           r == userCache'[u]
<1>1. /\ AboutToReadUser(c) /\ UserView(u) # NoUser /\ ReadUser(u)
      /\ call' = [call EXCEPT ![c].pc = "have", ![c].ref = r]
      /\ UNCHANGED <<userSecret, userList, groups, request>>
  BY DEF FetchUser
<1>2. /\ AccountInv /\ AccountsTyped /\ RefsAreOwn /\ LoneDeletion /\ ServingInv /\ c \in Everyone
      /\ call[c] \in Call /\ request \in Scripts
  BY DEF Sound, AccountInv, Everyone, AccountsTyped
<1>3. u \in Users /\ ~Deletes(c)
  BY <1>1, <1>2, RequestIsTyped DEF AboutToReadUser, ReadsUserFirst, Deletes
<1>4. RefsStep /\ r # NoRef
  BY <1>1, <1>2, <1>3, ReadUserStep
<1>5. r \in Refs
  BY <1>3, <1>4 DEF RefsStep
<1>6. Moves(c, "have", r, call[c].puts, call[c].drops)
  BY <1>1, <1>2, <1>5 DEF Moves, AccountsTyped, Call, Places
<1>7. \A d \in Calls \ {c} : call[d].ref = r => request[d].user = u
  BY <1>3, <1>4 DEF RefsStep
<1>8. GroupStep /\ ListStep
  BY <1>1, <1>2, GroupReads DEF ListStep
<1>9. ChecksAt(c, "have", Live)
  <2>1. call[c].pc = "checked" \/ request[c].op \in ReadsUserFirst
    BY <1>1 DEF AboutToReadUser
  <2> QED
    BY <1>2, <2>1 DEF ChecksAt, ServingInv, ChecksHold, ReadsUserFirst
<1>10. ObjectsKeep(c, r, {})
  BY <1>1, <1>2, <1>3, ReadObjects
<1> HIDE DEF u, r
<1> QED
  BY <1>1, <1>2, <1>3, <1>6, <1>7, <1>8, <1>9, <1>10, HandlerServes DEF u

\* The handler finds no user, and answers.
LEMMA NoSuchUserServes ==
    ASSUME Sound, NEW c \in Calls, Advances(c), NoSuchUser(c)
    PROVE  ServingInv'
<1>1. AboutToReadUser(c) /\ Answer(c) /\ UNCHANGED <<users, groups>> /\ AccountsTyped
  BY DEF NoSuchUser, Sound, AccountInv
<1>2. ~Deletes(c) /\ GroupStep /\ ListStep /\ UNCHANGED userSecret
  BY <1>1, GroupReads DEF AboutToReadUser, ReadsUserFirst, Deletes, ListStep, users
<1>3. ObjectsKeep(c, NoRef, {})
  BY <1>1, SameObjects DEF users
<1> QED
  BY <1>1, <1>2, <1>3, AnswerServes

\* The group that is to be added exists.
LEMMA CheckGroupServes ==
    ASSUME Sound, NEW c \in Calls, Advances(c), CheckGroup(c)
    PROVE  ServingInv'
<1>1. /\ request[c].op = "addGroup" /\ ReadAllGroups /\ UNCHANGED users /\ AccountsTyped
      /\ Answer(c) \/ (Goto(c, "checked") /\ AllGroups[request[c].group] # NoGroup)
  BY DEF CheckGroup, Sound, AccountInv
<1>2. ~Deletes(c) /\ GroupStep /\ ListStep /\ UNCHANGED userSecret
  BY <1>1, GroupReads DEF Deletes, ListStep, users
<1>3. ObjectsKeep(c, NoRef, {}) /\ ObjectsKeep(c, call[c].ref, {})
  BY <1>1, SameObjects DEF users
<1>4. CASE Answer(c)
  BY <1>2, <1>3, <1>4, AnswerServes
<1>5. CASE Goto(c, "checked") /\ AllGroups[request[c].group] # NoGroup
  <2>1. request[c].group \in Groups
    BY <1>1, RequestIsTyped DEF Sound
  <2>2. request[c].group \in Live
    BY <1>5, <2>1, FoundAreLive DEF Sound, ServingInv
  <2>3. ChecksAt(c, "checked", Live) /\ "checked" \in Places
    BY <1>1, <2>2 DEF ChecksAt, Places
  <2> QED
    BY <1>2, <1>3, <1>5, <2>3, GotoServes
<1> QED
  BY <1>1, <1>4, <1>5

\* So do the virtual clusters.
LEMMA FoundVCsAreLive ==
    ASSUME Sound, NEW vcs \in SUBSET Groups, AreVCs(vcs)
    PROVE  vcs \subseteq Live
BY FoundAreLive DEF AreVCs, Found, Sound, ServingInv

\* The virtual clusters of the request are looked up.
LEMMA CheckVCsServes ==
    ASSUME Sound, NEW c \in Calls, Advances(c), CheckVCs(c)
    PROVE  ServingInv'
<1>1. /\ request[c].op \in {"setVCs", "create"} /\ ReadGroups(request[c].vcs) /\ UNCHANGED users
      /\ Answer(c) \/ (Goto(c, "checked") /\ AreVCs(request[c].vcs))
      /\ AccountsTyped
  BY DEF CheckVCs, Sound, AccountInv
<1>2. ~Deletes(c) /\ GroupStep /\ ListStep /\ UNCHANGED userSecret
  BY <1>1, GroupReads DEF Deletes, ListStep, users, Sound, AccountInv
<1>3. ObjectsKeep(c, NoRef, {}) /\ ObjectsKeep(c, call[c].ref, {})
  BY <1>1, SameObjects DEF users
<1>4. CASE Answer(c)
  BY <1>2, <1>3, <1>4, AnswerServes
<1>5. CASE Goto(c, "checked") /\ AreVCs(request[c].vcs)
  <2>1. request[c].vcs \in SUBSET Groups
    BY <1>1, RequestIsTyped DEF Sound
  <2>2. ChecksAt(c, "checked", Live) /\ "checked" \in Places
    BY <1>1, <1>5, <2>1, FoundVCsAreLive DEF ChecksAt, Places
  <2> QED
    BY <1>2, <1>3, <1>5, <2>2, GotoServes
<1> QED
  BY <1>1, <1>4, <1>5

\* The user is read once more, with its groups.
LEMMA CheckAdminServes ==
    ASSUME Sound, NEW c \in Calls, Advances(c), CheckAdmin(c)
    PROVE  ServingInv'
<1> DEFINE u == request[c].user
<1>1. /\ \/ call[c].pc = "new" /\ request[c].op = "delete"
         \/ call[c].pc = "have" /\ request[c].op = "setVCs"
      /\ \/ Answer(c) /\ UNCHANGED <<users, groups>>
         \/ /\ UserView(u) # NoUser /\ ReadUser(u) /\ ReadGroups(UserView(u).groups)
            /\ Goto(c, "allowed") \/ Answer(c)
            /\ UNCHANGED <<userSecret, userList>>
      /\ AccountInv /\ AccountsTyped
  BY DEF CheckAdmin, Sound, AccountInv
<1>2. u \in Users /\ ~Deletes(c)
  BY <1>1, RequestIsTyped DEF Sound, Deletes
<1>3. CASE Answer(c) /\ UNCHANGED <<users, groups>>
  <2>1. GroupStep /\ ListStep /\ UNCHANGED userSecret
    BY <1>1, <1>3, GroupReads DEF ListStep, users
  <2>2. ObjectsKeep(c, NoRef, {})
    BY <1>3, SameObjects DEF users
  <2> QED
    BY <1>2, <1>3, <2>1, <2>2, AnswerServes
<1>4. CASE /\ UserView(u) # NoUser /\ ReadUser(u) /\ ReadGroups(UserView(u).groups)
           /\ Goto(c, "allowed") \/ Answer(c)
           /\ UNCHANGED <<userSecret, userList>>
  <2>1. GroupStep /\ ListStep /\ UNCHANGED userSecret
    BY <1>1, <1>4, GroupReads DEF ListStep
  <2>2. ObjectsKeep(c, NoRef, {}) /\ ObjectsKeep(c, call[c].ref, {})
    BY <1>1, <1>2, <1>4, ReadObjects
  <2>3. ChecksAt(c, "allowed", Live) /\ "allowed" \in Places
    BY <1>1 DEF ChecksAt, Places, Sound, ServingInv, ChecksHold
  <2> QED
    BY <1>2, <1>4, <2>1, <2>2, <2>3, AnswerServes, GotoServes
<1> QED
  BY <1>1, <1>3, <1>4

\* The list of the users is read.
LEMMA ListUsersServes ==
    ASSUME Sound, NEW c \in Calls, Advances(c), ListUsers(c)
    PROVE  ServingInv'
<1>1. /\ request[c].op = "list" /\ userList' = AllUsers /\ ReadAllGroups /\ Answer(c)
      /\ UNCHANGED <<userSecret, objects, userCache>> /\ AccountsTyped
  BY DEF ListUsers, Sound, AccountInv
<1>2. ~Deletes(c) /\ GroupStep /\ ListStep
  BY <1>1, GroupReads DEF Deletes, ListStep
<1>3. ObjectsKeep(c, NoRef, {})
  BY <1>1, SameObjects
<1> QED
  BY <1>1, <1>2, <1>3, AnswerServes

\* The handler of a new user drops the list.
LEMMA CreatedServes ==
    ASSUME Sound, NEW c \in Calls, Advances(c), Created(c)
    PROVE  ServingInv'
<1>1. /\ call[c].pc = "created" /\ userList' = NoList /\ Answer(c)
      /\ UNCHANGED <<userSecret, objects, userCache, groups>>
      /\ AccountsTyped /\ call[c].pc \in PlacesOf(request[c].op)
  BY DEF Created, Sound, AccountInv, PlacesAreRight
<1>2. ~Deletes(c) /\ GroupStep /\ ListStep
  BY <1>1, GroupReads DEF Deletes, ListStep, PlacesOf
<1>3. ObjectsKeep(c, NoRef, {})
  BY <1>1, SameObjects
<1> QED
  BY <1>1, <1>2, <1>3, AnswerServes

\* Handlers that hold an object delete no group.
LEMMA HolderDeletesNone ==
    ASSUME Sound, NEW c \in Calls, Has(c)
    PROVE  ~Deletes(c)
<1>1. call[c].pc \in PlacesOf(request[c].op)
  BY DEF Sound, AccountInv, PlacesAreRight
<1> QED
  BY <1>1 DEF Has, Deletes, PlacesOf

\* The handler changes the object it holds, and goes on with it, gives up or saves it.
LEMMA ChangeServes ==
    ASSUME Sound, NEW c \in Calls, Advances(c), Has(c), request[c].user \in Users,
           NEW o \in User, Change(c, o), GroupStep, UNCHANGED <<userSecret, userCache, userList>>,
           request[c].user \in tainted \/ o.groups \subseteq Live,
           \/ Answer(c)
           \/ \E pc \in Midway : Goto(c, pc)
           \/ \E value \in User : Save(c, value) /\ value.groups = o.groups
    PROVE  ServingInv'
<1>1. call[c].ref # NoRef /\ ~Deletes(c)
  BY ObjectIsLive, HolderDeletesNone
<1>2. ListStep
  BY DEF ListStep
<1>3. \A ref \in {call[c].ref, NoRef} : ObjectsKeep(c, ref, o.groups)
  BY <1>1, ChangedObjects DEF Change, Sound, ServingInv
<1>4. CASE Answer(c)
  BY <1>1, <1>2, <1>3, <1>4, AnswerServes
<1>5. ASSUME NEW pc \in Midway, Goto(c, pc)
      PROVE  ServingInv'
  <2>1. ChecksAt(c, pc, Live) /\ pc \in Places
    BY <1>5 DEF ChecksAt, Midway, Places, BootPlaces
  <2> QED
    BY <1>1, <1>2, <1>3, <1>5, <2>1, GotoServes
<1>6. ASSUME NEW value \in User, Save(c, value), value.groups = o.groups
      PROVE  ServingInv'
  BY <1>1, <1>2, <1>3, <1>6, SaveServes
<1> QED
  BY <1>4, <1>5, <1>6

\* The handler leaves the object alone: it answers, goes on to the token, or saves a copy.
LEMMA KeepServes ==
    ASSUME Sound, NEW c \in Calls, Advances(c), Has(c), request[c].user \in Users,
           GroupStep, UNCHANGED users,
           \/ Answer(c) \/ Goto(c, "token")
           \/ \E value \in User : Save(c, value) /\ value.groups = Object(c).groups
    PROVE  ServingInv'
<1> DEFINE gs == Object(c).groups
<1>1. /\ ~Deletes(c)
      /\ request[c].user \in tainted \/ gs \subseteq Live
      /\ ListStep /\ UNCHANGED <<userSecret, objects, userCache>>
  BY ObjectIsLive, HolderDeletesNone DEF ListStep, users
<1>2. \A ref \in {call[c].ref, NoRef} : ObjectsKeep(c, ref, gs)
  BY <1>1, SameObjects
<1>3. CASE Answer(c)
  BY <1>1, <1>2, <1>3, AnswerServes
<1>4. CASE Goto(c, "token")
  <2>1. ChecksAt(c, "token", Live) /\ "token" \in Places
    BY DEF ChecksAt, Places
  <2> QED
    BY <1>1, <1>2, <1>4, <2>1, GotoServes
<1>5. ASSUME NEW value \in User, Save(c, value), value.groups = gs
      PROVE  ServingInv'
  BY <1>1, <1>2, <1>5, SaveServes
<1> QED
  BY <1>3, <1>4, <1>5

\* The object is changed and saved.
LEMMA ChangeAndSaveServes ==
    ASSUME Sound, NEW c \in Calls, Advances(c), Has(c), request[c].user \in Users,
           NEW o \in User, ChangeAndSave(c, o), GroupStep,
           request[c].user \in tainted \/ o.groups \subseteq Live
    PROVE  ServingInv'
BY ChangeServes DEF ChangeAndSave, Change

\* Handlers that leave the groups of the user as they are.
LEMMA GetUserServes ==
    ASSUME Sound, NEW c \in Calls, Advances(c), GetUser(c)
    PROVE  ServingInv'
<1> DEFINE o == [Object(c) EXCEPT !.password = Erased]
<1>1. /\ Holds(c, "get") /\ ReadGroups(Object(c).groups) /\ Answer(c)
      /\ objects' = [objects EXCEPT ![call[c].ref].password = Erased] \/ UNCHANGED objects
      /\ UNCHANGED <<userSecret, userCache, userList>> /\ AccountsTyped /\ request \in Scripts
  BY DEF GetUser, Sound, AccountInv
<1>2. Has(c) /\ request[c].user \in Users
  BY <1>1, HoldsHas
<1>3. /\ Object(c) \in User /\ GroupStep
      /\ request[c].user \in tainted \/ Object(c).groups \subseteq Live
  BY <1>1, <1>2, ObjectIsLive, GroupReads
<1>4. o \in User /\ o.groups = Object(c).groups
  BY <1>3 DEF User, Passwords
<1>5. objects' = [objects EXCEPT ![call[c].ref].password = Erased] => Change(c, o)
  BY DEF Change, Object
<1> HIDE DEF o
<1>6. CASE Change(c, o)
  BY <1>1, <1>2, <1>3, <1>4, <1>6, ChangeServes
<1>7. CASE UNCHANGED objects
  BY <1>1, <1>2, <1>3, <1>7, KeepServes DEF users
<1> QED
  BY <1>1, <1>5, <1>6, <1>7

\* The e-mail of the user.
LEMMA SetEmailServes ==
    ASSUME Sound, NEW c \in Calls, Advances(c), SetEmail(c)
    PROVE  ServingInv'
<1> DEFINE o == [Object(c) EXCEPT !.email = request[c].email]
<1>1. /\ Holds(c, "email") /\ ChangeAndSave(c, o) /\ UNCHANGED groups
      /\ AccountsTyped /\ request \in Scripts
  BY DEF SetEmail, Sound, AccountInv
<1>2. Has(c) /\ request[c].user \in Users /\ request[c].op = "email"
  BY <1>1, HoldsHas
<1>3. /\ Object(c) \in User /\ GroupStep /\ request[c].email \in Emails
      /\ request[c].user \in tainted \/ Object(c).groups \subseteq Live
  BY <1>1, <1>2, ObjectIsLive, GroupReads, RequestIsTyped
<1>4. o \in User /\ o.groups = Object(c).groups
  BY <1>3 DEF User
<1> HIDE DEF o
<1> QED
  BY <1>1, <1>2, <1>3, <1>4, ChangeAndSaveServes

\* The password of the user.
LEMMA SetPasswordServes ==
    ASSUME Sound, NEW c \in Calls, Advances(c), SetPassword(c)
    PROVE  ServingInv'
<1> DEFINE o == [Object(c) EXCEPT !.password = Hash(request[c].new)]
<1>1. /\ Holds(c, "password") /\ (Save(c, o) \/ Answer(c)) /\ UNCHANGED <<users, groups>>
      /\ AccountsTyped /\ request \in Scripts
  BY DEF SetPassword, Sound, AccountInv
<1>2. Has(c) /\ request[c].user \in Users /\ request[c].op = "password"
  BY <1>1, HoldsHas
<1>3. Object(c) \in User /\ GroupStep /\ request[c].new \in Texts
  BY <1>1, <1>2, ObjectIsLive, GroupReads, RequestIsTyped
<1>4. o \in User /\ o.groups = Object(c).groups
  BY <1>3 DEF User, Passwords
<1> HIDE DEF o
<1> QED
  BY <1>1, <1>2, <1>3, <1>4, KeepServes

\* A sign-in reads the groups of the user.
LEMMA SignInServes ==
    ASSUME Sound, NEW c \in Calls, Advances(c), SignIn(c)
    PROVE  ServingInv'
<1>1. /\ Holds(c, "signIn") /\ ReadGroups(Object(c).groups) /\ (Goto(c, "token") \/ Answer(c))
      /\ UNCHANGED users /\ AccountsTyped /\ request \in Scripts
  BY DEF SignIn, Sound, AccountInv
<1>2. Has(c) /\ request[c].user \in Users /\ GroupStep
  BY <1>1, HoldsHas, GroupReads
<1> QED
  BY <1>1, <1>2, KeepServes

\* Handlers that change the groups of the user: to groups that exist,
LEMMA SetGroupsServes ==
    ASSUME Sound, NEW c \in Calls, Advances(c), SetGroups(c)
    PROVE  ServingInv'
<1> DEFINE o == [Object(c) EXCEPT !.groups = request[c].groups]
<1>1. /\ Holds(c, "setGroups") /\ ReadAllGroups
      /\ \/ Existing(request[c].groups) = request[c].groups /\ ChangeAndSave(c, o)
         \/ Answer(c) /\ UNCHANGED users
      /\ AccountsTyped /\ request \in Scripts
  BY DEF SetGroups, Holds, OIDC, Sound, AccountInv
<1>2. Has(c) /\ request[c].user \in Users /\ request[c].op = "setGroups"
  BY <1>1, HoldsHas
<1>3. Object(c) \in User /\ GroupStep /\ request[c].groups \in SUBSET Groups
  BY <1>1, <1>2, ObjectIsLive, GroupReads, RequestIsTyped
<1>4. o \in User /\ o.groups = request[c].groups
  BY <1>3 DEF User
<1>5. CASE Existing(request[c].groups) = request[c].groups /\ ChangeAndSave(c, o)
  <2>1. request[c].groups \subseteq Live
    BY <1>3, <1>5, FoundAreLive DEF Existing, Sound, ServingInv
  <2> HIDE DEF o
  <2> QED
    BY <1>2, <1>3, <1>4, <1>5, <2>1, ChangeAndSaveServes
<1>6. CASE Answer(c) /\ UNCHANGED users
  BY <1>2, <1>3, <1>6, KeepServes
<1> QED
  BY <1>1, <1>5, <1>6

\* by one that was found before,
LEMMA AddGroupServes ==
    ASSUME Sound, NEW c \in Calls, Advances(c), AddGroup(c)
    PROVE  ServingInv'
<1> DEFINE o == [Object(c) EXCEPT !.groups = @ \union {request[c].group}]
<1>1. /\ Holds(c, "addGroup") /\ ChangeAndSave(c, o) /\ UNCHANGED groups
      /\ AccountsTyped /\ request \in Scripts
  BY DEF AddGroup, Sound, AccountInv
<1>2. Has(c) /\ request[c].user \in Users /\ request[c].op = "addGroup" /\ call[c].pc = "have"
  BY <1>1, HoldsHas DEF Holds
<1>3. /\ Object(c) \in User /\ GroupStep /\ request[c].group \in Groups
      /\ request[c].user \in tainted \/ Object(c).groups \subseteq Live
  BY <1>1, <1>2, ObjectIsLive, GroupReads, RequestIsTyped
<1>4. request[c].group \in Live
  BY <1>2 DEF Sound, ServingInv, ChecksHold
<1>5. o \in User /\ o.groups = Object(c).groups \union {request[c].group}
  BY <1>3 DEF User
<1> HIDE DEF o
<1> QED
  BY <1>1, <1>2, <1>3, <1>4, <1>5, ChangeAndSaveServes

\* without one,
LEMMA RemoveGroupServes ==
    ASSUME Sound, NEW c \in Calls, Advances(c), RemoveGroup(c)
    PROVE  ServingInv'
<1> DEFINE o == [Object(c) EXCEPT !.groups = @ \ {request[c].group}]
<1>1. /\ Holds(c, "removeGroup") /\ ChangeAndSave(c, o) /\ UNCHANGED groups
      /\ AccountsTyped /\ request \in Scripts
  BY DEF RemoveGroup, Sound, AccountInv
<1>2. Has(c) /\ request[c].user \in Users
  BY <1>1, HoldsHas
<1>3. /\ Object(c) \in User /\ GroupStep
      /\ request[c].user \in tainted \/ Object(c).groups \subseteq Live
  BY <1>1, <1>2, ObjectIsLive, GroupReads
<1>4. o \in User /\ o.groups \subseteq Object(c).groups
  BY <1>3 DEF User
<1> HIDE DEF o
<1> QED
  BY <1>1, <1>2, <1>3, <1>4, ChangeAndSaveServes

\* to virtual clusters that were found before and the default one,
LEMMA WithVCsIsLive ==
    ASSUME NEW o \in User, NEW vcs \in SUBSET Groups, vcs \subseteq Live
    PROVE  WithVCs(o, vcs) \in User /\ WithVCs(o, vcs).groups \subseteq Live
<1>1. DefaultGroup \in Groups
  BY AccountsAssumption
<1>2. vcs \union {DefaultGroup} \in SUBSET Groups /\ vcs \union {DefaultGroup} \subseteq Live
  BY <1>1 DEF Live
<1> QED
  BY <1>2 DEF WithVCs, User

\* The virtual clusters of the user.
LEMMA SetVCsServes ==
    ASSUME Sound, NEW c \in Calls, Advances(c), SetVCs(c)
    PROVE  ServingInv'
<1>1. /\ call[c].pc = "allowed" /\ request[c].op = "setVCs"
      /\ ChangeAndSave(c, WithVCs(Object(c), request[c].vcs)) /\ UNCHANGED groups
      /\ AccountsTyped /\ request \in Scripts
  BY DEF SetVCs, Sound, AccountInv
<1>2. Has(c) /\ request[c].user \in Users /\ request[c].vcs \in SUBSET Groups
  BY <1>1, RequestIsTyped DEF Has
<1>3. Object(c) \in User /\ GroupStep
  BY <1>1, <1>2, ObjectIsLive, GroupReads
<1>4. request[c].vcs \subseteq Live
  BY <1>1 DEF Sound, ServingInv, ChecksHold
<1> QED
  BY <1>1, <1>2, <1>3, <1>4, WithVCsIsLive, ChangeAndSaveServes

\* and with the group of the administrators, or without those that make administrators.
LEMMA WithAdminIsLive ==
    ASSUME NEW o \in User, o.groups \subseteq Live, NEW admin
    PROVE  WithAdmin(o, admin).groups \subseteq Live
<1>1. AdminGroup \in Live /\ AdminGroup \in Groups
  BY AccountsAssumption DEF Live
<1>2. PICK gs \in SUBSET Live : WithAdmin(o, admin) = [o EXCEPT !.groups = gs]
  <2>1. {o.groups \union {AdminGroup}, {g \in o.groups : ~GroupView(g).admin}, o.groups} \subseteq SUBSET Live
    BY <1>1
  <2> QED
    BY <2>1 DEF WithAdmin, User
<1> QED
  BY <1>2 DEF User

\* The permission of the user.
LEMMA SetAdminServes ==
    ASSUME Sound, NEW c \in Calls, Advances(c), SetAdmin(c)
    PROVE  ServingInv'
<1> DEFINE o == WithAdmin(Object(c), request[c].admin)
<1>1. /\ Holds(c, "admin") /\ ReadGroups(Object(c).groups)
      /\ ChangeAndSave(c, o) \/ (Answer(c) /\ UNCHANGED users)
      /\ AccountsTyped /\ request \in Scripts
  BY DEF SetAdmin, Sound, AccountInv
<1>2. Has(c) /\ request[c].user \in Users
  BY <1>1, HoldsHas
<1>3. /\ Object(c) \in User /\ GroupStep
      /\ request[c].user \in tainted \/ Object(c).groups \subseteq Live
  BY <1>1, <1>2, ObjectIsLive, GroupReads
<1>4. o \in User /\ (request[c].user \in tainted \/ o.groups \subseteq Live)
  BY <1>3, WithAdminIsUser, WithAdminIsLive
<1> HIDE DEF o
<1>5. CASE ChangeAndSave(c, o)
  BY <1>2, <1>3, <1>4, <1>5, ChangeAndSaveServes
<1>6. CASE Answer(c) /\ UNCHANGED users
  BY <1>2, <1>3, <1>6, KeepServes
<1> QED
  BY <1>1, <1>5, <1>6

\* The parts of an update: the e-mail, which is no group,
LEMMA PatchedIsLive ==
    ASSUME Sound, NEW c \in Calls, Has(c), request[c].user \in Users,
           request[c].op \in {"update", "self"}
    PROVE  /\ Patched(c) \in User
           /\ request[c].user \in tainted \/ Patched(c).groups \subseteq Live
<1>1. /\ Object(c) \in User /\ request \in Scripts
      /\ request[c].user \in tainted \/ Object(c).groups \subseteq Live
  BY ObjectIsLive DEF Sound
<1>2. Patched(c) \in User
  BY <1>1, PatchedIsUser
<1>3. Patched(c).groups = Object(c).groups
  BY <1>1 DEF Patched, User
<1> QED
  BY <1>1, <1>2, <1>3

\* The first part of an update.
LEMMA UpdateEmailServes ==
    ASSUME Sound, NEW c \in Calls, Advances(c), UpdateEmail(c)
    PROVE  ServingInv'
<1>1. /\ Holds(c, "update") /\ Change(c, Patched(c)) /\ (Goto(c, "vc") \/ Goto(c, "admin"))
      /\ UNCHANGED <<userSecret, userCache, userList, groups>>
      /\ AccountsTyped /\ request \in Scripts
  BY DEF UpdateEmail, Sound, AccountInv
<1>2. Has(c) /\ request[c].user \in Users /\ request[c].op = "update" /\ GroupStep
  BY <1>1, HoldsHas, GroupReads
<1>3. \E pc \in Midway : Goto(c, pc)
  BY <1>1 DEF Midway
<1> QED
  BY <1>1, <1>2, <1>3, PatchedIsLive, ChangeServes

\* its virtual clusters,
LEMMA UpdateVCsServes ==
    ASSUME Sound, NEW c \in Calls, Advances(c), UpdateVCs(c)
    PROVE  ServingInv'
<1> DEFINE o == WithVCs(Object(c), request[c].vcs)
<1>1. /\ call[c].pc = "vc" /\ ReadGroups(request[c].vcs)
      /\ \/ AreVCs(request[c].vcs) /\ Change(c, o) /\ Goto(c, "admin")
         \/ Answer(c) /\ UNCHANGED objects
      /\ UNCHANGED <<userSecret, userCache, userList>>
      /\ AccountsTyped /\ request \in Scripts /\ PlacesAreRight
  BY DEF UpdateVCs, Sound, AccountInv
<1>2. Has(c) /\ request[c].op = "update"
  BY <1>1 DEF Has, PlacesAreRight, PlacesOf
<1>3. request[c].user \in Users /\ request[c].vcs \in SUBSET Groups /\ GroupStep
  BY <1>1, <1>2, RequestIsTyped, GroupReads
<1>4. CASE AreVCs(request[c].vcs) /\ Change(c, o) /\ Goto(c, "admin")
  <2>1. o \in User /\ o.groups \subseteq Live
    BY <1>2, <1>3, <1>4, ObjectIsLive, FoundVCsAreLive, WithVCsIsLive
  <2>2. \E pc \in Midway : Goto(c, pc)
    BY <1>4 DEF Midway
  <2> HIDE DEF o
  <2> QED
    BY <1>1, <1>2, <1>3, <1>4, <2>1, <2>2, ChangeServes
<1>5. CASE Answer(c) /\ UNCHANGED objects
  BY <1>1, <1>2, <1>3, <1>5, KeepServes DEF users
<1> QED
  BY <1>1, <1>4, <1>5

\* its permission and password,
LEMMA UpdateRestServes ==
    ASSUME Sound, NEW c \in Calls, Advances(c), UpdateRest(c)
    PROVE  ServingInv'
<1> DEFINE o == IF Sets(c, "admin") THEN WithAdmin(Object(c), request[c].admin) ELSE Object(c)
           plain == [o EXCEPT !.password = Plain(request[c].new)]
           hash == [o EXCEPT !.password = Hash(request[c].new)]
<1>1. /\ call[c].pc = "admin" /\ ReadGroups(IF Sets(c, "admin") THEN Object(c).groups ELSE {})
      /\ \/ Answer(c) /\ UNCHANGED objects
         \/ Change(c, plain) /\ Save(c, hash)
         \/ Change(c, o) /\ Save(c, o)
      /\ UNCHANGED <<userSecret, userCache, userList>>
      /\ AccountsTyped /\ request \in Scripts /\ PlacesAreRight
  BY DEF UpdateRest, SaveWithPassword, Sound, AccountInv
<1>2. Has(c) /\ request[c].op = "update"
  BY <1>1 DEF Has, PlacesAreRight, PlacesOf
<1>3. request[c].user \in Users /\ request[c].new \in Texts /\ GroupStep
  BY <1>1, <1>2, RequestIsTyped, GroupReads
<1>4. /\ Object(c) \in User
      /\ request[c].user \in tainted \/ Object(c).groups \subseteq Live
  BY <1>2, <1>3, ObjectIsLive
<1>5. o \in User /\ (request[c].user \in tainted \/ o.groups \subseteq Live)
  BY <1>4, WithAdminIsUser, WithAdminIsLive
<1> HIDE DEF o
<1>6. plain \in User /\ hash \in User /\ plain.groups = o.groups /\ hash.groups = o.groups
  BY <1>3, <1>5 DEF User, Passwords
<1> HIDE DEF plain, hash
<1>7. CASE Answer(c) /\ UNCHANGED objects
  BY <1>1, <1>2, <1>3, <1>7, KeepServes DEF users
<1>8. ASSUME NEW x \in User, NEW y \in User, Change(c, x), Save(c, y),
             x.groups = o.groups, y.groups = o.groups
      PROVE  ServingInv'
  BY <1>1, <1>2, <1>3, <1>5, <1>8, ChangeServes
<1> QED
  BY <1>1, <1>5, <1>6, <1>7, <1>8

\* and the update of oneself.
LEMMA UpdateSelfServes ==
    ASSUME Sound, NEW c \in Calls, Advances(c), UpdateSelf(c)
    PROVE  ServingInv'
<1> DEFINE plain == [Object(c) EXCEPT !.password = Plain(request[c].new)]
           hash == [Object(c) EXCEPT !.password = Hash(request[c].new)]
<1>1. /\ \/ /\ Holds(c, "self") /\ Change(c, Patched(c))
            /\ Save(c, Patched(c)) \/ Goto(c, "verified") \/ Answer(c)
         \/ call[c].pc = "verified" /\ Change(c, plain) /\ Save(c, hash)
      /\ UNCHANGED <<userSecret, userCache, userList, groups>>
      /\ AccountsTyped /\ request \in Scripts /\ PlacesAreRight
  BY DEF UpdateSelf, SaveWithPassword, Sound, AccountInv
<1>2. Has(c) /\ request[c].op = "self"
  BY <1>1 DEF Holds, Has, PlacesAreRight, PlacesOf
<1>3. request[c].user \in Users /\ request[c].new \in Texts /\ GroupStep
  BY <1>1, <1>2, RequestIsTyped, GroupReads
<1>4. /\ Object(c) \in User
      /\ request[c].user \in tainted \/ Object(c).groups \subseteq Live
  BY <1>2, <1>3, ObjectIsLive
<1>5. /\ plain \in User /\ hash \in User
      /\ plain.groups = Object(c).groups /\ hash.groups = Object(c).groups
  BY <1>3, <1>4 DEF User, Passwords
<1> HIDE DEF plain, hash
<1>6. CASE /\ Change(c, Patched(c))
           /\ Save(c, Patched(c)) \/ Goto(c, "verified") \/ Answer(c)
  <2>1. /\ Patched(c) \in User
        /\ request[c].user \in tainted \/ Patched(c).groups \subseteq Live
    BY <1>2, <1>3, PatchedIsLive
  <2>2. Goto(c, "verified") => \E pc \in Midway : Goto(c, pc)
    BY DEF Midway
  <2> QED
    BY <1>1, <1>2, <1>3, <1>6, <2>1, <2>2, ChangeServes
<1>7. CASE Change(c, plain) /\ Save(c, hash)
  BY <1>1, <1>2, <1>3, <1>4, <1>5, <1>7, ChangeServes
<1> QED
  BY <1>1, <1>6, <1>7

-----------------------------------------------------------------------------
(***************************************************************************)
(* The handlers that write users and groups.                               *)
(***************************************************************************)
\* A step that leaves the objects and what is under way, or less, and no PUT of its own,
\* to refer to; what it writes of users, users may refer to.
LEMMA WriterServes ==
    ASSUME Sound, NEW c \in Calls, Advances(c),
           UNCHANGED objects, \A u \in Users : userCache'[u] \in {userCache[u], NoRef},
           userList' \in {userList, NoList},
           call'[c].ref \in {call[c].ref, NoRef}, call'[c].puts \subseteq call[c].puts,
           \A u \in Users : \/ userSecret'[u] \in {userSecret[u], NoUser}
                            \/ userSecret'[u].groups \subseteq Live
                            \/ HasGroups(u, userSecret'[u].groups),
           Live \subseteq Live',
           \A g \in Groups : \/ groupCache'[g] \in {groupCache[g], NoGroup}
                             \/ g \in Live,
           groupList' \in {groupList, NoList},
           ChecksAt(c, call'[c].pc, Live), Lone(c)' => Forgotten(c)'
    PROVE  ServingInv'
<1>1. /\ request' = request /\ tainted \subseteq tainted'
      /\ \A d \in Calls \ {c} : call'[d] = call[d]
  BY DEF Advances, Recorded, Everyone
<1>2. Live \subseteq Live'
  OBVIOUS
<1>3. CachedAreLive'
  <2> SUFFICES ASSUME NEW g \in Groups,
                      groupCache'[g] # NoGroup \/ (groupList' # NoList /\ groupList'[g] # NoGroup)
               PROVE  g \in Live'
    BY DEF CachedAreLive
  <2> QED
    BY <1>2 DEF Sound, ServingInv, CachedAreLive
<1>4. RefersKept
  <2> SUFFICES ASSUME NEW u \in Users, NEW gs \in SUBSET Groups, u \notin tainted', HasGroups(u, gs)'
               PROVE  HasGroups(u, gs) \/ gs \subseteq Live'
    BY DEF RefersKept
  <2>1. \/ userSecret'[u] # NoUser /\ gs = userSecret'[u].groups
        \/ userCache'[u] # NoRef /\ gs = objects'[userCache'[u]].groups
        \/ userList' # NoList /\ userList'[u] # NoUser /\ gs = userList'[u].groups
        \/ \E d \in Calls : call'[d].ref # NoRef /\ request[d].user = u /\ gs = objects'[call'[d].ref].groups
        \/ \E d \in Calls : \E p \in call'[d].puts : p.user = u /\ gs = p.value.groups
    BY <1>1 DEF HasGroups
  <2>2. CASE userSecret'[u] # NoUser /\ gs = userSecret'[u].groups
    BY <1>2, <2>2 DEF HasGroups
  <2>3. CASE userCache'[u] # NoRef /\ gs = objects'[userCache'[u]].groups
    BY <2>3 DEF HasGroups
  <2>4. CASE userList' # NoList /\ userList'[u] # NoUser /\ gs = userList'[u].groups
    BY <2>4 DEF HasGroups
  <2>5. CASE \E d \in Calls : call'[d].ref # NoRef /\ request[d].user = u /\ gs = objects'[call'[d].ref].groups
    BY <1>1, <2>5 DEF HasGroups
  <2>6. CASE \E d \in Calls : \E p \in call'[d].puts : p.user = u /\ gs = p.value.groups
    BY <1>1, <2>6 DEF HasGroups
  <2> QED
    BY <2>1, <2>2, <2>3, <2>4, <2>5, <2>6
<1>5. ChecksAt(c, call'[c].pc, Live')
  BY <1>2 DEF ChecksAt
<1> QED
  BY <1>2, <1>3, <1>4, <1>5, ServeStep DEF Sound

\* The user is deleted.
LEMMA DeleteUserServes ==
    ASSUME Sound, NEW c \in Calls, Advances(c), NEW o \in Outcomes, DeleteUser(c, o)
    PROVE  ServingInv'
<1>1. /\ AccountsTyped /\ call[c] \in Call /\ c \in Everyone
      /\ request[c].op = "delete" /\ call[c].puts = {} /\ call[c].drops = {}
  BY DEF DeleteUser, Sound, AccountInv, AccountsTyped, Everyone, PlacesAreRight
<1>2. /\ UNCHANGED <<objects, userCache, userList, groups>>
      /\ \A u \in Users : userSecret'[u] \in {userSecret[u], NoUser}
  BY <1>1 DEF DeleteUser, AccountsTyped
<1>3. /\ call'[c].ref \in {call[c].ref, NoRef} /\ call'[c].puts = {}
      /\ call'[c].pc \in {"save", "end"}
  BY <1>1 DEF DeleteUser, AccountsTyped, Answer, Fresh, Call
<1>4. ChecksAt(c, call'[c].pc, Live)
  BY <1>3 DEF ChecksAt
<1>5. ~Deletes(c) /\ ~Deletes(c)'
  BY <1>1 DEF Deletes, Advances
<1> QED
  BY <1>1, <1>2, <1>3, <1>4, <1>5, LiveStays, WriterServes DEF groups, Lone, Sound

\* A user is created, of virtual clusters that were found before and the default one.
LEMMA CreateUserServes ==
    ASSUME Sound, NEW c \in Calls, Advances(c), NEW o \in Outcomes, CreateUser(c, o)
    PROVE  ServingInv'
<1>1. /\ AccountsTyped /\ call[c] \in Call /\ c \in Everyone /\ request \in Scripts /\ PlacesAreRight
      /\ \/ call[c].pc = "checked" /\ request[c].op = "create"
         \/ call[c].pc = "absent"
  BY DEF CreateUser, Sound, AccountInv, AccountsTyped, Everyone
<1>2. call[c].pc = "checked" /\ request[c].op = "create"
  BY <1>1 DEF Sound, OIDC, PlacesAreRight, PlacesOf
<1>3. request[c].user \in Users /\ request[c].vcs \in SUBSET Groups /\ request[c].vcs \subseteq Live
  BY <1>1, <1>2, RequestIsTyped DEF Sound, ServingInv, ChecksHold
<1> DEFINE gs == request[c].vcs \union {DefaultGroup}
           n == NewUser(gs)
<1>4. gs \subseteq Live /\ n.groups = gs
  BY <1>3, AccountsAssumption DEF Live, NewUser
<1>5. /\ UNCHANGED <<objects, userCache, userList, groups>>
      /\ userSecret' \in {userSecret, [userSecret EXCEPT ![request[c].user] = n]}
      /\ Goto(c, "created") \/ Answer(c)
  BY <1>2 DEF CreateUser
<1> HIDE DEF n, gs
<1>6. \A u \in Users : userSecret'[u] = userSecret[u] \/ userSecret'[u].groups \subseteq Live
  BY <1>1, <1>4, <1>5 DEF AccountsTyped
<1>7. /\ call'[c].ref \in {call[c].ref, NoRef} /\ call'[c].puts \subseteq call[c].puts
      /\ call'[c].pc \in {"created", "end"}
  BY <1>1, <1>5 DEF AccountsTyped, Goto, Answer, Fresh, Call
<1>8. ChecksAt(c, call'[c].pc, Live)
  BY <1>7 DEF ChecksAt
<1>9. ~Deletes(c) /\ ~Deletes(c)'
  BY <1>2 DEF Deletes, Advances
<1> QED
  BY <1>5, <1>6, <1>7, <1>8, <1>9, LiveStays, WriterServes DEF groups, Lone, Sound

\* A group is read, and changed in the cache.
LEMMA ReadForUpdateServes ==
    ASSUME Sound, NEW c \in Calls, Advances(c), ReadForUpdate(c)
    PROVE  ServingInv'
<1>1. /\ AccountsTyped /\ call[c] \in Call /\ c \in Everyone /\ request \in Scripts
      /\ request[c].op = "updateGroup" /\ UNCHANGED <<users, groupSecret, groupList>>
      /\ \/ Answer(c) /\ UNCHANGED groupCache
         \/ /\ GroupView(request[c].group) # NoGroup /\ Goto(c, "group")
            /\ groupCache' = [groupCache EXCEPT ![request[c].group] = request[c].value]
  BY DEF ReadForUpdate, Sound, AccountInv, AccountsTyped, Everyone
<1>2. request[c].group \in Groups
  BY <1>1, RequestIsTyped
<1>3. \A g \in Groups : groupCache'[g] = groupCache[g] \/ g \in Live
  BY <1>1, <1>2, FoundAreLive DEF AccountsTyped, Sound, ServingInv
<1>4. /\ call'[c].ref \in {call[c].ref, NoRef} /\ call'[c].puts \subseteq call[c].puts
  BY <1>1 DEF AccountsTyped, Goto, Answer, Fresh, Call
<1>5. ChecksAt(c, call'[c].pc, Live)
  BY <1>1 DEF ChecksAt
<1>6. ~Deletes(c) /\ ~Deletes(c)'
  BY <1>1 DEF Deletes, Advances
<1> QED
  BY <1>1, <1>3, <1>4, <1>5, <1>6, LiveStays, WriterServes DEF users, Lone

\* A group is created, changed or deleted.
LEMMA ChangeGroupServes ==
    ASSUME Sound, NEW c \in Calls, Advances(c), NEW outcome \in Outcomes, ChangeGroup(c, outcome)
    PROVE  ServingInv'
<1>0. PICK g : g = request[c].group
  OBVIOUS
<1> DEFINE op == request[c].op
           value == IF op = "deleteGroup" THEN NoGroup ELSE request[c].value
<1>1. /\ call[c].pc = "group" \/ (call[c].pc = "new" /\ op \in {"createGroup", "deleteGroup"})
      /\ \/ Answer(c) /\ UNCHANGED groupSecret
         \/ WriteGroup(g, value, outcome) /\ IF outcome = "ok" THEN Goto(c, "written") ELSE Answer(c)
      /\ Deletes(c) /\ outcome # "ok" => g \in orphans'
      /\ UNCHANGED <<users, groupCache, groupList>>
  BY <1>0 DEF ChangeGroup, Record
<1>2. /\ AccountsTyped /\ call[c] \in Call /\ c \in Everyone /\ request \in Scripts
      /\ call[c].pc \in PlacesOf(op)
  BY DEF Sound, AccountInv, AccountsTyped, Everyone, PlacesAreRight
<1>3. /\ op \in {"createGroup", "updateGroup", "deleteGroup"} /\ call[c].pc \in {"group", "new"}
      /\ op = "deleteGroup" => ~Running(c)
  BY <1>1, <1>2 DEF PlacesOf, Running
<1>4. g \in Groups /\ (op # "deleteGroup" => value \in Group)
  BY <1>0, <1>2, <1>3, RequestIsTyped
<1> HIDE DEF value
<1>5. /\ call'[c].ref \in {call[c].ref, NoRef} /\ call'[c].puts \subseteq call[c].puts
      /\ call'[c].pc \in {"written", "end"}
      /\ WriteGroup(g, value, outcome) /\ outcome = "ok" => call'[c].pc = "written" \/ UNCHANGED groupSecret
  BY <1>1, <1>2 DEF AccountsTyped, Goto, Answer, Fresh, Call
<1>6. ASSUME NEW h \in Groups, groupSecret[h] # NoGroup
      PROVE  h \in Live'
  <2>1. CASE groupSecret'[h] # NoGroup
    BY <1>6, <2>1 DEF Live
  <2>2. CASE groupSecret'[h] = NoGroup
    <3>1. h = g /\ op = "deleteGroup" /\ WriteGroup(g, value, outcome)
      BY <1>1, <1>2, <1>4, <1>6, <2>2, NothingIsNoGroup DEF WriteGroup, AccountsTyped
    <3>2. CASE outcome = "ok"
      <4>1. call'[c].pc = "written" /\ request' = request
        BY <1>5, <1>6, <2>2, <3>1, <3>2 DEF Advances
      <4>2. Deleting(g)'
        BY <1>0, <3>1, <4>1 DEF Deleting, Running, Deletes
      <4> QED
        BY <1>4, <3>1, <4>2 DEF Live
    <3>3. CASE outcome # "ok"
      BY <1>1, <1>4, <3>1, <3>3 DEF Live, Deletes
    <3> QED
      BY <3>2, <3>3
  <2> QED
    BY <2>1, <2>2
<1>7. Live \subseteq Live'
  BY <1>3, <1>6, LiveGrows DEF Deletes
<1>8. ChecksAt(c, call'[c].pc, Live)
  BY <1>3 DEF ChecksAt
<1>9. Forgotten(c)'
  BY <1>5 DEF Forgotten
<1> QED
  BY <1>1, <1>5, <1>7, <1>8, <1>9, WriterServes DEF users

\* The group is dropped from the caches; if it is deleted, its members come next.
LEMMA DropGroupServes ==
    ASSUME Sound, NEW c \in Calls, Advances(c), DropGroup(c)
    PROVE  ServingInv'
<1>0. PICK g : g = request[c].group
  OBVIOUS
<1>1. /\ call[c].pc = "written" /\ groupList' = NoList /\ UNCHANGED <<users, groupSecret, request>>
      /\ groupCache' \in {groupCache, [groupCache EXCEPT ![g] = NoGroup]}
      /\ Deletes(c) => groupCache' = [groupCache EXCEPT ![g] = NoGroup]
      /\ IF Deletes(c) THEN Goto(c, "members") ELSE Answer(c)
  BY <1>0 DEF DropGroup, Deletes
<1>2. /\ AccountsTyped /\ call[c] \in Call /\ c \in Everyone /\ request \in Scripts
      /\ call[c].pc \in PlacesOf(request[c].op)
  BY DEF Sound, AccountInv, AccountsTyped, Everyone, PlacesAreRight
<1>3. request[c].op \in {"createGroup", "updateGroup", "deleteGroup"} /\ g \in Groups
  BY <1>0, <1>1, <1>2, RequestIsTyped DEF PlacesOf
<1>4. /\ call'[c].ref \in {call[c].ref, NoRef} /\ call'[c].puts \subseteq call[c].puts
      /\ Deletes(c) => call'[c].pc = "members"
      /\ Deletes(c)' <=> Deletes(c)
  BY <1>1, <1>2 DEF AccountsTyped, Goto, Answer, Fresh, Call, Deletes
<1>5. Live \subseteq Live'
  BY <1>1, <1>2, <1>4, LiveStays DEF Running
<1>6. \A h \in Groups : groupCache'[h] \in {groupCache[h], NoGroup}
  BY <1>1, <1>2, <1>3 DEF AccountsTyped
<1>7. ChecksAt(c, call'[c].pc, Live)
  BY <1>3 DEF ChecksAt
<1>8. Lone(c)' => Forgotten(c)'
  <2>1. Lone(c)' => Deletes(c) /\ call'[c].pc = "members"
    BY <1>4 DEF Lone
  <2>2. Deletes(c) => groupCache'[g] = NoGroup /\ groupList' = NoList
    BY <1>1, <1>2, <1>3 DEF AccountsTyped
  <2> QED
    BY <1>0, <1>1, <2>1, <2>2 DEF Forgotten
<1> QED
  BY <1>1, <1>4, <1>5, <1>6, <1>7, <1>8, WriterServes DEF users

\* While no other call runs, nothing else is under way.
LEMMA AloneIsQuiet ==
    ASSUME AccountInv, ~Running(Boot), NEW c, \A d \in Calls \ {c} : ~Running(d)
    PROVE  /\ call[Boot].pc = "up"
           /\ \A d \in Everyone \ {c} : call[d].puts = {} /\ call[d].drops = {}
           /\ \A d \in Calls \ {c} : call[d].pc \in {"new", "end"} /\ call[d].ref = NoRef
<1>1. PlacesAreRight /\ RefsAreOwn
  BY DEF AccountInv
<1>2. call[Boot].pc = "up" /\ call[Boot].puts = {} /\ call[Boot].drops = {}
  BY <1>1 DEF Running, PlacesAreRight, BootPlaces
<1>3. ASSUME NEW d \in Calls \ {c}
      PROVE  call[d].pc \in {"new", "end"}
  <2>1. call[d].pc \in {"new", "end", "up"} /\ call[d].pc \in PlacesOf(request[d].op)
    BY <1>1, <1>3 DEF Running, PlacesAreRight
  <2>2. call[d].pc # "up"
    BY <2>1 DEF PlacesOf
  <2> QED
    BY <2>1, <2>2
<1>4. \A d \in Calls \ {c} : call[d].puts = {} /\ call[d].drops = {}
  BY <1>1, <1>3 DEF PlacesAreRight
<1>5. \A d \in Calls \ {c} : call[d].ref = NoRef
  BY <1>1, <1>3 DEF RefsAreOwn
<1> QED
  BY <1>2, <1>3, <1>4, <1>5 DEF Everyone

\* A deletion that runs alone finds in the list of the users, and in the caches, the
\* groups that the secrets hold.
LEMMA MembersAreKnown ==
    ASSUME Sound, NEW c \in Calls, Lone(c), call[c].pc = "members", NEW u \in Users \ tainted
    PROVE  /\ AllUsers[u] = userSecret[u]
           /\ userCache[u] # NoRef => /\ userSecret[u] # NoUser
                                      /\ objects[userCache[u]].groups = userSecret[u].groups
<1>1. AccountInv /\ ~Running(Boot) /\ \A d \in Calls \ {c} : ~Running(d)
  BY DEF Sound, LoneDeletion
<1>2. /\ call[Boot].pc = "up"
      /\ \A d \in Everyone \ {c} : call[d].puts = {} /\ call[d].drops = {}
      /\ \A d \in Calls \ {c} : call[d].pc \in {"new", "end"}
  BY <1>1, AloneIsQuiet
<1>3. call[c].puts = {} /\ call[c].drops = {}
  BY DEF Sound, AccountInv, PlacesAreRight
<1>4. ~Leaving(u) /\ ~Saving(u)
  BY <1>2, <1>3 DEF Leaving, Saving
<1>5. ~Listing(u)
  BY <1>2, <1>4 DEF Listing
<1>6. ~Changing(u)
  BY <1>2, <1>4 DEF Changing
<1>7. AllUsers[u] = userSecret[u]
  BY <1>1, <1>5 DEF AccountInv, ListAgrees, AllUsers
<1>8. ASSUME userCache[u] # NoRef
      PROVE  userSecret[u] # NoUser /\ objects[userCache[u]].groups = userSecret[u].groups
  <2>1. Agrees(objects[userCache[u]], userSecret[u])
    BY <1>1, <1>6, <1>8 DEF AccountInv, UsersAgree
  <2>2. userSecret[u] \in User
    BY <1>1, <2>1 DEF AccountInv, AccountsTyped, Agrees
  <2> QED
    BY <2>1, <2>2 DEF Agrees, User
<1> QED
  BY <1>7, <1>8

\* The members of a deleted group are saved without it.
LEMMA RemoveMembersServes ==
    ASSUME Sound, NEW c \in Calls, Advances(c), RemoveMembers(c)
    PROVE  ServingInv'
<1>0. PICK g : g = request[c].group
  OBVIOUS
<1> DEFINE us == Members(g)
           puts == PutsOf(us, {g})
<1>1. /\ call[c].pc = "members" /\ SaveWithout(c, us, {g}, "save")
      /\ UNCHANGED <<userSecret, objects, userCache, groups, request, history>>
  BY <1>0 DEF RemoveMembers
<1>2. us \in SUBSET Users /\ \A u \in us : AllUsers[u] # NoUser
  BY DEF Members
<1>3. \A u \in Users : AllUsers[u] # NoUser /\ g \in AllUsers[u].groups => u \in us
  BY DEF Members
<1>4. userList' = [u \in Users |-> IF u \in us THEN Without(u, {g}) ELSE AllUsers[u]]
  BY <1>1 DEF SaveWithout
<1> HIDE DEF us
<1>5. /\ AccountInv /\ AccountsTyped /\ c \in Everyone /\ "save" \in Places /\ request \in Scripts
      /\ call[c].puts = {} /\ call[c].drops = {} /\ call[c].pc \in PlacesOf(request[c].op)
      /\ AllUsers \in [Users -> User \union {NoUser}]
  BY <1>1, ViewsAreTyped DEF Sound, AccountInv, Everyone, Places, BootPlaces, PlacesAreRight
<1>6. Moves(c, "save", call[c].ref, puts, {})
  <2>1. Moves(c, "save", call[c].ref, call[c].puts \union puts, call[c].drops)
    BY <1>1, <1>2, <1>5, SaveWithoutMoves
  <2> QED
    BY <1>5, <2>1
<1>7. request[c].op = "deleteGroup" /\ g \in Groups
  BY <1>0, <1>1, <1>5, RequestIsTyped DEF PlacesOf
<1>8. Live \subseteq Live'
  BY <1>1, <1>5, <1>6, LiveStays DEF Running, Moves, groups
<1>9. ASSUME NEW u \in us
      PROVE  /\ Without(u, {g}).groups \subseteq AllUsers[u].groups
             /\ g \notin Without(u, {g}).groups
             /\ AllUsers[u].groups \in SUBSET Groups
  <2>1. AllUsers[u] \in User
    BY <1>2, <1>5
  <2> QED
    BY <2>1 DEF Without, User
<1>10. ASSUME NEW u \in us, u \notin tainted
       PROVE  Without(u, {g}).groups \subseteq Live'
  <2>1. AllUsers[u].groups \subseteq Live
    BY <1>2, <1>9, <1>10, ListHas DEF Sound, ServingInv, RefersToLive
  <2> QED
    BY <1>8, <1>9, <2>1
<1>11. RefersKept
  <2> SUFFICES ASSUME NEW u \in Users, NEW gs \in SUBSET Groups, u \notin tainted', HasGroups(u, gs)'
               PROVE  HasGroups(u, gs) \/ gs \subseteq Live'
    BY DEF RefersKept
  <2>1. u \notin tainted /\ request' = request /\ objects' = objects /\ userCache' = userCache
        /\ userSecret' = userSecret
    BY <1>1 DEF Advances, Recorded
  <2>2. CASE userList' # NoList /\ userList'[u] # NoUser /\ gs = userList'[u].groups
    <3>1. CASE u \in us
      BY <1>4, <1>10, <2>1, <2>2, <3>1
    <3>2. CASE u \notin us
      BY <1>4, <2>2, <3>2, ListHas
    <3> QED
      BY <3>1, <3>2
  <2>3. ASSUME NEW p \in puts, p.user = u, gs = p.value.groups
        PROVE  gs \subseteq Live'
    <3>1. PICK v \in us : p.user = v /\ p.value = Without(v, {g})
      BY <2>3, PutsAreOf
    <3> QED
      BY <1>10, <2>1, <2>3, <3>1
  <2>4. \A d \in Calls \ {c} : call'[d] = call[d]
    BY DEF Advances, Everyone
  <2>5. CASE \E d \in Calls : \E p \in call'[d].puts : p.user = u /\ gs = p.value.groups
    BY <1>6, <2>3, <2>4, <2>5 DEF Moves, HasGroups
  <2>6. CASE \E d \in Calls : call'[d].ref # NoRef /\ request[d].user = u /\ gs = objects[call'[d].ref].groups
    BY <1>6, <2>4, <2>6 DEF Moves, HasGroups
  <2>7. CASE userSecret[u] # NoUser /\ gs = userSecret[u].groups
    BY <2>7 DEF HasGroups
  <2>8. CASE userCache[u] # NoRef /\ gs = objects[userCache[u]].groups
    BY <2>8 DEF HasGroups
  <2> QED
    BY <2>1, <2>2, <2>5, <2>6, <2>7, <2>8 DEF HasGroups
<1>12. CachedAreLive'
  BY <1>1, <1>8 DEF groups, Sound, ServingInv, CachedAreLive
<1>13. ChecksAt(c, call'[c].pc, Live')
  BY <1>7 DEF ChecksAt
<1>14. Lone(c)' => Forgotten(c)'
  <2> SUFFICES ASSUME Lone(c)'
               PROVE  Forgotten(c)'
    OBVIOUS
  <2>1. Lone(c)
    <3>1. Running(c)
      BY <1>1 DEF Running
    <3> QED
      BY <3>1, LoneIsAlone DEF Sound
  <2>2. groupCache'[g] = NoGroup /\ (groupList' # NoList => groupList'[g] = NoGroup)
    BY <1>0, <1>1, <2>1 DEF groups, Sound, ServingInv, Forgotten
  <2>3. \A p \in puts : g \notin p.value.groups
    BY <1>9, PutsAreOf
  <2>4. ASSUME NEW u \in Users \ tainted, g \in userSecret[u].groups, userSecret[u] # NoUser
        PROVE  \E p \in puts : p.user = u
    <3>1. AllUsers[u] = userSecret[u]
      BY <1>1, <2>1, MembersAreKnown
    <3>2. u \in us
      BY <1>3, <2>4, <3>1
    <3> QED
      BY <3>2, PutsAreOf
  <2>5. ASSUME NEW u \in Users \ tainted, userCache[u] # NoRef, g \in objects[userCache[u]].groups
        PROVE  \E p \in puts : p.user = u
    <3>1. g \in userSecret[u].groups /\ userSecret[u] # NoUser
      BY <1>1, <2>1, <2>5, MembersAreKnown
    <3> QED
      BY <2>4, <2>5, <3>1
  <2>6. ASSUME NEW u \in Users, userList'[u] # NoUser
        PROVE  g \notin userList'[u].groups
    BY <1>3, <1>4, <1>9, <2>6
  <2>7. tainted' = tainted /\ request' = request /\ userSecret' = userSecret
        /\ userCache' = userCache /\ objects' = objects
    BY <1>1 DEF history
  <2>8. call'[c].pc = "save" /\ call'[c].puts = puts /\ call'[c].drops = {} /\ request'[c].group = g
    BY <1>0, <1>5, <1>6, <2>7 DEF Moves
  <2> HIDE DEF puts
  <2> QED
    BY <2>2, <2>3, <2>4, <2>5, <2>6, <2>7, <2>8 DEF Forgotten
<1> QED
  BY <1>5, <1>6, <1>8, <1>11, <1>12, <1>13, <1>14, ServeStep DEF Moves, Sound

\* A user is saved.  The value was on its way before, and lacks a group that is being
\* deleted; a user that is gone has left the caches, or is about to.
LEMMA PutUserServes ==
    ASSUME Sound, NEW c \in Calls, Advances(c), NEW p \in call[c].puts, NEW outcome \in Outcomes,
           PutUser(c, p, outcome)
    PROVE  ServingInv'
<1>0. PICK g : g = request[c].group
  OBVIOUS
<1>1. /\ AccountInv /\ AccountsTyped /\ c \in Everyone /\ c # Boot /\ request \in Scripts
      /\ call[c].pc \in {"save", "failed"}
  BY AccountsAssumption DEF Sound, AccountInv, Everyone, PlacesAreRight
<1>2. /\ p.user \in Users /\ userSecret' \in {userSecret, [userSecret EXCEPT ![p.user] = p.value]}
      /\ UNCHANGED <<objects, userCache, userList, groupSecret, groupCache, groupList, request>>
  BY <1>1, PutMoves
<1>3. /\ call'[c].pc \in {"save", "failed"} /\ call'[c].ref = call[c].ref
      /\ call'[c].puts = call[c].puts \ {p}
      /\ call[c].drops \subseteq call'[c].drops
      /\ ~PutFails(p, outcome) => p.user \in call'[c].drops
  BY <1>1, PutMoves DEF Moves
<1>4. HasGroups(p.user, p.value.groups)
  BY DEF HasGroups
<1>5. \A u \in Users : userSecret'[u] = userSecret[u] \/ (u = p.user /\ userSecret'[u] = p.value)
  BY <1>1, <1>2 DEF AccountsTyped
<1>6. \A u \in Users : userSecret'[u] = userSecret[u] \/ HasGroups(u, userSecret'[u].groups)
  BY <1>4, <1>5
<1>7. Live \subseteq Live'
  BY <1>1, <1>2, <1>3, LiveStays DEF Running
<1>8. ChecksAt(c, call'[c].pc, Live)
  BY <1>3 DEF ChecksAt
<1>9. Lone(c)' => Forgotten(c)'
  <2> SUFFICES ASSUME Lone(c)'
               PROVE  Forgotten(c)'
    OBVIOUS
  <2>1. Lone(c) /\ Deletes(c) /\ \A d \in Calls \ {c} : ~Running(d)
    <3>1. Running(c)
      BY <1>1 DEF Running
    <3> QED
      BY <3>1, LoneIsAlone DEF Sound
  <2>2. outcome = "ok"
    <3>1. outcome # "ok" => g \in orphans'
      BY <1>0, <1>1, <2>1 DEF PutUser, Record
    <3> QED
      BY <1>0, <1>2, <3>1 DEF Lone
  <2>3. /\ groupCache[g] = NoGroup /\ (groupList # NoList => groupList[g] = NoGroup)
        /\ \A q \in call[c].puts : g \notin q.value.groups
        /\ \A u \in Users \ tainted :
               /\ userSecret[u] # NoUser /\ g \in userSecret[u].groups
                      => \E q \in call[c].puts : q.user = u
               /\ userCache[u] # NoRef /\ g \in objects[userCache[u]].groups
                      => u \in call[c].drops \/ \E q \in call[c].puts : q.user = u
               /\ userList # NoList /\ userList[u] # NoUser => g \notin userList[u].groups
    BY <1>0, <1>1, <2>1 DEF Sound, ServingInv, Forgotten
  <2>4. tainted \subseteq tainted'
    BY DEF Advances, Recorded
  <2>5. ASSUME NEW u \in Users \ tainted, userSecret'[u] # NoUser, g \in userSecret'[u].groups
        PROVE  \E q \in call'[c].puts : q.user = u
    <3>1. userSecret'[u] = userSecret[u]
      BY <1>5, <2>3, <2>5
    <3>2. PICK q \in call[c].puts : q.user = u
      BY <2>3, <2>5, <3>1
    <3>3. q # p
      <4> SUFFICES ASSUME q = p
                   PROVE  FALSE
        OBVIOUS
      <4>1. PutFails(p, outcome) => userSecret[u] = NoUser
        BY <2>2, <3>2 DEF PutFails
      <4>2. ~PutFails(p, outcome) => userSecret'[u] = p.value
        BY <1>1, <1>2, <3>2, PutMoves DEF AccountsTyped
      <4> QED
        BY <2>3, <2>5, <3>1, <4>1, <4>2
    <3> QED
      BY <1>3, <3>2, <3>3
  <2>6. ASSUME NEW u \in Users \ tainted, userCache[u] # NoRef, g \in objects[userCache[u]].groups
        PROVE  u \in call'[c].drops \/ \E q \in call'[c].puts : q.user = u
    <3>1. CASE u \in call[c].drops
      BY <1>3, <3>1
    <3>2. CASE \E q \in call[c].puts : q.user = u /\ q # p
      BY <1>3, <3>2
    <3>3. CASE u = p.user
      <4>1. CASE PutFails(p, outcome)
        <5>1. userSecret[u] = NoUser
          BY <2>2, <3>3, <4>1 DEF PutFails
        <5>2. Leaving(u)
          BY <1>1, <2>6, <5>1 DEF AccountInv, GoneUsers
        <5>3. /\ call[Boot].pc = "up"
              /\ \A d \in Everyone \ {c} : call[d].drops = {}
          BY <1>1, <2>1, AloneIsQuiet DEF Sound
        <5> QED
          BY <3>1, <5>2, <5>3 DEF Leaving
      <4>2. CASE ~PutFails(p, outcome)
        BY <1>3, <3>3, <4>2
      <4> QED
        BY <4>1, <4>2
    <3> QED
      BY <2>3, <2>6, <3>1, <3>2, <3>3
  <2>7. request'[c].group = g
    BY <1>0, <1>2
  <2> QED
    BY <1>2, <1>3, <2>3, <2>4, <2>5, <2>6, <2>7 DEF Forgotten
<1>10. call'[c].ref \in {call[c].ref, NoRef} /\ call'[c].puts \subseteq call[c].puts
  BY <1>3
<1> QED
  BY <1>2, <1>6, <1>7, <1>8, <1>9, <1>10, WriterServes

\* The cache entry of a user is deleted, and with it the list.
LEMMA DropUserServes ==
    ASSUME Sound, NEW c \in Calls, Advances(c), NEW u \in call[c].drops, DropUser(c, u)
    PROVE  ServingInv'
<1>0. PICK g : g = request[c].group
  OBVIOUS
<1>1. /\ AccountInv /\ AccountsTyped /\ c \in Everyone /\ request \in Scripts
      /\ call[c].pc \in {"save", "failed"}
  BY DEF Sound, AccountInv, Everyone, PlacesAreRight
<1>2. /\ u \in Users /\ userCache' = [userCache EXCEPT ![u] = NoRef] /\ userList' = NoList
      /\ UNCHANGED <<userSecret, objects, groupSecret, groupCache, groupList, request, tainted, orphans>>
      /\ call'[c].pc = call[c].pc /\ call'[c].ref = call[c].ref /\ call'[c].puts = call[c].puts
      /\ call'[c].drops = call[c].drops \ {u}
  BY <1>1, DropMoves DEF Moves
<1>3. /\ userCache'[u] = NoRef
      /\ \A v \in Users \ {u} : userCache'[v] = userCache[v]
  BY <1>1, <1>2 DEF AccountsTyped
<1>4. Live \subseteq Live'
  BY <1>1, <1>2, LiveStays DEF Running
<1>5. ChecksAt(c, call'[c].pc, Live)
  BY <1>1, <1>2 DEF ChecksAt
<1>6. Lone(c)' => Forgotten(c)'
  <2> SUFFICES ASSUME Lone(c)'
               PROVE  Forgotten(c)'
    OBVIOUS
  <2>1. Lone(c)
    BY <1>2 DEF Lone, Running, Deletes
  <2>2. Forgotten(c)
    BY <2>1 DEF Sound, ServingInv
  <2> QED
    BY <1>0, <1>1, <1>2, <1>3, <2>2 DEF Forgotten
<1> QED
  BY <1>2, <1>3, <1>4, <1>5, <1>6, WriterServes

\* A call ends.  When it is a deletion that ran alone, nothing refers to the group.
LEMMA FinishServes ==
    ASSUME Sound, NEW c \in Calls, Advances(c), Finish(c)
    PROVE  ServingInv'
<1>0. PICK g : g = request[c].group
  OBVIOUS
<1>1. /\ AccountInv /\ AccountsTyped /\ c \in Everyone /\ c # Boot /\ request \in Scripts
      /\ call[c].pc \in {"save", "failed"} /\ call[c].puts = {} /\ call[c].drops = {}
      /\ UNCHANGED <<users, groups, request, history>>
      /\ call'[c].ref = NoRef /\ call'[c].puts = {} /\ call'[c].drops = {}
      /\ call'[c].pc = "end" \/ (SetsPassword(c) /\ call'[c].pc = "revoke")
  BY FinishMoves, AccountsAssumption DEF Sound, AccountInv, Everyone, Moves
<1>2. Running(c) /\ ~(Deletes(c) /\ Running(c)')
  BY <1>1 DEF Running, SetsPassword, Deletes
<1>3. ~Lone(c)'
  BY <1>1, <1>2 DEF Lone, Deletes
<1>4. CASE ~Lone(c)
  <2>1. Deletes(c) => g \in orphans /\ g \in Groups
    BY <1>0, <1>1, <1>2, <1>4, RequestIsTyped DEF Lone, Deletes
  <2>2. Deletes(c) => g \in Live'
    BY <1>1, <2>1 DEF Live, history
  <2>3. \A h \in Groups : groupSecret[h] # NoGroup => h \in Live'
    BY <1>1 DEF Live, groups
  <2>4. Live \subseteq Live'
    BY <1>0, <2>2, <2>3, LiveGrows
  <2>5. ChecksAt(c, call'[c].pc, Live)
    BY <1>1 DEF ChecksAt
  <2> QED
    BY <1>1, <1>3, <2>4, <2>5, WriterServes DEF users, groups
<1>5. CASE Lone(c)
  <2>1. /\ \A d \in Calls \ {c} : ~Running(d) /\ call[d].pc \in {"new", "end"} /\ call[d].ref = NoRef
                                  /\ call[d].puts = {}
        /\ Deletes(c)
    BY <1>1, <1>5, AloneIsQuiet DEF Sound, LoneDeletion, Lone, Everyone
  <2>2. \A d \in Calls : call'[d].pc \in {"new", "end"} /\ call'[d].ref = NoRef /\ call'[d].puts = {}
    BY <1>1, <2>1 DEF Advances, Everyone, SetsPassword, Deletes
  <2>3. /\ groupCache[g] = NoGroup /\ (groupList # NoList => groupList[g] = NoGroup)
        /\ \A u \in Users \ tainted :
               /\ userSecret[u] # NoUser => g \notin userSecret[u].groups
               /\ userCache[u] # NoRef => g \notin objects[userCache[u]].groups
               /\ userList # NoList /\ userList[u] # NoUser => g \notin userList[u].groups
    BY <1>0, <1>1, <1>5 DEF Sound, ServingInv, Forgotten
  <2>4. \A h \in Live : h # g => h \in Live'
    <3> SUFFICES ASSUME NEW h \in Live, h # g
                 PROVE  h \in Live'
      OBVIOUS
    <3>1. ~Deleting(h)
      BY <1>0, <2>1 DEF Deleting
    <3> QED
      BY <1>1, <3>1 DEF Live, groups, history
  <2>5. RefersToLive'
    <3> SUFFICES ASSUME NEW u \in Users \ tainted, NEW gs \in SUBSET Groups, HasGroups(u, gs)'
                 PROVE  gs \subseteq Live'
      BY <1>1 DEF RefersToLive, history
    <3>1. \/ userSecret[u] # NoUser /\ gs = userSecret[u].groups
          \/ userCache[u] # NoRef /\ gs = objects[userCache[u]].groups
          \/ userList # NoList /\ userList[u] # NoUser /\ gs = userList[u].groups
      BY <1>1, <2>2 DEF HasGroups, users
    <3>2. gs \subseteq Live
      BY <3>1 DEF HasGroups, Sound, ServingInv, RefersToLive
    <3>3. g \notin gs
      BY <2>3, <3>1
    <3> QED
      BY <2>4, <3>2, <3>3
  <2>6. CachedAreLive'
    BY <1>1, <2>3, <2>4 DEF CachedAreLive, Sound, ServingInv, groups
  <2>7. ChecksHold' /\ SharersAgree'
    BY <2>2 DEF ChecksHold, SharersAgree
  <2>8. \A d \in Calls : ~Lone(d)'
    BY <2>2 DEF Lone, Running
  <2> QED
    BY <2>5, <2>6, <2>7, <2>8 DEF ServingInv
<1> QED
  BY <1>4, <1>5

\* Every step of a request.
LEMMA CallServes ==
    ASSUME Sound, NEW c \in Calls, CallStep(c)
    PROVE  ServingInv'
<1>1. Advances(c)
  BY CallAdvances DEF Sound
<1>2. CASE Handler(c)
  <2>1. ~Login(c)
    BY DEF Sound, OIDC, Login
  <2> QED
    BY <1>1, <1>2, <2>1, FetchUserServes, NoSuchUserServes, CheckGroupServes, CheckVCsServes,
       CheckAdminServes, GetUserServes, SetEmailServes, SetGroupsServes, AddGroupServes,
       RemoveGroupServes, SetPasswordServes, SignInServes, SetVCsServes, SetAdminServes,
       UpdateEmailServes, UpdateVCsServes, UpdateRestServes, UpdateSelfServes, CreatedServes,
       ListUsersServes, ReadForUpdateServes, DropGroupServes, RemoveMembersServes DEF Handler
<1> QED
  BY <1>1, <1>2, DeleteUserServes, CreateUserServes, ChangeGroupServes, FinishServes,
     DropUserServes, PutUserServes DEF CallStep

-----------------------------------------------------------------------------
(***************************************************************************)
(* The whole invariant.                                                    *)
(***************************************************************************)
\* A start-up that no request has overlapped hands over to the requests.
LEMMA BootFinishServes ==
    ASSUME AccountInv, StartInv, Finish(Boot), ~mixed, ~OIDC
    PROVE  ServingInv'
<1>1. /\ AccountsTyped /\ Boot \in Everyone /\ Boot \notin Calls /\ PlacesAreRight /\ RefsAreOwn
  BY BootReady
<1>2. /\ call[Boot].pc = "save" /\ call[Boot].puts = {} /\ call[Boot].drops = {}
      /\ UNCHANGED <<users, groups, request, history>>
      /\ \A c \in Calls : call'[c] = call[c]
  BY <1>1, FinishMoves DEF Moves, PlacesAreRight, BootPlaces, Everyone
<1>3. Starting /\ ~At("exit")
  BY <1>2 DEF Starting, Running, At
<1>4. ASSUME NEW c \in Calls
      PROVE  call[c].pc \in {"new", "end"} /\ call[c].ref = NoRef /\ call[c].puts = {} /\ call[c].drops = {}
  <2>1. call[c].pc \in {"new", "end", "up"} /\ call[c].pc \in PlacesOf(request[c].op)
    BY <1>1, <1>3 DEF StartInv, StartsAlone, Running, PlacesAreRight
  <2>2. call[c].pc # "up"
    BY <2>1 DEF PlacesOf
  <2> QED
    BY <1>1, <2>1, <2>2 DEF PlacesAreRight, RefsAreOwn
<1>5. \A u : ~Changing(u) /\ ~Listing(u)
  BY <1>2, <1>4 DEF Changing, Listing, Leaving, Saving, Everyone
<1>6. \A u \in Users : Dangling(u) = {}
  BY StartUpRepairs
<1>7. \A g \in Groups : groupSecret[g] # NoGroup => g \in Live'
  BY <1>2 DEF Live, groups
<1>8. ASSUME NEW u \in Users, userSecret[u] # NoUser
      PROVE  userSecret[u].groups \subseteq Live'
  <2>1. userSecret[u] \in User
    BY <1>1, <1>8 DEF AccountsTyped
  <2> QED
    BY <1>6, <1>7, <1>8, <2>1 DEF Dangling, User
<1>9. RefersToLive'
  <2> SUFFICES ASSUME NEW u \in Users \ tainted, NEW gs \in SUBSET Groups, HasGroups(u, gs)'
               PROVE  gs \subseteq Live'
    BY <1>2 DEF RefersToLive, history
  <2>1. \/ userSecret[u] # NoUser /\ gs = userSecret[u].groups
        \/ userCache[u] # NoRef /\ gs = objects[userCache[u]].groups
        \/ userList # NoList /\ userList[u] # NoUser /\ gs = userList[u].groups
    BY <1>2, <1>4 DEF HasGroups, users
  <2>2. CASE userCache[u] # NoRef /\ gs = objects[userCache[u]].groups
    <3>1. Agrees(objects[userCache[u]], userSecret[u])
      BY <1>5, <2>2 DEF AccountInv, UsersAgree
    <3>2. userSecret[u] \in User
      BY <1>1, <3>1 DEF AccountsTyped, Agrees
    <3>3. userSecret[u] # NoUser /\ gs = userSecret[u].groups
      BY <2>2, <3>1, <3>2 DEF Agrees, User
    <3> QED
      BY <1>8, <3>3
  <2>3. CASE userList # NoList /\ userList[u] # NoUser /\ gs = userList[u].groups
    <3>1. userList[u] = userSecret[u]
      BY <1>5, <2>3 DEF AccountInv, ListAgrees
    <3> QED
      BY <1>8, <2>3, <3>1
  <2> QED
    BY <1>8, <2>1, <2>2, <2>3
<1>10. CachedAreLive'
  <2>1. /\ groupList # NoList => \A g \in Groups : groupList[g] = NoGroup <=> groupSecret[g] = NoGroup
        /\ \A g \in Groups : groupCache[g] # NoGroup => groupSecret[g] # NoGroup
    BY <1>3 DEF StartInv, StartUpReads
  <2> QED
    BY <1>2, <1>7, <2>1 DEF CachedAreLive, groups
<1>11. ChecksHold' /\ SharersAgree'
  BY <1>2, <1>4 DEF ChecksHold, SharersAgree
<1>12. \A c \in Calls : ~Lone(c)'
  BY <1>2, <1>4 DEF Lone, Running
<1> QED
  BY <1>9, <1>10, <1>11, <1>12 DEF ServingInv

\* The first states satisfy the invariant: who belongs to a group belongs to one that exists.
LEMMA ReferenceInit ==
    ASSUME Init
    PROVE  ReferenceInv
<1>1. /\ groupSecret = [g \in Groups |->
             IF g \in VCs \union {AdminGroup} THEN ConfiguredGroup(g) ELSE NoGroup]
      /\ userSecret = [u \in Users |->
             CASE u = AdminUser   -> NewUser(VCs \union {AdminGroup})
               [] u \in Registered -> NewUser(VCs)
               [] OTHER           -> NoUser]
      /\ userCache = [u \in Users |-> NoRef] /\ userList = NoList
      /\ groupCache = [g \in Groups |-> NoGroup] /\ groupList = NoList
      /\ call = [c \in Everyone |-> Fresh(IF c = Boot THEN "up" ELSE "new")]
  BY DEF Init, Everyone
<1>2. (\A c \in Calls : call[c] = Fresh("new")) /\ call[Boot] = Fresh("up")
  BY <1>1, AccountsAssumption DEF Everyone
<1>3. \A c \in Calls : call[c].pc = "new" /\ call[c].ref = NoRef /\ call[c].puts = {} /\ ~Running(c)
  BY <1>2 DEF Fresh, Running
<1>4. ~Running(Boot)
  BY <1>2 DEF Fresh, Running
<1>5. StartsAlone /\ StartUpReads /\ RepairUnderWay /\ LoneDeletion
  BY <1>3, <1>4 DEF StartsAlone, StartUpReads, RepairUnderWay, LoneDeletion, Starting, Lone
<1>6. VCs \union {AdminGroup} \subseteq Live
  <2>1. ASSUME NEW g \in VCs \union {AdminGroup}
        PROVE  g \in Groups /\ groupSecret[g] # NoGroup
    <3>1. g \in Groups /\ ConfiguredGroup(g) \in Group
      BY <2>1, AccountsAssumption DEF ConfiguredGroup, VCGroup, Group
    <3> QED
      BY <1>1, <2>1, <3>1, NothingIsNoGroup
  <2> QED
    BY <2>1 DEF Live
<1>7. \A gs : NewUser(gs).groups = gs
  BY DEF NewUser
<1>8. RefersToLive
  <2> SUFFICES ASSUME NEW u \in Users, NEW gs \in SUBSET Groups, HasGroups(u, gs)
               PROVE  gs \subseteq Live
    BY DEF RefersToLive
  <2>1. userSecret[u] # NoUser /\ gs = userSecret[u].groups
    BY <1>1, <1>3 DEF HasGroups
  <2>2. userSecret[u] = NewUser(VCs \union {AdminGroup}) \/ userSecret[u] = NewUser(VCs)
    BY <1>1, <2>1
  <2>3. gs = VCs \union {AdminGroup} \/ gs = VCs
    BY <1>7, <2>1, <2>2
  <2> QED
    BY <1>6, <2>3
<1>9. ChecksHold /\ CachedAreLive /\ SharersAgree
  BY <1>1, <1>3 DEF ChecksHold, CachedAreLive, SharersAgree
<1>10. \A c \in Calls : ~Lone(c)
  BY <1>3 DEF Lone
<1> QED
  BY <1>5, <1>8, <1>9, <1>10 DEF ReferenceInv, ServingInv

\* A step of a call keeps the invariant if it does while requests are served.
LEMMA AdvancesKeeps ==
    ASSUME AccountInv, ReferenceInv, request \in Scripts, NEW c \in Calls, Advances(c),
           Sound => ServingInv'
    PROVE  ReferenceInv'
<1>1. StartInv /\ LoneDeletion
  BY DEF ReferenceInv, StartInv
<1>2. StartInv' /\ LoneDeletion'
  BY <1>1, AdvancesStarts, LoneDeletionNext
<1>3. Serving' => Serving
  <2>1. Boot \in Everyone \ {c} /\ mixed \in BOOLEAN
    BY AccountsAssumption DEF Everyone, AccountInv, AccountsTyped
  <2> QED
    BY <2>1 DEF Serving, Advances, Recorded, Running, OIDC
<1>4. Serving' => ServingInv'
  BY <1>1, <1>3 DEF ReferenceInv, Sound, Serving
<1> QED
  BY <1>2, <1>4 DEF ReferenceInv, StartInv

\* A step of the start-up keeps it.
LEMMA BootStepKeepsReferences ==
    ASSUME AccountInv, ReferenceInv, request \in Scripts, BootStep
    PROVE  ReferenceInv'
<1>1. StartInv /\ LoneDeletion
  BY DEF ReferenceInv, StartInv
<1>2. StartInv' /\ LoneDeletion'
  BY <1>1, BootStepStarts, BootLeavesLone
<1>3. Serving' => ServingInv'
  <2> SUFFICES ASSUME Serving'
               PROVE  ServingInv'
    OBVIOUS
  <2>1. Finish(Boot)
    BY BootRuns DEF Serving
  <2>2. ~mixed /\ ~OIDC
    BY <2>1 DEF Serving, OIDC, Finish, history
  <2> QED
    BY <1>1, <2>1, <2>2, BootFinishServes
<1> QED
  BY <1>2, <1>3 DEF ReferenceInv, StartInv

\* Every step of a request or of the start-up keeps it.
LEMMA StepKeepsReferences ==
    ASSUME AccountInv, ReferenceInv, request \in Scripts, Step
    PROVE  ReferenceInv'
<1>1. ASSUME NEW c \in Calls, CallStep(c)
      PROVE  ReferenceInv'
  BY <1>1, CallAdvances, CallServes, AdvancesKeeps
<1>2. BootStep \/ \E c \in Calls : CallStep(c)
  BY DEF Step, BootStep, CallStep
<1> QED
  BY <1>1, <1>2, BootStepKeepsReferences

\* So does the end of the token operation of a handler.
LEMMA TokenAnswerKeepsReferences ==
    ASSUME AccountInv, ReferenceInv, request \in Scripts,
           NEW c \in Calls, call[c].pc \in {"token", "revoke"},
           Answer(c), UNCHANGED <<users, groups, request, history>>
    PROVE  ReferenceInv'
<1>1. AccountsTyped /\ c \in Everyone /\ call[c].pc \in PlacesOf(request[c].op)
  BY DEF AccountInv, PlacesAreRight, Everyone
<1>2. Advances(c)
  <2>1. Recorded(c)
    BY <1>1, LaterRecords
  <2>2. \A d \in Everyone \ {c} : call'[d] = call[d]
    BY <1>1, OneMoves
  <2> QED
    BY <2>1, <2>2 DEF Advances
<1>3. ~Deletes(c)
  BY <1>1 DEF Deletes, PlacesOf
<1>4. UNCHANGED userSecret /\ GroupStep /\ ListStep
  BY <1>1 DEF GroupStep, ListStep, users, groups, AccountsTyped
<1>5. ObjectsKeep(c, NoRef, {})
  BY SameObjects DEF users
<1>6. Sound => ServingInv'
  BY <1>2, <1>3, <1>4, <1>5, AnswerServes
<1> QED
  BY <1>2, <1>6, AdvancesKeeps

\* A restart leaves no call running, and nothing in the caches.
LEMMA RestartedKeepsReferences ==
    ASSUME AccountInv, Restarted
    PROVE  ReferenceInv'
<1>1. /\ call' = [c \in Everyone |-> IF c = Boot THEN Fresh("config")
                                     ELSE IF Running(c) THEN Fresh("end") ELSE call[c]]
      /\ userList' = NoList /\ groupList' = NoList
      /\ groupCache' = [g \in Groups |-> NoGroup]
  BY DEF Restarted, Everyone
<1>2. call'[Boot].pc = "config" /\ \A c \in Calls : ~Running(c)'
  BY <1>1, AccountsAssumption DEF Everyone, Running, Fresh
<1>3. StartsAlone' /\ RepairUnderWay' /\ LoneDeletion' /\ ~Serving'
  BY <1>2 DEF StartsAlone, RepairUnderWay, LoneDeletion, Lone, Serving, Running, At
<1>4. StartUpReads'
  BY <1>1, <1>2 DEF StartUpReads
<1> QED
  BY <1>3, <1>4 DEF ReferenceInv

\* A step that changes nothing of the users and the groups.
LEMMA ReferencesStay ==
    ASSUME ReferenceInv, UNCHANGED vars
    PROVE  ReferenceInv'
<1>1. UNCHANGED <<userSecret, groupSecret, objects, userCache, userList, groupCache, groupList,
                  request, call, tainted, orphans, mixed>>
  BY DEF vars, users, groups, history
<1>2. UNCHANGED Starting /\ UNCHANGED Serving /\ UNCHANGED OIDC /\ UNCHANGED Live
  BY <1>1 DEF Starting, Serving, OIDC, Running, Live, Deleting, Deletes
<1>3. StartsAlone' /\ StartUpReads' /\ RepairUnderWay' /\ LoneDeletion'
  BY <1>1, <1>2 DEF ReferenceInv, StartsAlone, StartUpReads, RepairUnderWay, LoneDeletion, Running, At,
                    Dangling, Lone, Deletes
<1>4. Serving' => ServingInv'
  <2>1. \A u, gs : HasGroups(u, gs)' <=> HasGroups(u, gs)
    BY <1>1 DEF HasGroups
  <2>2. \A c : (Lone(c)' <=> Lone(c)) /\ (Forgotten(c)' <=> Forgotten(c))
    BY <1>1 DEF Lone, Running, Deletes, Forgotten
  <2> QED
    BY <1>1, <1>2, <2>1, <2>2 DEF ReferenceInv, ServingInv, RefersToLive, ChecksHold, CachedAreLive,
                                  SharersAgree
<1> QED
  BY <1>3, <1>4 DEF ReferenceInv

-----------------------------------------------------------------------------
(***************************************************************************)
(* What the invariant says.                                                *)
(***************************************************************************)
\* When no call is under way, a group that users may refer to exists, or its deletion
\* was overlapped or failed.
LEMMA ReferencesHold ==
    ASSUME AccountInv, ReferenceInv, ~OIDC
    PROVE  NoDanglingReference
<1> SUFFICES ASSUME Quiet, ~mixed, NEW u \in Users \ tainted, NEW g \in Dangling(u)
             PROVE  g \in orphans \union {AdminGroup, DefaultGroup}
  BY DEF NoDanglingReference
<1>1. userSecret[u] # NoUser /\ g \in userSecret[u].groups /\ groupSecret[g] = NoGroup
  BY DEF Dangling
<1>2. userSecret[u].groups \in SUBSET Groups
  BY <1>1 DEF AccountInv, AccountsTyped, User
<1>3. ServingInv /\ ~Deleting(g)
  BY DEF ReferenceInv, Serving, Quiet, Deleting
<1>4. g \in Live
  BY <1>1, <1>2, <1>3 DEF ServingInv, RefersToLive, HasGroups
<1> QED
  BY <1>1, <1>3, <1>4 DEF Live

\* Only its last step ends a start-up, and when that comes all references are repaired.
LEMMA StepRepairs ==
    ASSUME AccountInv, ReferenceInv, Step, call[Boot].pc # "up", call'[Boot].pc = "up", ~mixed, ~OIDC
    PROVE  \A u \in Users : Dangling(u)' = {}
<1>1. ASSUME NEW c \in Calls, CallStep(c)
      PROVE  FALSE
  <2>1. call'[Boot] = call[Boot]
    BY <1>1, CallAdvances, AccountsAssumption DEF Advances, Everyone
  <2> QED
    BY <2>1
<1>2. BootStep
  BY <1>1 DEF Step, BootStep, CallStep
<1>3. Finish(Boot)
  BY <1>2, BootRuns DEF Running
<1> QED
  BY <1>3, StartUpRepairs DEF ReferenceInv, StartInv

=============================================================================
