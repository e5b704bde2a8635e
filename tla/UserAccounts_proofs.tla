------------------------ MODULE UserAccounts_proofs -------------------------
(***************************************************************************)
(* Proofs about the users and groups of rest-server: every variable keeps  *)
(* its type, no object is shared by two users, and what the caches hold    *)
(* agrees with the secrets once no call is under way.                      *)
(***************************************************************************)
EXTENDS UserAccounts, FiniteSetTheorems, TLAPS

-----------------------------------------------------------------------------
(***************************************************************************)
(* The inductive invariant, part by part.                                  *)
(***************************************************************************)
Everyone == Calls \union {Boot}

\* Where the code of each operation can be.
PlacesOf(op) ==
    CASE op \in {"get", "email", "setGroups", "removeGroup", "password", "admin"}
                            -> {"new", "have", "save", "failed", "revoke", "end"}
      [] op = "signIn"      -> {"new", "have", "token", "end"}
      [] op = "addGroup"    -> {"new", "checked", "have", "save", "failed", "end"}
      [] op = "setVCs"      -> {"new", "checked", "have", "allowed", "save", "failed", "end"}
      [] op = "delete"      -> {"new", "allowed", "save", "failed", "end"}
      [] op = "create"      -> {"new", "checked", "created", "end"}
      [] op = "login"       -> {"new", "absent", "created", "checked", "have", "save", "failed", "end"}
      [] op = "update"      -> {"new", "have", "vc", "admin", "save", "failed", "revoke", "end"}
      [] op = "self"        -> {"new", "have", "verified", "save", "failed", "revoke", "end"}
      [] op = "list"        -> {"new", "end"}
      [] op = "createGroup" -> {"new", "written", "end"}
      [] op = "updateGroup" -> {"new", "group", "written", "end"}
      [] op = "deleteGroup" -> {"new", "written", "members", "save", "failed", "end"}
      [] OTHER              -> {"new"}

\* Where the start-up can be.
BootPlaces == {"up", "config", "vcs", "admin", "sync", "purge", "repair", "save", "exit"}

\* Where a call can be.
Places == BootPlaces \union {"new", "have", "checked", "allowed", "vc", "verified", "failed",
                             "token", "revoke", "absent", "created", "group", "written",
                             "members", "end"}

\* The record kept of a call.
Call == [pc : Places, ref : Refs \union {NoRef}, puts : SUBSET [user : Users, value : User],
         drops : SUBSET Users]

\* The types of the variables.
AccountsTyped ==
    /\ userSecret \in [Users -> User \union {NoUser}]
    /\ groupSecret \in [Groups -> Group \union {NoGroup}]
    /\ objects \in [Refs -> User \union {NoUser}]
    /\ userCache \in [Users -> Refs \union {NoRef}]
    /\ userList \in [Users -> User \union {NoUser}] \union {NoList}
    /\ groupCache \in [Groups -> Group \union {NoGroup}]
    /\ groupList \in [Groups -> Group \union {NoGroup}] \union {NoList}
    /\ call \in [Everyone -> Call]
    /\ tainted \subseteq Users \union Groups /\ orphans \subseteq Groups /\ mixed \in BOOLEAN

\* A call is at a place of its own operation, and has PUTs or entries to delete only
\* where it waits for them.
PlacesAreRight ==
    /\ \A c \in Calls : call[c].pc \in PlacesOf(request[c].op)
    /\ \A c \in Calls : call[c].pc \notin {"save", "failed"} => call[c].puts = {} /\ call[c].drops = {}
    /\ call[Boot].pc \in BootPlaces
    /\ call[Boot].pc \notin {"purge", "save", "exit"} => call[Boot].puts = {} /\ call[Boot].drops = {}

\* Where a handler works with the object it has read.
Has(c) ==
    \/ call[c].pc \in {"have", "vc", "admin", "verified"}
    \/ call[c].pc = "allowed" /\ request[c].op = "setVCs"

\* A reference is that of one user: in the cache, and in the calls that hold it.
RefsAreOwn ==
    /\ \A u \in Users : userCache[u] # NoRef => objects[userCache[u]] \in User
    /\ \A c \in Calls : call[c].ref # NoRef => objects[call[c].ref] \in User
    /\ \A c \in Calls : Has(c) => call[c].ref # NoRef
    /\ \A c \in Calls : call[c].pc \in {"new", "end"} => call[c].ref = NoRef
    /\ \A u, v \in Users : userCache[u] = userCache[v] /\ userCache[u] # NoRef => u = v
    /\ \A u \in Users, c \in Calls :
           userCache[u] = call[c].ref /\ userCache[u] # NoRef => request[c].user = u

\* The cache entry of the user is going to be deleted, if only because the process ends.
Leaving(u) ==
    \/ call[Boot].pc = "exit"
    \/ \E c \in Everyone : u \in call[c].drops

\* A PUT of the user is still to come.
Saving(u) == \E c \in Everyone : \E p \in call[c].puts : p.user = u

\* The cached object is ahead of the secret, or behind it.
Changing(u) ==
    \/ Leaving(u) \/ Saving(u)
    \/ \E c \in Calls : call[c].pc \in {"vc", "admin", "verified"} /\ request[c].user = u

\* The list of the users is ahead of the secret, or behind it.
Listing(u) ==
    \/ Leaving(u) \/ Saving(u)
    \/ \E c \in Calls : call[c].pc = "created" /\ request[c].user = u

\* A cached user that no flow is about agrees with its secret.
UsersAgree ==
    \A u \in Users \ tainted :
        userCache[u] # NoRef /\ ~Changing(u) => Agrees(objects[userCache[u]], userSecret[u])

\* So does the entry of the user in the list.
ListAgrees ==
    \A u \in Users \ tainted :
        userList # NoList /\ ~Listing(u) => userList[u] = userSecret[u]

\* A user that is gone is in no cache, once the entry was deleted.
GoneUsers ==
    \A u \in Users \ tainted :
        userSecret[u] = NoUser /\ ~Leaving(u) =>
            userCache[u] = NoRef /\ (userList # NoList => userList[u] = NoUser)

\* The same of the groups.
GroupLeaving(g) ==
    \/ call[Boot].pc = "exit"
    \/ \E c \in Calls :
           call[c].pc = "written" /\ request[c].op # "createGroup" /\ request[c].group = g

\* The cached group is ahead of the secret, or behind it.
GroupChanging(g) ==
    \/ GroupLeaving(g)
    \/ \E c \in Calls : call[c].pc = "group" /\ request[c].group = g

\* The list of the groups is behind the secret.
GroupListing(g) ==
    \/ call[Boot].pc = "exit"
    \/ \E c \in Calls : call[c].pc = "written" /\ request[c].group = g

\* A group that no flow is about is what its secret holds, in the cache and in the list.
GroupsAgree ==
    \A g \in Groups \ tainted :
        /\ ~GroupChanging(g) => groupCache[g] \in {NoGroup, groupSecret[g]}
        /\ groupList # NoList /\ ~GroupListing(g) => groupList[g] = groupSecret[g]

\* A group that is gone is in no cache, once the entry was deleted.
GoneGroups ==
    \A g \in Groups \ tainted :
        groupSecret[g] = NoGroup /\ ~GroupLeaving(g) => groupCache[g] = NoGroup

\* The inductive invariant.
AccountInv ==
    /\ AccountsTyped
    /\ PlacesAreRight
    /\ RefsAreOwn
    /\ UsersAgree /\ ListAgrees /\ GoneUsers
    /\ GroupsAgree /\ GoneGroups

-----------------------------------------------------------------------------
(***************************************************************************)
(* Facts about the operators.                                              *)
(***************************************************************************)
\* A reference that nobody holds is always left for a user that is not cached: every
\* other user and every call hold one at most.
LEMMA SpareIsFree ==
    ASSUME AccountsTyped, NEW u \in Users, userCache[u] = NoRef
    PROVE  /\ Spare \in Refs
           /\ \A v \in Users : userCache[v] # Spare
           /\ \A c \in Calls : call[c].ref # Spare
<1> DEFINE Others == Users \ {u}
           InCache == {userCache[v] : v \in Others}
           InCalls == {call[c].ref : c \in Calls}
           f == [v \in Others |-> userCache[v]]
           g == [c \in Calls |-> call[c].ref]
<1>1. /\ IsFiniteSet(Users) /\ IsFiniteSet(Calls) /\ IsFiniteSet(Refs) /\ NoRef \notin Refs
      /\ Cardinality(Refs) >= Cardinality(Users) + Cardinality(Calls)
  BY AccountsAssumption
<1>2. IsFiniteSet(Others) /\ Cardinality(Others) = Cardinality(Users) - 1
  BY <1>1, FS_RemoveElement
<1>3. IsFiniteSet(InCache) /\ Cardinality(InCache) <= Cardinality(Others)
  <2>1. f \in Surjection(Others, InCache)
    BY DEF Surjection
  <2> QED
    BY <1>2, <2>1, FS_Surjection
<1>4. IsFiniteSet(InCalls) /\ Cardinality(InCalls) <= Cardinality(Calls)
  <2>1. g \in Surjection(Calls, InCalls)
    BY DEF Surjection
  <2> QED
    BY <1>1, <2>1, FS_Surjection
<1>5. /\ Cardinality(InCache) \in Nat /\ Cardinality(InCalls) \in Nat
      /\ Cardinality(Users) \in Nat /\ Cardinality(Calls) \in Nat
      /\ Cardinality(InCache \intersect InCalls) \in Nat
      /\ Cardinality(Refs) \in Nat
  <2>1. IsFiniteSet(InCache \intersect InCalls)
    BY <1>3, FS_Subset
  <2> QED
    BY <1>1, <1>3, <1>4, <2>1, FS_CardinalityType
<1> HIDE DEF Others, InCache, InCalls
<1>6. IsFiniteSet(InCache \union InCalls) /\ Cardinality(InCache \union InCalls) < Cardinality(Refs)
  <2>1. /\ IsFiniteSet(InCache \union InCalls)
        /\ Cardinality(InCache \union InCalls)
             = Cardinality(InCache) + Cardinality(InCalls) - Cardinality(InCache \intersect InCalls)
    BY <1>3, <1>4, FS_Union
  <2> QED
    BY <1>1, <1>2, <1>3, <1>4, <1>5, <2>1
<1>7. PICK r \in Refs : r \notin InCache \union InCalls
  <2>1. ~(Refs \subseteq InCache \union InCalls)
    <3>1. SUFFICES ASSUME Refs \in SUBSET (InCache \union InCalls)
                   PROVE  FALSE
      OBVIOUS
    <3>2. Cardinality(Refs) <= Cardinality(InCache \union InCalls)
      BY <1>6, <3>1, FS_Subset
    <3>3. Cardinality(InCache \union InCalls) \in Nat
      BY <1>6, FS_CardinalityType
    <3> QED
      BY <1>5, <1>6, <3>2, <3>3
  <2> QED
    BY <2>1
<1>8. r \notin {userCache[v] : v \in Users} \union {call[c].ref : c \in Calls}
  BY <1>1, <1>7 DEF Others, InCache, InCalls
<1>9. Spare \in Refs /\ Spare \notin {userCache[v] : v \in Users} \union {call[c].ref : c \in Calls}
  BY <1>8 DEF Spare
<1> QED
  BY <1>9

\* A user or group that exists is told from one that does not.
LEMMA NobodyIsNoUser == NoUser \notin User
BY DEF NoUser, User

\* The same of a group.
LEMMA NothingIsNoGroup == NoGroup \notin Group
BY DEF NoGroup, Group

\* What is read is typed.
LEMMA ViewsAreTyped ==
    ASSUME AccountsTyped, RefsAreOwn
    PROVE  /\ AllUsers \in [Users -> User \union {NoUser}]
           /\ AllGroups \in [Groups -> Group \union {NoGroup}]
           /\ \A u \in Users : UserView(u) \in User \union {NoUser}
           /\ \A g \in Groups : GroupView(g) \in Group \union {NoGroup}
BY DEF AccountsTyped, RefsAreOwn, AllUsers, AllGroups, UserView, GroupView

\* A field of a user is replaced by one of its type.
LEMMA UserUpdate ==
    ASSUME NEW o \in User
    PROVE  /\ \A e \in Emails : [o EXCEPT !.email = e] \in User
           /\ \A gs \in SUBSET Groups : [o EXCEPT !.groups = gs] \in User
           /\ \A p \in Passwords : [o EXCEPT !.password = p] \in User
           /\ o.groups \in SUBSET Groups
BY DEF User

-----------------------------------------------------------------------------
(***************************************************************************)
(* What a step does to the calls, the caches and the history.              *)
(***************************************************************************)
\* Only the record of c changes, to this one.
Moves(c, pc, ref, puts, drops) ==
    /\ call' \in [Everyone -> Call]
    /\ \A d \in Everyone \ {c} : call'[d] = call[d]
    /\ call'[c].pc = pc /\ call'[c].ref = ref /\ call'[c].puts = puts /\ call'[c].drops = drops

\* A call that goes on keeps what it holds and waits for.
LEMMA GotoMoves ==
    ASSUME AccountsTyped, NEW c \in Everyone, NEW pc \in Places, Goto(c, pc)
    PROVE  Moves(c, pc, call[c].ref, call[c].puts, call[c].drops)
BY DEF AccountsTyped, Goto, Moves, Call

\* A call that answers holds nothing and waits for nothing.
LEMMA AnswerMoves ==
    ASSUME AccountsTyped, NEW c \in Everyone, Answer(c)
    PROVE  Moves(c, "end", NoRef, {}, {})
BY DEF AccountsTyped, Answer, Moves, Call, Fresh, Places

\* A call that saves waits for one PUT.
LEMMA SaveMoves ==
    ASSUME AccountsTyped, NEW c \in Calls, NEW value \in User, request[c].user \in Users,
           Save(c, value)
    PROVE  Moves(c, "save", call[c].ref, {[user |-> request[c].user, value |-> value]}, call[c].drops)
<1> DEFINE k == [call[c] EXCEPT !.pc = "save", !.puts = {[user |-> request[c].user, value |-> value]}]
<1>1. {[user |-> request[c].user, value |-> value]} \in SUBSET [user : Users, value : User]
  OBVIOUS
<1>2. call[c] \in Call /\ "save" \in Places
  BY DEF AccountsTyped, Everyone, Places, BootPlaces
<1>3. k \in Call
  BY <1>1, <1>2 DEF Call
<1>4. call' = [call EXCEPT ![c] = k]
  BY DEF Save, AccountsTyped
<1>5. k.pc = "save" /\ k.ref = call[c].ref /\ k.drops = call[c].drops
      /\ k.puts = {[user |-> request[c].user, value |-> value]}
  BY <1>2 DEF Call
<1> HIDE DEF k
<1> QED
  BY <1>3, <1>4, <1>5 DEF Moves, AccountsTyped, Everyone

\* What the request of a call asks for.
LEMMA RequestIsTyped ==
    ASSUME request \in Scripts, NEW c \in Calls
    PROVE  LET r == request[c] IN
           /\ r.op \in {"get", "email", "setGroups", "addGroup", "removeGroup", "password", "admin",
                        "setVCs", "delete", "create", "update", "self", "login", "signIn"}
                  => r.user \in Users
           /\ r.op \in {"email", "update", "self"} => r.email \in Emails
           /\ r.op \in {"password", "update", "self"} => r.new \in Texts
           /\ r.op \in {"setGroups", "login"} => r.groups \in SUBSET Groups
           /\ r.op \in {"setVCs", "create", "update"} => r.vcs \in SUBSET Groups
           /\ r.op \in {"addGroup", "removeGroup", "createGroup", "updateGroup", "deleteGroup"}
                  => r.group \in Groups
           /\ r.op \in {"createGroup", "updateGroup"} => r.value \in Group
BY RequestsAssumption

\* The references stay those of one user each, and what they refer to stays an object.
RefsStep ==
    /\ objects' \in [Refs -> User \union {NoUser}]
    /\ userCache' \in [Users -> Refs \union {NoRef}]
    /\ \A u \in Users : userCache'[u] # NoRef => objects'[userCache'[u]] \in User
    /\ \A c \in Calls : call[c].ref # NoRef => objects'[call[c].ref] \in User
    /\ \A u, v \in Users : userCache'[u] = userCache'[v] /\ userCache'[u] # NoRef => u = v
    /\ \A u \in Users, c \in Calls :
           userCache'[u] = call[c].ref /\ userCache'[u] # NoRef => request[c].user = u

\* A cached user stays, though the password may be erased, or is read from the secret;
\* all but those of W.
CacheStep(W) ==
    /\ \A u \in Users : userCache[u] = NoRef /\ userCache'[u] # NoRef =>
           objects'[userCache'[u]] = userSecret[u]
    /\ \A u \in Users \ W : userCache[u] # NoRef /\ userCache'[u] # NoRef =>
           objects'[userCache'[u]] \in {objects[userCache[u]],
                                        [objects[userCache[u]] EXCEPT !.password = Erased]}

\* The list of the users stays, is read or is dropped.
ListStep == userList' \in {userList, AllUsers, NoList}

\* Groups are read.
GroupStep ==
    /\ groupCache' \in [Groups -> Group \union {NoGroup}]
    /\ \A g \in Groups : groupCache'[g] \in {groupCache[g], groupSecret[g]}
    /\ groupList' \in {groupList, AllGroups}
    /\ UNCHANGED groupSecret

\* The history only grows.
HistoryStep ==
    /\ tainted \subseteq tainted' /\ tainted' \subseteq Users \union Groups
    /\ orphans' \subseteq Groups /\ mixed' \in BOOLEAN

\* Caches that lose entries, or stay.
LEMMA ShrinkingCache ==
    ASSUME AccountsTyped, RefsAreOwn, UNCHANGED objects,
           userCache' \in [Users -> Refs \union {NoRef}],
           \A u \in Users : userCache'[u] \in {userCache[u], NoRef}
    PROVE  RefsStep /\ CacheStep({})
<1>1. RefsStep
  BY DEF RefsStep, AccountsTyped, RefsAreOwn
<1>2. CacheStep({})
  BY DEF CacheStep
<1> QED
  BY <1>1, <1>2

\* A user that is read is cached afterwards, as an object nobody else refers to.
LEMMA ReadUserStep ==
    ASSUME AccountsTyped, RefsAreOwn, NEW u \in Users, UserView(u) # NoUser, ReadUser(u)
    PROVE  RefsStep /\ CacheStep({}) /\ userCache'[u] # NoRef
<1>1. CASE userCache[u] # NoRef
  <2>1. UNCHANGED <<objects, userCache>>
    BY <1>1 DEF ReadUser
  <2> QED
    BY <1>1, <2>1, ShrinkingCache DEF AccountsTyped
<1>2. CASE userCache[u] = NoRef
  <2> DEFINE s == Spare
  <2>1. s \in Refs /\ (\A v \in Users : userCache[v] # s) /\ \A c \in Calls : call[c].ref # s
    BY <1>2, SpareIsFree
  <2>2. objects' = [objects EXCEPT ![s] = userSecret[u]] /\ userCache' = [userCache EXCEPT ![u] = s]
    BY <1>2 DEF ReadUser
  <2> HIDE DEF s
  <2>3. userSecret[u] \in User /\ s # NoRef
    BY <1>2, <2>1, AccountsAssumption DEF AccountsTyped, UserView
  <2>4. userCache'[u] = s /\ \A v \in Users \ {u} : userCache'[v] = userCache[v]
    BY <2>2 DEF AccountsTyped
  <2>5. objects'[s] = userSecret[u] /\ \A r \in Refs \ {s} : objects'[r] = objects[r]
    BY <2>1, <2>2 DEF AccountsTyped
  <2>6. objects' \in [Refs -> User \union {NoUser}] /\ userCache' \in [Users -> Refs \union {NoRef}]
    BY <2>1, <2>2, <2>3 DEF AccountsTyped
  <2>7. \A v \in Users : userCache[v] # NoRef => objects'[userCache[v]] = objects[userCache[v]]
    BY <2>1, <2>5 DEF AccountsTyped
  <2>8. \A c \in Calls : call[c].ref # NoRef => objects'[call[c].ref] = objects[call[c].ref]
    BY <2>1, <2>5 DEF AccountsTyped, Call, Everyone
  <2>9. RefsStep
    BY <2>1, <2>3, <2>4, <2>5, <2>6, <2>7, <2>8 DEF RefsStep, RefsAreOwn
  <2>10. CacheStep({})
    BY <1>2, <2>4, <2>5, <2>7 DEF CacheStep
  <2> QED
    BY <2>3, <2>4, <2>9, <2>10
<1> QED
  BY <1>1, <1>2

\* The object a call holds is changed: it is that of the user of the request, if it is
\* still cached.
LEMMA ChangeStep ==
    ASSUME AccountsTyped, RefsAreOwn, NEW c \in Calls, call[c].ref # NoRef, NEW o \in User,
           objects' = [objects EXCEPT ![call[c].ref] = o], UNCHANGED userCache
    PROVE  /\ RefsStep /\ CacheStep({request[c].user})
           /\ o = [objects[call[c].ref] EXCEPT !.password = Erased] => CacheStep({})
<1> DEFINE r == call[c].ref
<1>1. r \in Refs
  BY DEF AccountsTyped, Call, Everyone
<1>2. objects'[r] = o /\ \A s \in Refs \ {r} : objects'[s] = objects[s]
  BY <1>1 DEF AccountsTyped
<1>3. objects' \in [Refs -> User \union {NoUser}]
  BY <1>1 DEF AccountsTyped
<1>4. \A d \in Calls : call[d].ref # NoRef => call[d].ref \in Refs
  BY DEF AccountsTyped, Call, Everyone
<1>5. \A u \in Users : userCache[u] # NoRef => userCache[u] \in Refs
  BY DEF AccountsTyped
<1>6. RefsStep
  BY <1>2, <1>3, <1>4, <1>5 DEF RefsStep, RefsAreOwn, AccountsTyped
<1>7. \A u \in Users : userCache[u] # NoRef /\ userCache[u] = r => request[c].user = u
  BY DEF RefsAreOwn
<1>8. CacheStep({request[c].user})
  BY <1>2, <1>5, <1>7 DEF CacheStep
<1>9. o = [objects[r] EXCEPT !.password = Erased] => CacheStep({})
  BY <1>2, <1>5 DEF CacheStep
<1> QED
  BY <1>6, <1>8, <1>9

\* All ways to read groups are such steps.
LEMMA GroupReads ==
    ASSUME AccountsTyped
    PROVE  /\ UNCHANGED groups => GroupStep
           /\ \A gs : ReadGroups(gs) => GroupStep
           /\ ReadAllGroups => GroupStep
BY DEF GroupStep, AccountsTyped, groups, ReadGroups, ReadAllGroups, GroupView

\* What is recorded of a step: users, groups, and deletions that overlap.
LEMMA RecordKeeps ==
    ASSUME AccountsTyped, PlacesAreRight, request \in Scripts, NEW c \in Everyone,
           NEW names \in SUBSET (Users \union Groups),
           NEW deleted \in SUBSET Groups, Record(c, names, deleted)
    PROVE  HistoryStep /\ tainted' = tainted \union names
<1>1. \A d \in Calls : Deletes(d) => request[d].group \in Groups
  BY RequestIsTyped DEF Deletes
<1>2. c = Boot => call[c].pc # "new"
  BY DEF PlacesAreRight, BootPlaces
<1>3. call[c].pc = "new" => Overlapped(c) \subseteq Groups
  BY <1>1, <1>2 DEF Overlapped, Everyone
<1> QED
  BY <1>3 DEF Record, HistoryStep, AccountsTyped

\* Nothing is recorded.
LEMMA HistoryStays ==
    ASSUME AccountsTyped, UNCHANGED history
    PROVE  HistoryStep
BY DEF AccountsTyped, history, HistoryStep

-----------------------------------------------------------------------------
(***************************************************************************)
(* The steps of a handler that write no secret.                            *)
(***************************************************************************)
\* Where the object a handler has changed is not saved yet.
Midway == {"vc", "admin", "verified"}

\* Where a handler reads, checks and changes the object.
Preparing == {"new", "have", "checked", "allowed"} \union Midway

\* A step of a handler that prepares: it reads, and may change the object of its user,
\* which is then saved, or changed further, or given up and recorded as tainted.
Prepares(c, pc, ref, puts) ==
    /\ Moves(c, pc, ref, puts, {})
    /\ pc \in PlacesOf(request[c].op)
    /\ pc \notin {"save", "failed"} => puts = {}
    /\ \A p \in puts : p.user = request[c].user
    /\ \/ ref \in {call[c].ref, NoRef}
       \/ ref # NoRef /\ ref = userCache'[request[c].user] /\ request[c].user \in Users
    /\ pc \in {"have", "allowed"} \union Midway => ref # NoRef \/ request[c].op = "delete"
    /\ pc \in {"new", "end"} => ref = NoRef
    /\ RefsStep
    /\ \/ CacheStep({}) /\ call[c].pc \notin Midway
       \/ /\ CacheStep({request[c].user})
          /\ pc \in Midway \/ puts # {} \/ request[c].user \in tainted'
    /\ ListStep /\ GroupStep /\ HistoryStep
    /\ UNCHANGED <<userSecret, request>>

\* Such a step leaves every flow of changes that was there.
LEMMA PreparingFlows ==
    ASSUME AccountInv, NEW c \in Calls, call[c].pc \in Preparing,
           NEW pc, NEW ref, NEW puts, Prepares(c, pc, ref, puts)
    PROVE  /\ \A u : Leaving(u)' <=> Leaving(u)
           /\ \A u : Listing(u) => Listing(u)'
           /\ \A u : Changing(u) => Changing(u)' \/ u \in tainted'
           /\ \A g : GroupLeaving(g) => GroupLeaving(g)'
           /\ \A g : GroupChanging(g) => GroupChanging(g)'
           /\ \A g : GroupListing(g) => GroupListing(g)'
<1>1. /\ call[c].puts = {} /\ call[c].drops = {} /\ call'[c].drops = {} /\ c # Boot
      /\ \A d \in Everyone \ {c} : call'[d] = call[d]
      /\ c \in Everyone /\ Boot \in Everyone
  BY AccountsAssumption DEF AccountInv, PlacesAreRight, Preparing, Midway, Prepares, Moves, Everyone
<1>2. call'[Boot] = call[Boot] /\ \A d \in Calls \ {c} : call'[d] = call[d]
  BY <1>1 DEF Everyone
<1>3. UNCHANGED request
  BY DEF Prepares
<1>4. \A u : Leaving(u)' <=> Leaving(u)
  BY <1>1, <1>2 DEF Leaving
<1>5. \A u : Saving(u) => Saving(u)'
  BY <1>1 DEF Saving
<1>6. call[c].pc \notin {"created", "group", "written"}
  BY DEF Preparing, Midway
<1>7. \A u : Listing(u) => Listing(u)'
  BY <1>2, <1>3, <1>4, <1>5, <1>6 DEF Listing
<1>8. \A u : Changing(u) => Changing(u)' \/ u \in tainted'
  <2> SUFFICES ASSUME NEW u, Changing(u), u \notin tainted'
               PROVE  Changing(u)'
    OBVIOUS
  <2>1. CASE Leaving(u) \/ Saving(u)
    BY <1>4, <1>5, <2>1 DEF Changing
  <2>2. ASSUME NEW d \in Calls, call[d].pc \in Midway, request[d].user = u
        PROVE  Changing(u)'
    <3>1. CASE d # c
      BY <1>2, <1>3, <2>2, <3>1 DEF Changing, Midway
    <3>2. CASE d = c
      <4>1. call'[c].pc \in Midway \/ call'[c].puts # {}
        BY <2>2, <3>2 DEF Prepares, Moves
      <4>2. \A p \in call'[c].puts : p.user = u
        BY <2>2, <3>2 DEF Prepares, Moves
      <4> QED
        BY <1>1, <1>3, <2>2, <3>2, <4>1, <4>2 DEF Changing, Midway, Saving
    <3> QED
      BY <3>1, <3>2
  <2> QED
    BY <2>1, <2>2 DEF Changing, Midway
<1>9. /\ \A g : GroupLeaving(g) => GroupLeaving(g)'
      /\ \A g : GroupChanging(g) => GroupChanging(g)'
      /\ \A g : GroupListing(g) => GroupListing(g)'
  BY <1>2, <1>3, <1>6 DEF GroupLeaving, GroupChanging, GroupListing
<1> QED
  BY <1>4, <1>7, <1>8, <1>9

\* It keeps the types and the places.
LEMMA PreparingTyped ==
    ASSUME AccountInv, NEW c \in Calls, call[c].pc \in Preparing,
           NEW pc, NEW ref, NEW puts, Prepares(c, pc, ref, puts)
    PROVE  AccountsTyped' /\ PlacesAreRight' /\ RefsAreOwn'
<1>0. /\ c # Boot /\ c \in Everyone /\ Boot \in Everyone
      /\ \A d \in Everyone \ {c} : call'[d] = call[d]
  BY AccountsAssumption DEF Prepares, Moves, Everyone
<1>1. call'[Boot] = call[Boot] /\ \A d \in Calls \ {c} : call'[d] = call[d]
  BY <1>0 DEF Everyone
<1>2. UNCHANGED <<userSecret, groupSecret, request>> /\ call' \in [Everyone -> Call]
  BY DEF Prepares, GroupStep, Moves
<1>3. AccountsTyped'
  <2>1. userList' \in [Users -> User \union {NoUser}] \union {NoList}
    BY ViewsAreTyped DEF AccountInv, AccountsTyped, Prepares, ListStep
  <2>2. groupList' \in [Groups -> Group \union {NoGroup}] \union {NoList}
    BY ViewsAreTyped DEF AccountInv, AccountsTyped, Prepares, GroupStep
  <2>3. objects' \in [Refs -> User \union {NoUser}] /\ userCache' \in [Users -> Refs \union {NoRef}]
    BY DEF Prepares, RefsStep
  <2>4. groupCache' \in [Groups -> Group \union {NoGroup}]
    BY DEF Prepares, GroupStep
  <2> QED
    BY <1>2, <2>1, <2>2, <2>3, <2>4 DEF AccountInv, AccountsTyped, Prepares, HistoryStep
<1>4. PlacesAreRight'
  <2>1. call'[c].pc \in PlacesOf(request[c].op) /\ call'[c].drops = {}
        /\ (call'[c].pc \notin {"save", "failed"} => call'[c].puts = {})
    BY DEF Prepares, Moves
  <2>2. PlacesAreRight
    BY DEF AccountInv
  <2> QED
    BY <1>1, <1>2, <2>1, <2>2 DEF PlacesAreRight
<1>5. RefsAreOwn'
  <2>1. RefsAreOwn /\ RefsStep /\ PlacesAreRight
    BY DEF AccountInv, Prepares
  <2>2. /\ call'[c].ref \in {call[c].ref, NoRef}
           \/ (call'[c].ref = userCache'[request[c].user] /\ request[c].user \in Users)
        /\ call'[c].pc \in {"have", "allowed"} \union Midway =>
               call'[c].ref # NoRef \/ request[c].op = "delete"
    BY DEF Prepares, Moves
  <2>3. \A d \in Calls : call'[d].ref # NoRef => objects'[call'[d].ref] \in User
    BY <1>1, <2>1, <2>2 DEF RefsStep
  <2>4. \A d \in Calls : Has(d)' => call'[d].ref # NoRef
    <3>1. ASSUME NEW d \in Calls \ {c}, Has(d)'
          PROVE  call'[d].ref # NoRef
      BY <1>1, <1>2, <2>1, <3>1 DEF RefsAreOwn, Has
    <3>2. ASSUME Has(c)'
          PROVE  call'[c].ref # NoRef
      <4>1. call'[c].pc \in {"have", "allowed"} \union Midway /\ request[c].op # "delete"
        <5>1. CASE call'[c].pc = "allowed" /\ request[c].op = "setVCs"
          BY <5>1
        <5>2. CASE call'[c].pc \in {"have", "vc", "admin", "verified"}
          BY <1>4, <1>2, <5>2 DEF PlacesAreRight, PlacesOf, Midway
        <5> QED
          BY <1>2, <3>2, <5>1, <5>2 DEF Has
      <4> QED
        BY <2>2, <4>1
    <3> QED
      BY <3>1, <3>2
  <2>5. \A u \in Users, d \in Calls :
            userCache'[u] = call'[d].ref /\ userCache'[u] # NoRef => request[d].user = u
    BY <1>1, <2>1, <2>2 DEF RefsStep
  <2>6. \A d \in Calls : call'[d].pc \in {"new", "end"} => call'[d].ref = NoRef
    <3>1. call'[c].pc \in {"new", "end"} => call'[c].ref = NoRef
      BY DEF Prepares, Moves
    <3> QED
      BY <1>1, <2>1, <3>1 DEF RefsAreOwn
  <2> QED
    BY <1>2, <2>1, <2>3, <2>4, <2>5, <2>6 DEF RefsAreOwn, RefsStep
<1> QED
  BY <1>3, <1>4, <1>5

\* Erasing the password keeps the agreement.
LEMMA ErasedAgrees ==
    ASSUME NEW o \in User, NEW s, Agrees(o, s), s \in User
    PROVE  Agrees([o EXCEPT !.password = Erased], s)
BY DEF Agrees, User

\* An object agrees with what it was read from.
LEMMA FreshAgrees ==
    ASSUME NEW s \in User
    PROVE  Agrees(s, s)
BY NobodyIsNoUser DEF Agrees, User

\* A preparing step keeps the invariant: what it changes is read from the secrets, or is
\* a change of the user of the request, which is then under way or tainted.
LEMMA PreparingKeeps ==
    ASSUME AccountInv, NEW c \in Calls, call[c].pc \in Preparing,
           NEW pc, NEW ref, NEW puts, Prepares(c, pc, ref, puts)
    PROVE  AccountInv'
<1>1. AccountsTyped' /\ PlacesAreRight' /\ RefsAreOwn'
  BY PreparingTyped
<1>2. /\ \A u : Leaving(u)' <=> Leaving(u)
      /\ \A u : Listing(u) => Listing(u)'
      /\ \A u : Changing(u) => Changing(u)' \/ u \in tainted'
      /\ \A g : GroupLeaving(g) => GroupLeaving(g)'
      /\ \A g : GroupChanging(g) => GroupChanging(g)'
      /\ \A g : GroupListing(g) => GroupListing(g)'
  BY PreparingFlows
<1>3. /\ UNCHANGED <<userSecret, groupSecret, request>> /\ tainted \subseteq tainted'
      /\ RefsStep /\ CacheStep({request[c].user}) /\ ListStep /\ GroupStep
      /\ CacheStep({}) \/ pc \in Midway \/ puts # {} \/ request[c].user \in tainted'
  BY DEF Prepares, GroupStep, HistoryStep, CacheStep
<1>4. CacheStep({}) \/ request[c].user \in tainted' \/ Changing(request[c].user)'
  <2>1. c \in Everyone /\ call'[c].pc = pc /\ call'[c].puts = puts /\ \A p \in puts : p.user = request[c].user
    BY DEF Prepares, Moves, Everyone
  <2> QED
    BY <1>3, <2>1 DEF Changing, Saving, Midway
<1>5. UsersAgree'
  <2> SUFFICES ASSUME NEW u \in Users, u \notin tainted', userCache'[u] # NoRef, ~Changing(u)'
               PROVE  Agrees(objects'[userCache'[u]], userSecret[u])
    BY <1>3 DEF UsersAgree
  <2>1. ~Changing(u) /\ u \notin tainted
    BY <1>2, <1>3
  <2>2. objects'[userCache'[u]] \in User
    BY <1>3 DEF RefsStep
  <2>3. CASE userCache[u] = NoRef
    BY <1>3, <2>2, <2>3, FreshAgrees DEF CacheStep
  <2>4. CASE userCache[u] # NoRef
    <3>1. /\ objects'[userCache'[u]] \in {objects[userCache[u]],
                                        [objects[userCache[u]] EXCEPT !.password = Erased]}
      BY <1>3, <1>4, <2>4 DEF CacheStep
    <3>2. Agrees(objects[userCache[u]], userSecret[u]) /\ objects[userCache[u]] \in User
      BY <2>1, <2>4 DEF AccountInv, UsersAgree, RefsAreOwn
    <3>3. userSecret[u] \in User
      BY <3>2 DEF Agrees, AccountInv, AccountsTyped
    <3> QED
      BY <3>1, <3>2, <3>3, ErasedAgrees
  <2> QED
    BY <2>3, <2>4
<1>6. ListAgrees' /\ GoneUsers'
  <2>1. ASSUME NEW u \in Users, u \notin tainted', userList' # NoList, ~Listing(u)'
        PROVE  userList'[u] = userSecret[u]
    <3>1. ~Listing(u) /\ u \notin tainted
      BY <1>2, <1>3, <2>1
    <3> QED
      BY <1>3, <2>1, <3>1 DEF AccountInv, ListAgrees, ListStep, AllUsers
  <2>2. ASSUME NEW u \in Users, u \notin tainted', userSecret[u] = NoUser, ~Leaving(u)'
        PROVE  userCache'[u] = NoRef /\ (userList' # NoList => userList'[u] = NoUser)
    <3>1. userCache[u] = NoRef /\ (userList # NoList => userList[u] = NoUser)
      BY <1>2, <1>3, <2>2 DEF AccountInv, GoneUsers
    <3>2. userCache'[u] = NoRef
      BY <1>3, <2>2, <3>1, NobodyIsNoUser DEF CacheStep, RefsStep
    <3> QED
      BY <1>3, <2>2, <3>1, <3>2 DEF ListStep, AllUsers
  <2> QED
    BY <1>3, <2>1, <2>2 DEF ListAgrees, GoneUsers
<1>7. GroupsAgree' /\ GoneGroups'
  <2>1. ASSUME NEW g \in Groups, g \notin tainted'
        PROVE  /\ ~GroupChanging(g)' => groupCache'[g] \in {NoGroup, groupSecret[g]}
               /\ groupList' # NoList /\ ~GroupListing(g)' => groupList'[g] = groupSecret[g]
               /\ groupSecret[g] = NoGroup /\ ~GroupLeaving(g)' => groupCache'[g] = NoGroup
    BY <1>2, <1>3, <2>1 DEF AccountInv, GroupsAgree, GoneGroups, GroupStep, AllGroups
  <2> QED
    BY <1>3, <2>1 DEF GroupsAgree, GoneGroups
<1> QED
  BY <1>1, <1>5, <1>6, <1>7 DEF AccountInv

\* A handler that prepares waits for nothing.
LEMMA PreparingIsIdle ==
    ASSUME AccountInv, NEW c \in Calls, call[c].pc \in Preparing
    PROVE  /\ call[c].puts = {} /\ call[c].drops = {} /\ c \in Everyone
           /\ call[c].pc \in PlacesOf(request[c].op)
           /\ AccountsTyped /\ PlacesAreRight /\ RefsAreOwn
           /\ Has(c) => call[c].ref # NoRef /\ objects[call[c].ref] \in User
BY DEF AccountInv, PlacesAreRight, Preparing, Midway, Everyone, RefsAreOwn

\* All that a reading step leaves of the caches and the history.
ReadsOnly == RefsStep /\ ListStep /\ GroupStep /\ HistoryStep /\ UNCHANGED <<userSecret, request>>

\* The handler answers: it has read only, or the user is recorded as tainted.
LEMMA AnswerPrepares ==
    ASSUME AccountInv, NEW c \in Calls, call[c].pc \in Preparing, Answer(c), ReadsOnly,
           "end" \in PlacesOf(request[c].op),
           \/ CacheStep({}) /\ call[c].pc \notin Midway
           \/ CacheStep({request[c].user}) /\ request[c].user \in tainted'
    PROVE  AccountInv'
<1>1. Moves(c, "end", NoRef, {}, {})
  BY PreparingIsIdle, AnswerMoves
<1>2. Prepares(c, "end", NoRef, {})
  BY <1>1 DEF Prepares, ReadsOnly, Midway
<1> QED
  BY <1>2, PreparingKeeps

\* The handler goes on.
LEMMA GotoPrepares ==
    ASSUME AccountInv, NEW c \in Calls, call[c].pc \in Preparing, NEW pc \in Places, Goto(c, pc), ReadsOnly,
           pc \in PlacesOf(request[c].op), pc \notin {"save", "failed", "new", "end"},
           pc \in {"have", "allowed"} \union Midway => call[c].ref # NoRef \/ request[c].op = "delete",
           \/ CacheStep({}) /\ call[c].pc \notin Midway
           \/ CacheStep({request[c].user}) /\ pc \in Midway
    PROVE  AccountInv'
<1>1. Moves(c, pc, call[c].ref, {}, {})
  BY PreparingIsIdle, GotoMoves
<1>2. Prepares(c, pc, call[c].ref, {})
  BY <1>1 DEF Prepares, ReadsOnly, Midway
<1> QED
  BY <1>2, PreparingKeeps

\* The handler saves.
LEMMA SavePrepares ==
    ASSUME AccountInv, NEW c \in Calls, call[c].pc \in Preparing, NEW value \in User, Save(c, value),
           ReadsOnly, request[c].user \in Users, "save" \in PlacesOf(request[c].op),
           CacheStep({}) \/ CacheStep({request[c].user})
    PROVE  AccountInv'
<1> DEFINE puts == {[user |-> request[c].user, value |-> value]}
<1>1. Moves(c, "save", call[c].ref, puts, {})
  BY PreparingIsIdle, SaveMoves
<1>2. CacheStep({request[c].user})
  BY DEF CacheStep
<1>3. puts # {} /\ \A p \in puts : p.user = request[c].user
  OBVIOUS
<1> HIDE DEF puts
<1>4. Prepares(c, "save", call[c].ref, puts)
  BY <1>1, <1>2, <1>3 DEF Prepares, ReadsOnly, Midway
<1> QED
  BY <1>4, PreparingKeeps

\* The parts of ReadsOnly, as the handlers have them.
LEMMA UsersStay ==
    ASSUME AccountsTyped, RefsAreOwn, UNCHANGED <<objects, userCache>>
    PROVE  RefsStep /\ CacheStep({})
BY ShrinkingCache DEF AccountsTyped

\* A handler records that it goes on.
LEMMA ContinuesKeeps ==
    ASSUME AccountsTyped, PlacesAreRight, request \in Scripts, NEW c \in Calls, Continues(c)
    PROVE  HistoryStep
BY RecordKeeps DEF Continues, Everyone

\* A handler records what it leaves in memory only.
LEMMA TaintKeeps ==
    ASSUME AccountsTyped, PlacesAreRight, request \in Scripts, NEW c \in Calls,
           NEW names \in SUBSET (Users \union Groups), Taint(c, names)
    PROVE  HistoryStep /\ names \subseteq tainted'
BY RecordKeeps DEF Taint, Everyone

-----------------------------------------------------------------------------
(***************************************************************************)
(* The handlers, before they have the object.                              *)
(***************************************************************************)
LEMMA FetchUserKeeps ==
    ASSUME AccountInv, request \in Scripts, NEW c \in Calls, FetchUser(c)
    PROVE  AccountInv'
<1> DEFINE u == request[c].user
<1>1. AboutToReadUser(c) /\ UserView(u) # NoUser /\ ReadUser(u) /\ Continues(c)
      /\ call' = [call EXCEPT ![c].pc = "have", ![c].ref = userCache'[u]]
      /\ UNCHANGED <<userSecret, userList, groups, request>>
  BY DEF FetchUser
<1>2. call[c].pc \in Preparing /\ "have" \in PlacesOf(request[c].op) /\ u \in Users
  BY <1>1, RequestIsTyped DEF AboutToReadUser, ReadsUserFirst, Preparing, PlacesOf
<1>3. AccountsTyped /\ RefsAreOwn /\ PlacesAreRight /\ call[c].pc \notin Midway
      /\ call[c].puts = {} /\ call[c].drops = {}
  BY <1>1, <1>2, PreparingIsIdle DEF AboutToReadUser, Midway
<1>4. RefsStep /\ CacheStep({}) /\ userCache'[u] # NoRef
  BY <1>1, <1>2, <1>3, ReadUserStep
<1>5. ListStep /\ GroupStep /\ HistoryStep
  BY <1>1, <1>3, GroupReads, ContinuesKeeps DEF ListStep
<1>6. userCache'[u] \in Refs
  BY <1>2, <1>4 DEF RefsStep
<1>7. Moves(c, "have", userCache'[u], {}, {})
  BY <1>1, <1>3, <1>6 DEF Moves, AccountsTyped, Call, Everyone, Places
<1>8. Prepares(c, "have", userCache'[u], {})
  BY <1>1, <1>2, <1>3, <1>4, <1>5, <1>7 DEF Prepares
<1> QED
  BY <1>2, <1>8, PreparingKeeps

\* A user that does not exist is a 404.
LEMMA NoSuchUserKeeps ==
    ASSUME AccountInv, request \in Scripts, NEW c \in Calls, NoSuchUser(c)
    PROVE  AccountInv'
<1>1. AboutToReadUser(c) /\ Answer(c) /\ Continues(c) /\ UNCHANGED <<users, groups, request>>
  BY DEF NoSuchUser
<1>2. call[c].pc \in Preparing \ Midway /\ "end" \in PlacesOf(request[c].op)
  BY <1>1 DEF AboutToReadUser, ReadsUserFirst, Preparing, Midway, PlacesOf
<1>3. AccountsTyped /\ RefsAreOwn /\ PlacesAreRight
  BY DEF AccountInv
<1>4. ReadsOnly /\ CacheStep({})
  BY <1>1, <1>3, GroupReads, UsersStay, ContinuesKeeps DEF ReadsOnly, ListStep, users
<1> QED
  BY <1>1, <1>2, <1>4, AnswerPrepares

\* The group to be added is looked up.
LEMMA CheckGroupKeeps ==
    ASSUME AccountInv, request \in Scripts, NEW c \in Calls, CheckGroup(c)
    PROVE  AccountInv'
<1>1. /\ call[c].pc = "new" /\ request[c].op = "addGroup" /\ ReadAllGroups
      /\ Goto(c, "checked") \/ Answer(c)
      /\ Continues(c) /\ UNCHANGED <<users, request>>
  BY DEF CheckGroup
<1>2. call[c].pc \in Preparing \ Midway /\ {"end", "checked"} \subseteq PlacesOf(request[c].op)
  BY <1>1 DEF Preparing, Midway, PlacesOf
<1>3. AccountsTyped /\ RefsAreOwn /\ PlacesAreRight
  BY DEF AccountInv
<1>4. ReadsOnly /\ CacheStep({})
  BY <1>1, <1>3, GroupReads, UsersStay, ContinuesKeeps DEF ReadsOnly, ListStep, users
<1>5. CASE Answer(c)
  BY <1>2, <1>4, <1>5, AnswerPrepares
<1>6. CASE Goto(c, "checked")
  BY <1>2, <1>4, <1>6, GotoPrepares DEF Places, Midway
<1> QED
  BY <1>1, <1>5, <1>6

\* The virtual clusters of the request are looked up.
LEMMA CheckVCsKeeps ==
    ASSUME AccountInv, request \in Scripts, NEW c \in Calls, CheckVCs(c)
    PROVE  AccountInv'
<1>1. /\ call[c].pc = "new" /\ request[c].op \in {"setVCs", "create"} /\ ReadGroups(request[c].vcs)
      /\ Goto(c, "checked") \/ Answer(c)
      /\ Continues(c) /\ UNCHANGED <<users, request>>
  BY DEF CheckVCs
<1>2. call[c].pc \in Preparing \ Midway /\ {"end", "checked"} \subseteq PlacesOf(request[c].op)
  BY <1>1 DEF Preparing, Midway, PlacesOf
<1>3. AccountsTyped /\ RefsAreOwn /\ PlacesAreRight
  BY DEF AccountInv
<1>4. ReadsOnly /\ CacheStep({})
  BY <1>1, <1>3, GroupReads, UsersStay, ContinuesKeeps DEF ReadsOnly, ListStep, users
<1>5. CASE Answer(c)
  BY <1>2, <1>4, <1>5, AnswerPrepares
<1>6. CASE Goto(c, "checked")
  BY <1>2, <1>4, <1>6, GotoPrepares DEF Places, Midway
<1> QED
  BY <1>1, <1>5, <1>6

\* The user is read once more, with its groups.
LEMMA CheckAdminKeeps ==
    ASSUME AccountInv, request \in Scripts, NEW c \in Calls, CheckAdmin(c)
    PROVE  AccountInv'
<1> DEFINE u == request[c].user
<1>1. /\ \/ call[c].pc = "new" /\ request[c].op = "delete"
         \/ call[c].pc = "have" /\ request[c].op = "setVCs"
      /\ \/ Answer(c) /\ UNCHANGED <<users, groups>>
         \/ /\ UserView(u) # NoUser /\ ReadUser(u) /\ ReadGroups(UserView(u).groups)
            /\ Goto(c, "allowed") \/ Answer(c)
            /\ UNCHANGED <<userSecret, userList>>
      /\ Continues(c) /\ UNCHANGED request
  BY DEF CheckAdmin
<1>2. /\ call[c].pc \in Preparing \ Midway /\ {"end", "allowed"} \subseteq PlacesOf(request[c].op)
      /\ u \in Users
      /\ request[c].op = "setVCs" => Has(c)
  BY <1>1, RequestIsTyped DEF Preparing, Midway, PlacesOf, Has
<1>3. /\ AccountsTyped /\ RefsAreOwn /\ PlacesAreRight
      /\ call[c].ref # NoRef \/ request[c].op = "delete"
  BY <1>1, <1>2, PreparingIsIdle
<1>4. ReadsOnly /\ CacheStep({}) /\ (Goto(c, "allowed") \/ Answer(c))
  <2>1. HistoryStep
    BY <1>1, <1>3, ContinuesKeeps
  <2>2. CASE UNCHANGED <<users, groups>> /\ Answer(c)
    BY <1>1, <1>3, <2>1, <2>2, GroupReads, UsersStay DEF ReadsOnly, ListStep, users
  <2>3. CASE /\ UserView(u) # NoUser /\ ReadUser(u) /\ ReadGroups(UserView(u).groups)
             /\ Goto(c, "allowed") \/ Answer(c)
             /\ UNCHANGED <<userSecret, userList>>
    BY <1>1, <1>2, <1>3, <2>1, <2>3, GroupReads, ReadUserStep DEF ReadsOnly, ListStep
  <2> QED
    BY <1>1, <2>2, <2>3
<1>5. CASE Answer(c)
  BY <1>2, <1>4, <1>5, AnswerPrepares
<1>6. CASE Goto(c, "allowed")
  BY <1>2, <1>3, <1>4, <1>6, GotoPrepares DEF Places
<1> QED
  BY <1>4, <1>5, <1>6

\* A sign-in with OIDC reads its user.
LEMMA LoginKeeps ==
    ASSUME AccountInv, request \in Scripts, NEW c \in Calls, Login(c)
    PROVE  AccountInv'
<1> DEFINE u == request[c].user
<1>1. /\ call[c].pc = "new" /\ request[c].op = "login"
      /\ \/ Goto(c, "absent") /\ UNCHANGED <<objects, userCache>>
         \/ UserView(u) # NoUser /\ Goto(c, "checked") /\ ReadUser(u)
      /\ Continues(c) /\ UNCHANGED <<userSecret, userList, groups, request>>
  BY DEF Login
<1>2. /\ call[c].pc \in Preparing \ Midway /\ {"absent", "checked"} \subseteq PlacesOf(request[c].op)
      /\ u \in Users
  BY <1>1, RequestIsTyped DEF Preparing, Midway, PlacesOf
<1>3. AccountsTyped /\ RefsAreOwn /\ PlacesAreRight
  BY DEF AccountInv
<1>4. RefsStep /\ CacheStep({})
  BY <1>1, <1>2, <1>3, UsersStay, ReadUserStep
<1>5. ReadsOnly
  BY <1>1, <1>3, <1>4, GroupReads, ContinuesKeeps DEF ReadsOnly, ListStep
<1>6. CASE Goto(c, "absent")
  BY <1>2, <1>4, <1>5, <1>6, GotoPrepares DEF Places, Midway
<1>7. CASE Goto(c, "checked")
  BY <1>2, <1>4, <1>5, <1>7, GotoPrepares DEF Places, Midway
<1> QED
  BY <1>1, <1>6, <1>7

\* The list of the users is read.
LEMMA ListUsersKeeps ==
    ASSUME AccountInv, request \in Scripts, NEW c \in Calls, ListUsers(c)
    PROVE  AccountInv'
<1>1. /\ call[c].pc = "new" /\ request[c].op = "list" /\ userList' = AllUsers
      /\ ReadAllGroups /\ Answer(c) /\ Continues(c)
      /\ UNCHANGED <<userSecret, objects, userCache, request>>
  BY DEF ListUsers
<1>2. call[c].pc \in Preparing \ Midway /\ "end" \in PlacesOf(request[c].op)
  BY <1>1 DEF Preparing, Midway, PlacesOf
<1>3. AccountsTyped /\ RefsAreOwn /\ PlacesAreRight
  BY DEF AccountInv
<1>4. ReadsOnly /\ CacheStep({})
  BY <1>1, <1>3, GroupReads, UsersStay, ContinuesKeeps DEF ReadsOnly, ListStep
<1> QED
  BY <1>1, <1>2, <1>4, AnswerPrepares

-----------------------------------------------------------------------------
(***************************************************************************)
(* The handlers, with the object.                                          *)
(***************************************************************************)
\* A handler that has read the object: what it knows of it, and of the request.
LEMMA HolderIsReady ==
    ASSUME AccountInv, request \in Scripts, NEW c \in Calls, Has(c), request[c].user \in Users
    PROVE  /\ call[c].pc \in Preparing /\ "end" \in PlacesOf(request[c].op)
           /\ request[c].op \notin {"get", "signIn"} => "save" \in PlacesOf(request[c].op)
           /\ call[c].ref # NoRef /\ Object(c) \in User
           /\ AccountsTyped /\ RefsAreOwn /\ PlacesAreRight
<1>1. AccountsTyped /\ RefsAreOwn /\ PlacesAreRight
  BY DEF AccountInv
<1>2. call[c].pc \in Preparing
  BY DEF Has, Preparing, Midway
<1>3. /\ call[c].pc \in {"have", "vc", "admin", "verified", "allowed"}
      /\ call[c].pc = "allowed" => request[c].op = "setVCs"
      /\ call[c].pc \in PlacesOf(request[c].op)
  BY <1>1 DEF Has, PlacesAreRight
<1>4. "end" \in PlacesOf(request[c].op)
      /\ ("save" \in PlacesOf(request[c].op) \/ request[c].op \in {"get", "signIn"})
  BY <1>3 DEF PlacesOf
<1>5. call[c].ref # NoRef /\ Object(c) \in User
  BY <1>1 DEF RefsAreOwn, Object
<1> QED
  BY <1>1, <1>2, <1>4, <1>5

\* The handler changes the object, and saves it.
LEMMA ChangeAndSaveKeeps ==
    ASSUME AccountInv, request \in Scripts, NEW c \in Calls, Has(c), request[c].user \in Users,
           request[c].op \notin {"get", "signIn"}, NEW value \in User,
           ChangeAndSave(c, value), GroupStep, UNCHANGED <<request, history>>
    PROVE  AccountInv'
<1>1. /\ call[c].pc \in Preparing /\ "save" \in PlacesOf(request[c].op) /\ call[c].ref # NoRef
      /\ AccountsTyped /\ RefsAreOwn
  BY HolderIsReady
<1>2. /\ objects' = [objects EXCEPT ![call[c].ref] = value] /\ Save(c, value)
      /\ UNCHANGED <<userSecret, userCache, userList>>
  BY DEF ChangeAndSave
<1>3. RefsStep /\ CacheStep({request[c].user})
  BY <1>1, <1>2, ChangeStep
<1>4. HistoryStep
  BY <1>1, HistoryStays
<1>5. ReadsOnly
  BY <1>2, <1>3, <1>4 DEF ReadsOnly, ListStep
<1> QED
  BY <1>1, <1>2, <1>3, <1>5, SavePrepares

\* The handler gives up without a change.
LEMMA GiveUpKeeps ==
    ASSUME AccountInv, request \in Scripts, NEW c \in Calls, Has(c), request[c].user \in Users,
           call[c].pc \notin Midway, Answer(c), GroupStep, UNCHANGED <<users, request, history>>
    PROVE  AccountInv'
<1>1. /\ call[c].pc \in Preparing /\ "end" \in PlacesOf(request[c].op)
      /\ AccountsTyped /\ RefsAreOwn
  BY HolderIsReady
<1>2. RefsStep /\ CacheStep({}) /\ HistoryStep
  BY <1>1, UsersStay, HistoryStays DEF users
<1>3. ReadsOnly
  BY <1>2 DEF ReadsOnly, ListStep, users
<1> QED
  BY <1>1, <1>2, <1>3, AnswerPrepares

\* A handler at "have" of an operation that names a user.
LEMMA HoldsHas ==
    ASSUME request \in Scripts, NEW c \in Calls, NEW op, Holds(c, op),
           op \in {"get", "email", "setGroups", "addGroup", "removeGroup", "password", "admin",
                   "setVCs", "update", "self", "login", "signIn"}
    PROVE  Has(c) /\ request[c].user \in Users /\ call[c].pc \notin Midway /\ request[c].op = op
BY RequestIsTyped DEF Holds, Has, Midway

\* The password is erased in the cached object, which agreement allows.
LEMMA GetUserKeeps ==
    ASSUME AccountInv, request \in Scripts, NEW c \in Calls, GetUser(c)
    PROVE  AccountInv'
<1> DEFINE o == [objects[call[c].ref] EXCEPT !.password = Erased]
<1>1. /\ Holds(c, "get") /\ ReadGroups(Object(c).groups) /\ Answer(c)
      /\ objects' = [objects EXCEPT ![call[c].ref].password = Erased] \/ UNCHANGED objects
      /\ UNCHANGED <<userSecret, userCache, userList, request, history>>
  BY DEF GetUser
<1>2. Has(c) /\ request[c].user \in Users /\ call[c].pc \notin Midway
  BY <1>1, HoldsHas
<1>3. /\ call[c].pc \in Preparing /\ "end" \in PlacesOf(request[c].op)
      /\ call[c].ref # NoRef /\ Object(c) \in User /\ AccountsTyped /\ RefsAreOwn
  BY <1>2, HolderIsReady
<1>4. GroupStep /\ HistoryStep
  BY <1>1, <1>3, GroupReads, HistoryStays
<1>5. RefsStep /\ CacheStep({})
  <2>1. CASE UNCHANGED objects
    BY <1>1, <1>3, <2>1, UsersStay
  <2>2. CASE objects' = [objects EXCEPT ![call[c].ref].password = Erased]
    <3>1. o \in User
      BY <1>3, UserUpdate DEF Object, Passwords
    <3>2. objects' = [objects EXCEPT ![call[c].ref] = o]
      BY <2>2
    <3> QED
      BY <1>1, <1>3, <3>1, <3>2, ChangeStep
  <2> QED
    BY <1>1, <2>1, <2>2
<1>6. ReadsOnly
  BY <1>1, <1>4, <1>5 DEF ReadsOnly, ListStep
<1> QED
  BY <1>1, <1>2, <1>3, <1>5, <1>6, AnswerPrepares

\* The handlers that change one field of the object and save it.
LEMMA SetEmailKeeps ==
    ASSUME AccountInv, request \in Scripts, NEW c \in Calls, SetEmail(c)
    PROVE  AccountInv'
<1> DEFINE o == [Object(c) EXCEPT !.email = request[c].email]
<1>1. Holds(c, "email") /\ ChangeAndSave(c, o) /\ UNCHANGED <<groups, request, history>>
  BY DEF SetEmail
<1>2. Has(c) /\ request[c].user \in Users /\ request[c].op = "email"
  BY <1>1, HoldsHas
<1>3. Object(c) \in User /\ AccountsTyped
  BY <1>2, HolderIsReady
<1>4. o \in User
  BY <1>2, <1>3, RequestIsTyped, UserUpdate
<1>5. GroupStep
  BY <1>1, <1>3, GroupReads
<1> HIDE DEF o
<1> QED
  BY <1>1, <1>2, <1>4, <1>5, ChangeAndSaveKeeps

\* All groups of the user are replaced, if they exist.
LEMMA SetGroupsKeeps ==
    ASSUME AccountInv, request \in Scripts, NEW c \in Calls, SetGroups(c)
    PROVE  AccountInv'
<1> DEFINE o == [Object(c) EXCEPT !.groups = request[c].groups]
<1>1. /\ Holds(c, "setGroups") \/ Holds(c, "login")
      /\ ReadAllGroups \/ UNCHANGED groups
      /\ ChangeAndSave(c, o) \/ (Answer(c) /\ UNCHANGED users)
      /\ UNCHANGED <<request, history>>
  BY DEF SetGroups
<1>2. /\ Has(c) /\ request[c].user \in Users /\ call[c].pc \notin Midway
      /\ request[c].op \in {"setGroups", "login"}
  BY <1>1, HoldsHas
<1>3. Object(c) \in User /\ AccountsTyped
  BY <1>2, HolderIsReady
<1>4. o \in User
  BY <1>2, <1>3, RequestIsTyped, UserUpdate
<1>5. GroupStep
  BY <1>1, <1>3, GroupReads
<1> HIDE DEF o
<1>6. CASE ChangeAndSave(c, o)
  BY <1>1, <1>2, <1>4, <1>5, <1>6, ChangeAndSaveKeeps
<1>7. CASE Answer(c) /\ UNCHANGED users
  BY <1>1, <1>2, <1>5, <1>7, GiveUpKeeps DEF users
<1> QED
  BY <1>1, <1>6, <1>7

\* One group is added.
LEMMA AddGroupKeeps ==
    ASSUME AccountInv, request \in Scripts, NEW c \in Calls, AddGroup(c)
    PROVE  AccountInv'
<1> DEFINE o == [Object(c) EXCEPT !.groups = @ \union {request[c].group}]
<1>1. Holds(c, "addGroup") /\ ChangeAndSave(c, o) /\ UNCHANGED <<groups, request, history>>
  BY DEF AddGroup
<1>2. Has(c) /\ request[c].user \in Users /\ request[c].op = "addGroup"
  BY <1>1, HoldsHas
<1>3. Object(c) \in User /\ AccountsTyped
  BY <1>2, HolderIsReady
<1>4. o \in User
  BY <1>2, <1>3, RequestIsTyped DEF User
<1>5. GroupStep
  BY <1>1, <1>3, GroupReads
<1> HIDE DEF o
<1> QED
  BY <1>1, <1>2, <1>4, <1>5, ChangeAndSaveKeeps

\* One group is removed.
LEMMA RemoveGroupKeeps ==
    ASSUME AccountInv, request \in Scripts, NEW c \in Calls, RemoveGroup(c)
    PROVE  AccountInv'
<1> DEFINE o == [Object(c) EXCEPT !.groups = @ \ {request[c].group}]
<1>1. Holds(c, "removeGroup") /\ ChangeAndSave(c, o) /\ UNCHANGED <<groups, request, history>>
  BY DEF RemoveGroup
<1>2. Has(c) /\ request[c].user \in Users /\ request[c].op = "removeGroup"
  BY <1>1, HoldsHas
<1>3. Object(c) \in User /\ AccountsTyped
  BY <1>2, HolderIsReady
<1>4. o \in User
  BY <1>2, <1>3 DEF User
<1>5. GroupStep
  BY <1>1, <1>3, GroupReads
<1> HIDE DEF o
<1> QED
  BY <1>1, <1>2, <1>4, <1>5, ChangeAndSaveKeeps

\* The virtual clusters are replaced.
LEMMA SetVCsKeeps ==
    ASSUME AccountInv, request \in Scripts, NEW c \in Calls, SetVCs(c)
    PROVE  AccountInv'
<1> DEFINE o == WithVCs(Object(c), request[c].vcs)
<1>1. /\ call[c].pc = "allowed" /\ request[c].op = "setVCs"
      /\ ChangeAndSave(c, o) /\ UNCHANGED <<groups, request, history>>
  BY DEF SetVCs
<1>2. Has(c) /\ request[c].user \in Users
  BY <1>1, RequestIsTyped DEF Has
<1>3. Object(c) \in User /\ AccountsTyped
  BY <1>2, HolderIsReady
<1>4. o \in User
  <2>1. request[c].vcs \union {DefaultGroup} \in SUBSET Groups
    BY <1>1, RequestIsTyped, AccountsAssumption
  <2> QED
    BY <1>3, <2>1, UserUpdate DEF WithVCs
<1>5. GroupStep
  BY <1>1, <1>3, GroupReads
<1> HIDE DEF o
<1> QED
  BY <1>1, <1>2, <1>4, <1>5, ChangeAndSaveKeeps

\* An administrator or an ordinary user: still a user.
LEMMA WithAdminIsUser ==
    ASSUME NEW o \in User, NEW admin
    PROVE  WithAdmin(o, admin) \in User
<1>1. PICK gs \in SUBSET Groups : WithAdmin(o, admin) = [o EXCEPT !.groups = gs]
  <2>1. {o.groups \union {AdminGroup}, {g \in o.groups : ~GroupView(g).admin}, o.groups} \subseteq SUBSET Groups
    BY AccountsAssumption DEF User
  <2> QED
    BY <2>1 DEF WithAdmin, User
<1> QED
  BY <1>1, UserUpdate

\* The admin group is added, or those that make administrators removed.
LEMMA SetAdminKeeps ==
    ASSUME AccountInv, request \in Scripts, NEW c \in Calls, SetAdmin(c)
    PROVE  AccountInv'
<1> DEFINE o == WithAdmin(Object(c), request[c].admin)
<1>1. /\ Holds(c, "admin") /\ ReadGroups(Object(c).groups)
      /\ ChangeAndSave(c, o) \/ (Answer(c) /\ UNCHANGED users)
      /\ UNCHANGED <<request, history>>
  BY DEF SetAdmin
<1>2. /\ Has(c) /\ request[c].user \in Users /\ call[c].pc \notin Midway
      /\ request[c].op = "admin"
  BY <1>1, HoldsHas
<1>3. Object(c) \in User /\ AccountsTyped
  BY <1>2, HolderIsReady
<1>4. o \in User
  BY <1>3, WithAdminIsUser
<1>5. GroupStep
  BY <1>1, <1>3, GroupReads
<1> HIDE DEF o
<1>6. CASE ChangeAndSave(c, o)
  BY <1>1, <1>2, <1>4, <1>5, <1>6, ChangeAndSaveKeeps
<1>7. CASE Answer(c) /\ UNCHANGED users
  BY <1>1, <1>2, <1>5, <1>7, GiveUpKeeps DEF users
<1> QED
  BY <1>1, <1>6, <1>7

\* A copy with the new password is saved; the object stays.
LEMMA SetPasswordKeeps ==
    ASSUME AccountInv, request \in Scripts, NEW c \in Calls, SetPassword(c)
    PROVE  AccountInv'
<1> DEFINE o == [Object(c) EXCEPT !.password = Hash(request[c].new)]
<1>1. /\ Holds(c, "password") /\ (Save(c, o) \/ Answer(c))
      /\ UNCHANGED <<users, groups, request, history>>
  BY DEF SetPassword
<1>2. Has(c) /\ request[c].user \in Users /\ call[c].pc \notin Midway /\ request[c].op = "password"
  BY <1>1, HoldsHas
<1>3. /\ call[c].pc \in Preparing /\ "save" \in PlacesOf(request[c].op)
      /\ Object(c) \in User /\ AccountsTyped /\ RefsAreOwn
  BY <1>2, HolderIsReady
<1>4. o \in User
  BY <1>2, <1>3, RequestIsTyped, UserUpdate DEF Passwords
<1>5. GroupStep /\ RefsStep /\ CacheStep({}) /\ HistoryStep
  BY <1>1, <1>3, GroupReads, UsersStay, HistoryStays DEF users
<1>6. ReadsOnly
  BY <1>1, <1>5 DEF ReadsOnly, ListStep, users
<1> HIDE DEF o
<1>7. CASE Save(c, o)
  BY <1>2, <1>3, <1>4, <1>5, <1>6, <1>7, SavePrepares
<1>8. CASE Answer(c)
  BY <1>1, <1>2, <1>5, <1>8, GiveUpKeeps
<1> QED
  BY <1>1, <1>7, <1>8

\* The password is compared; nothing changes.
LEMMA SignInKeeps ==
    ASSUME AccountInv, request \in Scripts, NEW c \in Calls, SignIn(c)
    PROVE  AccountInv'
<1>1. /\ Holds(c, "signIn") /\ ReadGroups(Object(c).groups) /\ (Goto(c, "token") \/ Answer(c))
      /\ UNCHANGED <<users, request, history>>
  BY DEF SignIn
<1>2. Has(c) /\ request[c].user \in Users /\ call[c].pc \notin Midway /\ request[c].op = "signIn"
  BY <1>1, HoldsHas
<1>3. /\ call[c].pc \in Preparing /\ "token" \in PlacesOf(request[c].op)
      /\ AccountsTyped /\ RefsAreOwn
  BY <1>2, HolderIsReady DEF PlacesOf
<1>4. GroupStep /\ RefsStep /\ CacheStep({}) /\ HistoryStep
  BY <1>1, <1>3, GroupReads, UsersStay, HistoryStays DEF users
<1>5. ReadsOnly
  BY <1>1, <1>4 DEF ReadsOnly, ListStep, users
<1>6. CASE Goto(c, "token")
  BY <1>2, <1>3, <1>4, <1>5, <1>6, GotoPrepares DEF Places, Midway
<1>7. CASE Answer(c)
  BY <1>1, <1>2, <1>4, <1>7, GiveUpKeeps
<1> QED
  BY <1>1, <1>6, <1>7

\* Changing the object keeps the references apart; the caller saves it, changes it
\* further or taints its user.
LEMMA ChangeReads ==
    ASSUME AccountInv, request \in Scripts, NEW c \in Calls, Has(c), request[c].user \in Users,
           NEW o \in User, Change(c, o), GroupStep, HistoryStep,
           UNCHANGED <<userSecret, userCache, userList, request>>
    PROVE  ReadsOnly /\ CacheStep({request[c].user})
<1>1. call[c].ref # NoRef /\ AccountsTyped /\ RefsAreOwn
  BY HolderIsReady
<1>2. RefsStep /\ CacheStep({request[c].user})
  BY <1>1, ChangeStep DEF Change
<1> QED
  BY <1>2 DEF ReadsOnly, ListStep

\* The step that applies the e-mail of a request.
LEMMA PatchedIsUser ==
    ASSUME request \in Scripts, NEW c \in Calls, Object(c) \in User,
           request[c].op \in {"update", "self"}
    PROVE  Patched(c) \in User
BY RequestIsTyped, UserUpdate DEF Patched

\* The first part of an update changes the object, and leaves it to the next.
LEMMA UpdateEmailKeeps ==
    ASSUME AccountInv, request \in Scripts, NEW c \in Calls, UpdateEmail(c)
    PROVE  AccountInv'
<1>1. /\ Holds(c, "update") /\ Change(c, Patched(c)) /\ (Goto(c, "vc") \/ Goto(c, "admin"))
      /\ UNCHANGED <<userSecret, userCache, userList, groups, request, history>>
  BY DEF UpdateEmail
<1>2. Has(c) /\ request[c].user \in Users /\ request[c].op = "update"
  BY <1>1, HoldsHas
<1>3. /\ call[c].pc \in Preparing /\ {"vc", "admin"} \subseteq PlacesOf(request[c].op)
      /\ call[c].ref # NoRef /\ Object(c) \in User /\ AccountsTyped
  BY <1>2, HolderIsReady DEF PlacesOf
<1>4. Patched(c) \in User /\ GroupStep /\ HistoryStep
  BY <1>1, <1>2, <1>3, PatchedIsUser, GroupReads, HistoryStays
<1>5. ReadsOnly /\ CacheStep({request[c].user})
  BY <1>1, <1>2, <1>4, ChangeReads
<1>6. CASE Goto(c, "vc")
  BY <1>3, <1>5, <1>6, GotoPrepares DEF Places, Midway
<1>7. CASE Goto(c, "admin")
  BY <1>3, <1>5, <1>7, GotoPrepares DEF Places, BootPlaces, Midway
<1> QED
  BY <1>1, <1>6, <1>7

\* The handler of an update gives up: the user is recorded as tainted.
LEMMA UpdateGivesUp ==
    ASSUME AccountInv, request \in Scripts, NEW c \in Calls, Has(c), request[c].user \in Users,
           Answer(c), Taint(c, {request[c].user}), ReadsOnly \/ (GroupStep /\ UNCHANGED <<users, request>>),
           ReadsOnly => CacheStep({request[c].user})
    PROVE  AccountInv'
<1>1. /\ call[c].pc \in Preparing /\ "end" \in PlacesOf(request[c].op)
      /\ AccountsTyped /\ RefsAreOwn /\ PlacesAreRight
  BY HolderIsReady
<1>2. {request[c].user} \in SUBSET (Users \union Groups)
  OBVIOUS
<1>3. HistoryStep /\ request[c].user \in tainted'
  BY <1>1, <1>2, TaintKeeps
<1>4. ReadsOnly /\ CacheStep({request[c].user})
  <2>1. CASE GroupStep /\ UNCHANGED <<users, request>>
    BY <1>1, <1>3, <2>1, UsersStay DEF ReadsOnly, ListStep, users
  <2> QED
    BY <2>1
<1> QED
  BY <1>1, <1>3, <1>4, AnswerPrepares

\* The second part changes the virtual clusters, or gives up.
LEMMA UpdateVCsKeeps ==
    ASSUME AccountInv, request \in Scripts, NEW c \in Calls, UpdateVCs(c)
    PROVE  AccountInv'
<1> DEFINE o == WithVCs(Object(c), request[c].vcs)
<1>1. /\ call[c].pc = "vc" /\ ReadGroups(request[c].vcs)
      /\ \/ Change(c, o) /\ Goto(c, "admin") /\ UNCHANGED history
         \/ Answer(c) /\ Taint(c, {request[c].user}) /\ UNCHANGED objects
      /\ UNCHANGED <<userSecret, userCache, userList, request>>
  BY DEF UpdateVCs
<1>2. Has(c) /\ request[c].op = "update"
  BY <1>1 DEF Has, AccountInv, PlacesAreRight, PlacesOf
<1>3. request[c].user \in Users
  BY <1>2, RequestIsTyped
<1>4. /\ call[c].pc \in Preparing /\ "admin" \in PlacesOf(request[c].op)
      /\ call[c].ref # NoRef /\ Object(c) \in User /\ AccountsTyped
  BY <1>2, <1>3, HolderIsReady DEF PlacesOf
<1>5. o \in User
  <2>1. request[c].vcs \union {DefaultGroup} \in SUBSET Groups
    BY <1>2, RequestIsTyped, AccountsAssumption
  <2> QED
    BY <1>4, <2>1, UserUpdate DEF WithVCs
<1>6. GroupStep
  BY <1>1, <1>4, GroupReads
<1> HIDE DEF o
<1>7. CASE Change(c, o) /\ Goto(c, "admin") /\ UNCHANGED history
  <2>1. ReadsOnly /\ CacheStep({request[c].user})
    BY <1>1, <1>2, <1>3, <1>4, <1>5, <1>6, <1>7, ChangeReads, HistoryStays
  <2> QED
    BY <1>4, <1>7, <2>1, GotoPrepares DEF Places, BootPlaces, Midway
<1>8. CASE Answer(c) /\ Taint(c, {request[c].user}) /\ UNCHANGED objects
  <2>1. UNCHANGED <<users, request>>
    BY <1>1, <1>8 DEF users
  <2>2. RefsStep /\ CacheStep({})
    BY <1>1, <1>4, <1>8, UsersStay DEF AccountInv
  <2> QED
    BY <1>2, <1>3, <1>6, <1>8, <2>1, <2>2, UpdateGivesUp DEF CacheStep
<1> QED
  BY <1>1, <1>7, <1>8

\* The last part changes the rest and saves, or gives up.
LEMMA UpdateRestKeeps ==
    ASSUME AccountInv, request \in Scripts, NEW c \in Calls, UpdateRest(c)
    PROVE  AccountInv'
<1> DEFINE o == IF Sets(c, "admin") THEN WithAdmin(Object(c), request[c].admin) ELSE Object(c)
           plain == [o EXCEPT !.password = Plain(request[c].new)]
           hash == [o EXCEPT !.password = Hash(request[c].new)]
<1>1. /\ call[c].pc = "admin" /\ ReadGroups(IF Sets(c, "admin") THEN Object(c).groups ELSE {})
      /\ \/ Answer(c) /\ Taint(c, {request[c].user}) /\ UNCHANGED objects
         \/ Change(c, plain) /\ Save(c, hash) /\ UNCHANGED history
         \/ Change(c, o) /\ Save(c, o) /\ UNCHANGED history
      /\ UNCHANGED <<userSecret, userCache, userList, request>>
  BY DEF UpdateRest, SaveWithPassword
<1>2. Has(c) /\ request[c].op = "update"
  BY <1>1, AccountsAssumption DEF Has, AccountInv, PlacesAreRight, PlacesOf
<1>3. request[c].user \in Users /\ request[c].new \in Texts
  BY <1>2, RequestIsTyped
<1>4. /\ call[c].pc \in Preparing /\ "save" \in PlacesOf(request[c].op)
      /\ call[c].ref # NoRef /\ Object(c) \in User /\ AccountsTyped
  BY <1>2, <1>3, HolderIsReady DEF PlacesOf
<1>5. o \in User
  BY <1>4, WithAdminIsUser
<1>6. GroupStep
  BY <1>1, <1>4, GroupReads
<1> HIDE DEF o
<1>7. plain \in User /\ hash \in User
  BY <1>3, <1>5, UserUpdate DEF Passwords
<1> HIDE DEF plain, hash
<1>8. ASSUME NEW x \in User, NEW y \in User, Change(c, x), Save(c, y), UNCHANGED history
      PROVE  AccountInv'
  <2>1. ReadsOnly /\ CacheStep({request[c].user})
    BY <1>1, <1>2, <1>3, <1>4, <1>6, <1>8, ChangeReads, HistoryStays
  <2> QED
    BY <1>3, <1>4, <1>8, <2>1, SavePrepares
<1>9. CASE Answer(c) /\ Taint(c, {request[c].user}) /\ UNCHANGED objects
  <2>1. UNCHANGED <<users, request>>
    BY <1>1, <1>9 DEF users
  <2>2. CacheStep({})
    BY <1>1, <1>4, <1>9, UsersStay DEF AccountInv
  <2> QED
    BY <1>2, <1>3, <1>6, <1>9, <2>1, <2>2, UpdateGivesUp DEF CacheStep
<1> QED
  BY <1>1, <1>5, <1>7, <1>8, <1>9

\* A user updates itself, in one part or two.
LEMMA UpdateSelfKeeps ==
    ASSUME AccountInv, request \in Scripts, NEW c \in Calls, UpdateSelf(c)
    PROVE  AccountInv'
<1> DEFINE plain == [Object(c) EXCEPT !.password = Plain(request[c].new)]
           hash == [Object(c) EXCEPT !.password = Hash(request[c].new)]
<1>1. /\ \/ /\ Holds(c, "self") /\ Change(c, Patched(c))
            /\ \/ Save(c, Patched(c)) /\ UNCHANGED history
               \/ Goto(c, "verified") /\ UNCHANGED history
               \/ Answer(c) /\ Taint(c, {request[c].user})
         \/ /\ call[c].pc = "verified" /\ Change(c, plain) /\ Save(c, hash) /\ UNCHANGED history
      /\ UNCHANGED <<userSecret, userCache, userList, groups, request>>
  BY DEF UpdateSelf, SaveWithPassword
<1>2. Has(c) /\ request[c].op = "self" /\ PlacesAreRight
  BY <1>1 DEF Holds, Has, AccountInv, PlacesAreRight, PlacesOf
<1>3. request[c].user \in Users /\ request[c].new \in Texts
  BY <1>2, RequestIsTyped
<1>4. /\ call[c].pc \in Preparing /\ {"save", "verified"} \subseteq PlacesOf(request[c].op)
      /\ call[c].ref # NoRef /\ Object(c) \in User /\ AccountsTyped
  BY <1>2, <1>3, HolderIsReady DEF PlacesOf
<1>5. plain \in User /\ hash \in User /\ Patched(c) \in User
  BY <1>2, <1>3, <1>4, UserUpdate, PatchedIsUser DEF Passwords
<1>6. GroupStep
  BY <1>1, <1>4, GroupReads
<1> HIDE DEF plain, hash
<1>7. ASSUME NEW x \in User, Change(c, x), HistoryStep
      PROVE  ReadsOnly /\ CacheStep({request[c].user})
  BY <1>1, <1>2, <1>3, <1>6, <1>7, ChangeReads
<1>8. ASSUME NEW x \in User, NEW y \in User, Change(c, x), Save(c, y), UNCHANGED history
      PROVE  AccountInv'
  BY <1>3, <1>4, <1>7, <1>8, HistoryStays, SavePrepares
<1>9. CASE Change(c, Patched(c)) /\ Goto(c, "verified") /\ UNCHANGED history
  <2>1. ReadsOnly /\ CacheStep({request[c].user})
    BY <1>4, <1>5, <1>7, <1>9, HistoryStays
  <2> QED
    BY <1>4, <1>9, <2>1, GotoPrepares DEF Places, Midway
<1>10. CASE Change(c, Patched(c)) /\ Answer(c) /\ Taint(c, {request[c].user})
  <2>1. HistoryStep
    BY <1>2, <1>3, <1>4, <1>10, TaintKeeps
  <2>2. ReadsOnly /\ CacheStep({request[c].user})
    BY <1>5, <1>7, <1>10, <2>1
  <2> QED
    BY <1>2, <1>3, <1>10, <2>2, UpdateGivesUp
<1> QED
  BY <1>1, <1>5, <1>8, <1>9, <1>10

-----------------------------------------------------------------------------
(***************************************************************************)
(* The steps that write secrets or drop entries, user by user and group by *)
(* group.                                                                  *)
(***************************************************************************)
\* What the invariant says of one user, and of one group.
UserAgrees(u) ==
    /\ userCache[u] # NoRef /\ ~Changing(u) => Agrees(objects[userCache[u]], userSecret[u])
    /\ userList # NoList /\ ~Listing(u) => userList[u] = userSecret[u]
    /\ userSecret[u] = NoUser /\ ~Leaving(u) =>
           userCache[u] = NoRef /\ (userList # NoList => userList[u] = NoUser)

\* The same of one group.
GroupAgrees(g) ==
    /\ ~GroupChanging(g) => groupCache[g] \in {NoGroup, groupSecret[g]}
    /\ groupList # NoList /\ ~GroupListing(g) => groupList[g] = groupSecret[g]
    /\ groupSecret[g] = NoGroup /\ ~GroupLeaving(g) => groupCache[g] = NoGroup

\* The invariant is that of each user and each group.
LEMMA OneByOne ==
    /\ UsersAgree /\ ListAgrees /\ GoneUsers <=> \A u \in Users : u \notin tainted => UserAgrees(u)
    /\ GroupsAgree /\ GoneGroups <=> \A g \in Groups : g \notin tainted => GroupAgrees(g)
BY DEF UsersAgree, ListAgrees, GoneUsers, UserAgrees, GroupsAgree, GoneGroups, GroupAgrees

\* The same after a step.
LEMMA OneByOneNext ==
    /\ (UsersAgree /\ ListAgrees /\ GoneUsers)' <=>
           \A u \in Users : u \notin tainted' => UserAgrees(u)'
    /\ (GroupsAgree /\ GoneGroups)' <=> \A g \in Groups : g \notin tainted' => GroupAgrees(g)'
BY DEF UsersAgree, ListAgrees, GoneUsers, UserAgrees, GroupsAgree, GoneGroups, GroupAgrees

\* The invariant once the types, the places and the references are kept.
LEMMA InvFromParts ==
    ASSUME AccountsTyped', PlacesAreRight', RefsAreOwn',
           \A u \in Users : u \notin tainted' => UserAgrees(u)',
           \A g \in Groups : g \notin tainted' => GroupAgrees(g)'
    PROVE  AccountInv'
BY OneByOneNext DEF AccountInv

\* A user whose entry is going to be deleted, or was deleted, agrees.
LEMMA LeavingAgrees ==
    ASSUME NEW u \in Users, Leaving(u)'
    PROVE  UserAgrees(u)'
BY DEF UserAgrees, Changing, Listing

\* So does one that is in no cache.
LEMMA DroppedAgrees ==
    ASSUME NEW u \in Users, userCache'[u] = NoRef, userList' = NoList
    PROVE  UserAgrees(u)'
BY DEF UserAgrees

\* The same of a group that is going to be deleted from the caches.
LEMMA GroupLeavingAgrees ==
    ASSUME NEW g \in Groups, GroupLeaving(g)', GroupListing(g)'
    PROVE  GroupAgrees(g)'
BY DEF GroupAgrees, GroupChanging

\* The same of a group that is in no cache.
LEMMA GroupDroppedAgrees ==
    ASSUME NEW g \in Groups, groupCache'[g] = NoGroup, groupList' = NoList
    PROVE  GroupAgrees(g)'
BY DEF GroupAgrees

\* When the process is about to end, nothing is asked of its caches.
LEMMA ExitAgrees ==
    ASSUME AccountsTyped', PlacesAreRight', RefsAreOwn', call'[Boot].pc = "exit"
    PROVE  AccountInv'
<1>1. \A u \in Users : UserAgrees(u)'
  BY LeavingAgrees DEF Leaving
<1>2. \A g \in Groups : GroupAgrees(g)'
  BY GroupLeavingAgrees DEF GroupLeaving, GroupListing
<1> QED
  BY <1>1, <1>2, InvFromParts

\* A user that the step leaves alone.
LEMMA UserStays ==
    ASSUME AccountInv, NEW u \in Users, u \notin tainted, userSecret'[u] = userSecret[u],
           UNCHANGED objects, userCache'[u] \in {userCache[u], NoRef},
           userList' = NoList \/ (userList # NoList /\ userList'[u] = userList[u]),
           Leaving(u) => Leaving(u)',
           Changing(u) => Changing(u)' \/ userCache'[u] = NoRef,
           Listing(u) => Listing(u)' \/ userList' = NoList
    PROVE  UserAgrees(u)'
<1>1. UserAgrees(u)
  BY OneByOne DEF AccountInv
<1> QED
  BY <1>1 DEF UserAgrees

\* A group that the step leaves alone.
LEMMA GroupStays ==
    ASSUME AccountInv, NEW g \in Groups, g \notin tainted, groupSecret'[g] = groupSecret[g],
           groupCache'[g] \in {groupCache[g], NoGroup},
           groupList' = NoList \/ groupList'[g] = groupSecret[g]
               \/ (groupList # NoList /\ groupList'[g] = groupList[g]),
           GroupLeaving(g) => GroupLeaving(g)',
           GroupChanging(g) => GroupChanging(g)' \/ groupCache'[g] = NoGroup,
           GroupListing(g) => GroupListing(g)' \/ groupList' = NoList
    PROVE  GroupAgrees(g)'
<1>1. GroupAgrees(g)
  BY OneByOne DEF AccountInv
<1> QED
  BY <1>1 DEF GroupAgrees

\* The flows of a user go on, unless they were those of the call that moves.
LEMMA FlowsStay ==
    ASSUME NEW c \in Everyone, NEW pc, NEW ref, NEW puts, NEW drops, Moves(c, pc, ref, puts, drops),
           UNCHANGED request, NEW u,
           c = Boot /\ call[c].pc = "exit" => pc = "exit",
           u \in call[c].drops => u \in drops,
           \A p \in call[c].puts : p.user = u => p \in puts \/ u \in drops,
           c \in Calls /\ call[c].pc \in Midway \union {"created"} => request[c].user # u
    PROVE  /\ Leaving(u) => Leaving(u)'
           /\ Changing(u) => Changing(u)'
           /\ Listing(u) => Listing(u)'
<1>1. /\ \A d \in Everyone \ {c} : call'[d] = call[d]
      /\ call'[c].pc = pc /\ call'[c].puts = puts /\ call'[c].drops = drops
      /\ Boot \in Everyone /\ \A d \in Calls : d \in Everyone
  BY DEF Moves, Everyone
<1>2. Leaving(u) => Leaving(u)'
  BY <1>1 DEF Leaving
<1>3. Saving(u) => Saving(u)' \/ Leaving(u)'
  BY <1>1 DEF Saving, Leaving
<1>4. Changing(u) => Changing(u)'
  BY <1>1, <1>2, <1>3 DEF Changing, Midway
<1>5. Listing(u) => Listing(u)'
  BY <1>1, <1>2, <1>3 DEF Listing
<1> QED
  BY <1>2, <1>4, <1>5

\* The same of the flows of a group.
LEMMA GroupFlowsStay ==
    ASSUME NEW c \in Everyone, NEW pc, NEW ref, NEW puts, NEW drops, Moves(c, pc, ref, puts, drops),
           UNCHANGED request, NEW g,
           c = Boot /\ call[c].pc = "exit" => pc = "exit",
           c \in Calls /\ call[c].pc \in {"group", "written"} => request[c].group # g
    PROVE  /\ GroupLeaving(g) => GroupLeaving(g)'
           /\ GroupChanging(g) => GroupChanging(g)'
           /\ GroupListing(g) => GroupListing(g)'
<1>1. /\ \A d \in Everyone \ {c} : call'[d] = call[d]
      /\ call'[c].pc = pc
      /\ Boot \in Everyone /\ \A d \in Calls : d \in Everyone
  BY DEF Moves, Everyone
<1> QED
  BY <1>1 DEF GroupLeaving, GroupChanging, GroupListing

\* A call that moves keeps the places and the references.
LEMMA MovesTyped ==
    ASSUME AccountInv, NEW c \in Everyone, NEW pc, NEW ref, NEW puts, NEW drops,
           Moves(c, pc, ref, puts, drops), UNCHANGED request, RefsStep,
           c \in Calls => /\ pc \in PlacesOf(request[c].op) \ ({"have", "allowed"} \union Midway)
                          /\ pc \notin {"save", "failed"} => puts = {} /\ drops = {}
                          /\ pc \in {"new", "end"} => ref = NoRef,
           c = Boot => /\ pc \in BootPlaces
                       /\ pc \notin {"purge", "save", "exit"} => puts = {} /\ drops = {},
           ref \in {call[c].ref, NoRef}
    PROVE  PlacesAreRight' /\ RefsAreOwn'
<1>1. /\ \A d \in Everyone \ {c} : call'[d] = call[d]
      /\ call'[c].pc = pc /\ call'[c].puts = puts /\ call'[c].drops = drops /\ call'[c].ref = ref
      /\ Boot \in Everyone /\ (\A d \in Calls : d \in Everyone /\ d # Boot)
      /\ c \in Calls \/ c = Boot
  BY AccountsAssumption DEF Moves, Everyone
<1>2. PlacesAreRight /\ RefsAreOwn
  BY DEF AccountInv
<1>3. PlacesAreRight'
  <2>1. call'[Boot].pc \in BootPlaces
        /\ (call'[Boot].pc \notin {"purge", "save", "exit"} =>
               call'[Boot].puts = {} /\ call'[Boot].drops = {})
    BY <1>1, <1>2 DEF PlacesAreRight
  <2>2. ASSUME NEW d \in Calls
        PROVE  call'[d].pc \in PlacesOf(request[d].op)
               /\ (call'[d].pc \notin {"save", "failed"} => call'[d].puts = {} /\ call'[d].drops = {})
    <3>1. CASE d # c
      BY <1>1, <1>2, <3>1 DEF PlacesAreRight
    <3>2. CASE d = c
      BY <1>1, <3>2
    <3> QED
      BY <3>1, <3>2
  <2> QED
    BY <2>1, <2>2 DEF PlacesAreRight
<1>4. RefsAreOwn'
  <2>1. \A d \in Calls : call'[d].ref \in {call[d].ref, NoRef}
    BY <1>1
  <2>2. ASSUME NEW d \in Calls, Has(d)'
        PROVE  call'[d].ref # NoRef
    <3>1. d # c
      <4> SUFFICES ASSUME d = c PROVE FALSE
        OBVIOUS
      <4> QED
        BY <1>1, <2>2 DEF Has, Midway
    <3> QED
      BY <1>1, <1>2, <2>2, <3>1 DEF Has, RefsAreOwn
  <2>3. \A d \in Calls : call'[d].ref # NoRef => objects'[call'[d].ref] \in User
    BY <2>1 DEF RefsStep
  <2>4. \A u \in Users, d \in Calls :
            userCache'[u] = call'[d].ref /\ userCache'[u] # NoRef => request[d].user = u
    BY <2>1 DEF RefsStep
  <2>5. \A d \in Calls : call'[d].pc \in {"new", "end"} => call'[d].ref = NoRef
    BY <1>1, <1>2 DEF RefsAreOwn
  <2> QED
    BY <2>2, <2>3, <2>4, <2>5 DEF RefsAreOwn, RefsStep
<1> QED
  BY <1>3, <1>4

\* Steps that leave the groups alone, or the users.
LEMMA GroupsRest ==
    ASSUME AccountInv, NEW c \in Everyone, NEW pc, NEW ref, NEW puts, NEW drops,
           Moves(c, pc, ref, puts, drops), UNCHANGED <<groups, request>>, tainted \subseteq tainted',
           c = Boot /\ call[c].pc = "exit" => pc = "exit",
           c \in Calls => call[c].pc \notin {"group", "written"}
    PROVE  \A g \in Groups : g \notin tainted' => GroupAgrees(g)'
<1> SUFFICES ASSUME NEW g \in Groups, g \notin tainted'
             PROVE  GroupAgrees(g)'
  OBVIOUS
<1>1. /\ GroupLeaving(g) => GroupLeaving(g)'
      /\ GroupChanging(g) => GroupChanging(g)'
      /\ GroupListing(g) => GroupListing(g)'
  BY GroupFlowsStay
<1>2. GroupAgrees(g)
  BY OneByOne DEF AccountInv
<1> QED
  BY <1>1, <1>2 DEF GroupAgrees, groups

\* A step that leaves the users alone, of a call without a flow of its own.
LEMMA UsersRest ==
    ASSUME AccountInv, NEW c \in Everyone, NEW pc, NEW ref, NEW puts, NEW drops,
           Moves(c, pc, ref, puts, drops), UNCHANGED <<users, request>>, tainted \subseteq tainted',
           c = Boot /\ call[c].pc = "exit" => pc = "exit",
           call[c].puts \subseteq puts, call[c].drops \subseteq drops,
           c \in Calls => call[c].pc \notin Midway \union {"created"}
    PROVE  \A u \in Users : u \notin tainted' => UserAgrees(u)'
<1> SUFFICES ASSUME NEW u \in Users, u \notin tainted'
             PROVE  UserAgrees(u)'
  OBVIOUS
<1>1. /\ Leaving(u) => Leaving(u)'
      /\ Changing(u) => Changing(u)'
      /\ Listing(u) => Listing(u)'
  BY FlowsStay
<1>2. UserAgrees(u)
  BY OneByOne DEF AccountInv
<1> QED
  BY <1>1, <1>2 DEF UserAgrees, users

-----------------------------------------------------------------------------
(***************************************************************************)
(* The store of the users: PUT, and the entries dropped after it.          *)
(***************************************************************************)
\* The history after a step of a handler or of the start-up.
LEMMA RecordsKeep ==
    ASSUME AccountInv, request \in Scripts, NEW c \in Everyone,
           NEW names \in SUBSET (Users \union Groups),
           NEW deleted \in SUBSET Groups, Record(c, names, deleted)
    PROVE  HistoryStep /\ tainted' = tainted \union names
BY RecordKeeps DEF AccountInv

\* The types, of a step that moves a call.
LEMMA TypesKept ==
    ASSUME AccountInv, call' \in [Everyone -> Call], HistoryStep,
           userSecret' \in [Users -> User \union {NoUser}],
           groupSecret' \in [Groups -> Group \union {NoGroup}],
           RefsStep,
           userList' \in [Users -> User \union {NoUser}] \union {NoList},
           groupCache' \in [Groups -> Group \union {NoGroup}],
           groupList' \in [Groups -> Group \union {NoGroup}] \union {NoList}
    PROVE  AccountsTyped'
BY DEF AccountsTyped, HistoryStep, RefsStep

\* The PUT of a user: answered, it makes the call delete the entries; a 404 finds the
\* user in no cache; anything else is recorded, or ends the start-up.
LEMMA PutUserKeeps ==
    ASSUME AccountInv, request \in Scripts, NEW c \in Everyone, NEW p \in call[c].puts,
           NEW outcome \in Outcomes, PutUser(c, p, outcome)
    PROVE  AccountInv'
<1> DEFINE u == p.user
           failed == outcome # "ok" \/ userSecret[u] = NoUser
           names == IF outcome = "ok" THEN {} ELSE {u}
           deleted == IF outcome # "ok" /\ c # Boot /\ Deletes(c) THEN {request[c].group} ELSE {}
           pc == IF c = Boot /\ failed THEN "exit" ELSE IF failed THEN "failed" ELSE call[c].pc
           ref == IF c = Boot /\ failed THEN NoRef ELSE call[c].ref
           puts == IF c = Boot /\ failed THEN {} ELSE call[c].puts \ {p}
           drops == IF c = Boot /\ failed THEN {} ELSE IF failed THEN call[c].drops ELSE call[c].drops \union {u}
<1>1. /\ Record(c, names, deleted) /\ UNCHANGED <<objects, userCache, userList, groups, request>>
      /\ UNCHANGED userSecret
         \/ (userSecret[u] # NoUser /\ userSecret' = [userSecret EXCEPT ![u] = p.value])
      /\ IF c = Boot /\ failed THEN call' = [call EXCEPT ![c] = Fresh("exit")]
         ELSE call' = [call EXCEPT ![c].pc = IF failed THEN "failed" ELSE @,
                                 ![c].puts = @ \ {p},
                                 ![c].drops = IF failed THEN @ ELSE @ \union {u}]
  BY DEF PutUser
<1>2. /\ AccountsTyped /\ PlacesAreRight /\ RefsAreOwn
      /\ call[c] \in Call /\ p \in [user : Users, value : User]
  BY DEF AccountInv, AccountsTyped, Call
<1>3. u \in Users /\ p.value \in User
  BY <1>2
<1>4. HistoryStep /\ tainted' = tainted \union names
  <2>1. deleted \in SUBSET Groups /\ names \in SUBSET (Users \union Groups)
    BY <1>3, RequestIsTyped DEF Deletes, Everyone
  <2> HIDE DEF names, deleted
  <2> QED
    BY <1>1, <2>1, RecordsKeep
<1>5. RefsStep
  BY <1>1, <1>2, UsersStay
<1>6. Moves(c, pc, ref, puts, drops)
  <2> DEFINE k == [pc |-> pc, ref |-> ref, puts |-> puts, drops |-> drops]
  <2>1. k \in Call
    BY <1>2, <1>3 DEF Call, Places, BootPlaces
  <2>2. call' = [call EXCEPT ![c] = k]
    <3>1. CASE c = Boot /\ failed
      BY <1>1, <3>1 DEF Fresh
    <3>2. CASE ~(c = Boot /\ failed)
      BY <1>1, <1>2, <3>2 DEF Call, AccountsTyped
    <3> QED
      BY <3>1, <3>2
  <2>3. k.pc = pc /\ k.ref = ref /\ k.puts = puts /\ k.drops = drops
    OBVIOUS
  <2> HIDE DEF k, pc, ref, puts, drops
  <2> QED
    BY <1>2, <2>1, <2>2, <2>3 DEF Moves, AccountsTyped
<1>7. AccountsTyped'
  <2>1. userSecret' \in [Users -> User \union {NoUser}] /\ call' \in [Everyone -> Call]
    BY <1>1, <1>2, <1>3, <1>6 DEF AccountsTyped, Moves
  <2> QED
    BY <1>1, <1>2, <1>4, <1>5, <2>1, TypesKept DEF AccountsTyped, groups
<1>8. c \in Calls => call[c].pc \in {"save", "failed"} /\ "failed" \in PlacesOf(request[c].op)
                     /\ c # Boot
  BY <1>2, AccountsAssumption DEF PlacesAreRight, PlacesOf
<1>9. c = Boot => call[c].pc \in {"purge", "save", "exit"}
  BY <1>2 DEF PlacesAreRight
<1>10. PlacesAreRight' /\ RefsAreOwn'
  <2>1. c \in Calls => pc \in PlacesOf(request[c].op) /\ pc \in {"save", "failed"}
    BY <1>2, <1>8 DEF PlacesAreRight
  <2>2. c = Boot => pc \in {"purge", "save", "exit"}
    BY <1>9
  <2>3. ref \in {call[c].ref, NoRef}
    OBVIOUS
  <2> HIDE DEF pc, ref, puts, drops
  <2> QED
    BY <1>1, <1>5, <1>6, <2>1, <2>2, <2>3, MovesTyped DEF Midway, BootPlaces
<1>11. CASE c = Boot /\ failed
  <2>1. call'[Boot].pc = "exit"
    BY <1>6, <1>11 DEF Moves
  <2> QED
    BY <1>7, <1>10, <2>1, ExitAgrees
<1>12. CASE ~(c = Boot /\ failed)
  <2>1. c = Boot /\ call[c].pc = "exit" => pc = "exit"
    BY <1>12
  <2>2. call[c].drops \subseteq drops /\ puts = call[c].puts \ {p} /\ (~failed => u \in drops)
    BY <1>12
  <2>3. c \in Calls => call[c].pc \notin Midway \union {"created", "group", "written"}
    BY <1>8 DEF Midway
  <2> HIDE DEF pc, ref, puts, drops
  <2>4. \A g \in Groups : g \notin tainted' => GroupAgrees(g)'
    BY <1>1, <1>4, <1>6, <2>1, <2>3, GroupsRest DEF HistoryStep
  <2>5. ASSUME NEW v \in Users, v \notin tainted', v # u \/ failed
        PROVE  UserAgrees(v)'
    <3>1. v \notin tainted
      BY <1>4, <2>5
    <3>2. userSecret'[v] = userSecret[v]
      <4>1. CASE v # u
        BY <1>1, <1>2, <4>1 DEF AccountsTyped
      <4>2. CASE v = u /\ failed
        BY <1>1, <1>4, <2>5, <4>2
      <4> QED
        BY <2>5, <4>1, <4>2
    <3>3. CASE v # u
      <4>1. /\ Leaving(v) => Leaving(v)'
            /\ Changing(v) => Changing(v)'
            /\ Listing(v) => Listing(v)'
        BY <1>1, <1>6, <2>1, <2>2, <2>3, <3>3, FlowsStay
      <4>2. UserAgrees(v)
        BY <3>1, OneByOne DEF AccountInv
      <4> QED
        BY <1>1, <3>2, <4>1, <4>2 DEF UserAgrees
    <3>4. CASE v = u /\ failed    \* a 404: the user is gone
      <4>1. userSecret[v] = NoUser
        BY <1>4, <2>5, <3>4
      <4>2. Leaving(v) => Leaving(v)'
        <5>1. \A d \in Everyone \ {c} : call'[d] = call[d]
          BY <1>6 DEF Moves
        <5>2. call'[c].pc = pc /\ call'[c].drops = drops /\ Boot \in Everyone
          BY <1>6 DEF Moves, Everyone
        <5> QED
          BY <2>1, <2>2, <5>1, <5>2 DEF Leaving
      <4>3. UserAgrees(v)
        BY <3>1, OneByOne DEF AccountInv
      <4> QED
        BY <1>1, <3>2, <4>1, <4>2, <4>3 DEF UserAgrees, Changing, Listing
    <3> QED
      BY <2>5, <3>3, <3>4
  <2>6. ASSUME ~failed
        PROVE  UserAgrees(u)'
    <3>1. Leaving(u)'
      BY <1>6, <2>2, <2>6 DEF Leaving, Moves
    <3> QED
      BY <1>3, <3>1, LeavingAgrees
  <2>7. \A v \in Users : v \notin tainted' => UserAgrees(v)'
    BY <2>5, <2>6
  <2> QED
    BY <1>7, <1>10, <2>4, <2>7, InvFromParts
<1> QED
  BY <1>11, <1>12

\* After an answered PUT or DELETE the entries of the user are deleted.
LEMMA DropUserKeeps ==
    ASSUME AccountInv, request \in Scripts, NEW c \in Everyone, NEW u \in call[c].drops,
           DropUser(c, u)
    PROVE  AccountInv'
<1> DEFINE drops == call[c].drops \ {u}
<1>1. /\ userCache' = [userCache EXCEPT ![u] = NoRef] /\ userList' = NoList
      /\ call' = [call EXCEPT ![c].drops = @ \ {u}]
      /\ UNCHANGED <<userSecret, objects, groups, request, history>>
  BY DEF DropUser
<1>2. /\ AccountsTyped /\ PlacesAreRight /\ RefsAreOwn
      /\ call[c] \in Call /\ u \in Users
  BY DEF AccountInv, AccountsTyped, Call
<1>3. RefsStep /\ HistoryStep
  <2>1. userCache' \in [Users -> Refs \union {NoRef}]
        /\ \A v \in Users : userCache'[v] \in {userCache[v], NoRef}
    BY <1>1, <1>2 DEF AccountsTyped
  <2> QED
    BY <1>1, <1>2, <2>1, ShrinkingCache, HistoryStays
<1>4. Moves(c, call[c].pc, call[c].ref, call[c].puts, drops)
  BY <1>1, <1>2 DEF Moves, AccountsTyped, Call
<1> HIDE DEF drops
<1>5. AccountsTyped'
  BY <1>1, <1>2, <1>3, <1>4, TypesKept DEF AccountsTyped, groups, Moves
<1>6. /\ c \in Calls => call[c].pc \in {"save", "failed"} /\ call[c].pc \in PlacesOf(request[c].op)
      /\ c = Boot => call[c].pc \in {"purge", "save", "exit"}
  BY <1>2 DEF PlacesAreRight
<1>7. PlacesAreRight' /\ RefsAreOwn'
  BY <1>1, <1>3, <1>4, <1>6, MovesTyped DEF Midway, BootPlaces
<1>8. \A g \in Groups : g \notin tainted' => GroupAgrees(g)'
  BY <1>1, <1>3, <1>4, <1>6, GroupsRest DEF HistoryStep
<1>9. UserAgrees(u)'
  BY <1>1, <1>2, DroppedAgrees DEF AccountsTyped
<1>10. ASSUME NEW v \in Users, v \notin tainted', v # u
       PROVE  UserAgrees(v)'
  <2>1. c \in Calls => call[c].pc \notin Midway \union {"created"}
    BY <1>6 DEF Midway
  <2>2. /\ Leaving(v) => Leaving(v)'
        /\ Changing(v) => Changing(v)'
        /\ Listing(v) => Listing(v)'
    BY <1>1, <1>4, <1>10, <2>1, FlowsStay DEF drops
  <2>3. userCache'[v] = userCache[v] /\ v \notin tainted
    BY <1>1, <1>2, <1>10 DEF AccountsTyped, history
  <2> QED
    BY <1>1, <2>2, <2>3, UserStays
<1> QED
  BY <1>5, <1>7, <1>8, <1>9, <1>10, InvFromParts

\* A call that waits for nothing any more goes on, or answers.
LEMMA FinishKeeps ==
    ASSUME AccountInv, request \in Scripts, NEW c \in Everyone, Finish(c)
    PROVE  AccountInv'
<1>1. PICK pc \in {"up", "revoke", "end"} :
          /\ call' = [call EXCEPT ![c] = Fresh(pc)]
          /\ c = Boot => pc = "up"
          /\ c # Boot => pc = "end" \/ (pc = "revoke" /\ SetsPassword(c))
  BY DEF Finish
<1>2. /\ call[c].pc \in {"save", "failed"} /\ call[c].puts = {} /\ call[c].drops = {}
      /\ UNCHANGED <<users, groups, request, history>>
  BY DEF Finish
<1>3. AccountsTyped /\ PlacesAreRight /\ RefsAreOwn
  BY DEF AccountInv
<1>4. Moves(c, pc, NoRef, {}, {})
  BY <1>1, <1>3 DEF Moves, AccountsTyped, Call, Fresh, Places, BootPlaces
<1>5. RefsStep /\ HistoryStep
  BY <1>2, <1>3, UsersStay, HistoryStays DEF users
<1>6. AccountsTyped'
  BY <1>2, <1>3, <1>4, <1>5, TypesKept DEF AccountsTyped, users, groups, Moves
<1>7. c \in Calls => c # Boot /\ pc \in PlacesOf(request[c].op)
  <2>1. c \in Calls => c # Boot /\ call[c].pc \in PlacesOf(request[c].op)
    BY <1>3, AccountsAssumption DEF PlacesAreRight
  <2> QED
    BY <1>1, <1>2, <2>1 DEF PlacesOf, SetsPassword
<1>8. PlacesAreRight' /\ RefsAreOwn'
  BY <1>1, <1>2, <1>4, <1>5, <1>7, MovesTyped DEF Midway, BootPlaces
<1>9. \A g \in Groups : g \notin tainted' => GroupAgrees(g)'
  BY <1>2, <1>4, <1>5, GroupsRest DEF HistoryStep
<1>10. \A u \in Users : u \notin tainted' => UserAgrees(u)'
  BY <1>2, <1>4, <1>5, UsersRest DEF HistoryStep, Midway
<1> QED
  BY <1>6, <1>8, <1>9, <1>10, InvFromParts

-----------------------------------------------------------------------------
(***************************************************************************)
(* Users are created and deleted.                                          *)
(***************************************************************************)
\* A step of a handler that waits for nothing, on the secret of one user: either the
\* secret stays, or the user is recorded as tainted, or it agrees for its own reasons.
LEMMA OneUserKeeps ==
    ASSUME AccountInv, request \in Scripts, NEW c \in Calls, NEW pc, NEW ref, NEW drops,
           call[c].puts = {}, call[c].drops = {},
           call[c].pc \notin Midway \union {"group", "written"},
           call[c].pc = "created" => userList' = NoList,
           Moves(c, pc, ref, {}, drops), ref \in {call[c].ref, NoRef},
           pc \in {"new", "end"} => ref = NoRef,
           pc \in PlacesOf(request[c].op) \ ({"have", "allowed"} \union Midway),
           pc \notin {"save", "failed"} => drops = {},
           NEW u \in Users, userSecret' \in [Users -> User \union {NoUser}],
           \A v \in Users \ {u} : userSecret'[v] = userSecret[v],
           userSecret'[u] = userSecret[u] \/ u \in tainted' \/ UserAgrees(u)',
           UNCHANGED <<objects, userCache, groups, request>>, userList' \in {userList, NoList},
           HistoryStep
    PROVE  AccountInv'
<1>1. AccountsTyped /\ PlacesAreRight /\ RefsAreOwn
  BY DEF AccountInv
<1>2. c \in Everyone /\ c # Boot
  BY AccountsAssumption DEF Everyone
<1>3. RefsStep
  BY <1>1, UsersStay
<1>4. AccountsTyped'
  BY <1>1, <1>3, TypesKept DEF AccountsTyped, groups, Moves
<1>5. PlacesAreRight' /\ RefsAreOwn'
  BY <1>2, <1>3, MovesTyped
<1>6. \A g \in Groups : g \notin tainted' => GroupAgrees(g)'
  BY <1>2, GroupsRest DEF HistoryStep
<1>7. ASSUME NEW v \in Users, v \notin tainted', userSecret'[v] = userSecret[v]
      PROVE  UserAgrees(v)'
  <2>1. UserAgrees(v)
    BY <1>7, OneByOne DEF AccountInv, HistoryStep
  <2>2. CASE call[c].pc # "created"
    <3>1. /\ Leaving(v) => Leaving(v)'
          /\ Changing(v) => Changing(v)'
          /\ Listing(v) => Listing(v)'
      BY <1>2, <2>2, FlowsStay
    <3> QED
      BY <1>7, <2>1, <3>1 DEF UserAgrees
  <2>3. CASE call[c].pc = "created"
    <3>1. \A d \in Everyone \ {c} : call'[d] = call[d]
      BY DEF Moves
    <3>2. Leaving(v) => Leaving(v)'
      BY <1>2, <3>1 DEF Leaving, Everyone
    <3>3. Changing(v) => Changing(v)'
      BY <1>2, <2>3, <3>1, <3>2 DEF Changing, Saving, Everyone
    <3> QED
      BY <1>7, <2>1, <2>3, <3>2, <3>3 DEF UserAgrees
  <2> QED
    BY <2>2, <2>3
<1>8. \A v \in Users : v \notin tainted' => UserAgrees(v)'
  BY <1>7
<1> QED
  BY <1>4, <1>5, <1>6, <1>8, InvFromParts

\* The history is left alone, or the user is recorded as tainted.
LEMMA LostIsTainted ==
    ASSUME AccountInv, request \in Scripts, NEW c \in Calls, NEW u \in Users, NEW lost \in BOOLEAN,
           IF lost THEN Taint(c, {u}) ELSE UNCHANGED history
    PROVE  HistoryStep /\ (lost => u \in tainted')
<1>1. AccountsTyped /\ PlacesAreRight
  BY DEF AccountInv
<1>2. {u} \in SUBSET (Users \union Groups)
  OBVIOUS
<1> QED
  BY <1>1, <1>2, TaintKeeps, HistoryStays

\* A deleted user is in the caches until the call has dropped it.
LEMMA DeleteUserKeeps ==
    ASSUME AccountInv, request \in Scripts, NEW c \in Calls, NEW outcome \in Outcomes,
           DeleteUser(c, outcome)
    PROVE  AccountInv'
<1>0. PICK u \in Users : u = request[c].user
  BY RequestIsTyped DEF DeleteUser
<1>1. /\ call[c].pc = "allowed" /\ request[c].op = "delete"
      /\ userSecret' = IF outcome = "refused" THEN userSecret ELSE [userSecret EXCEPT ![u] = NoUser]
      /\ \/ /\ outcome = "ok" /\ userSecret[u] # NoUser
            /\ call' = [call EXCEPT ![c].pc = "save", ![c].drops = {u}]
         \/ ~(outcome = "ok" /\ userSecret[u] # NoUser) /\ Answer(c)
      /\ IF outcome = "lost" THEN Taint(c, {u}) ELSE UNCHANGED history
      /\ UNCHANGED <<objects, userCache, userList, groups, request>>
  BY <1>0 DEF DeleteUser
<1>2. AccountsTyped /\ PlacesAreRight /\ c \in Everyone
  BY DEF AccountInv, Everyone
<1>3. call[c].puts = {} /\ call[c].drops = {} /\ call[c] \in Call
  BY <1>1, <1>2 DEF PlacesAreRight, AccountsTyped
<1>4. u \in Users
  BY <1>0
<1>5. HistoryStep /\ (outcome = "lost" => u \in tainted')
  <2>1. (outcome = "lost") \in BOOLEAN
    OBVIOUS
  <2> QED
    BY <1>1, <1>4, <2>1, LostIsTainted
<1>6. /\ userSecret' \in [Users -> User \union {NoUser}]
      /\ \A v \in Users \ {u} : userSecret'[v] = userSecret[v]
      /\ userSecret'[u] = IF outcome = "refused" THEN userSecret[u] ELSE NoUser
  BY <1>1, <1>2, <1>4 DEF AccountsTyped
<1>7. {"end", "save"} \subseteq PlacesOf(request[c].op)
  BY <1>1 DEF PlacesOf
<1>8. CASE /\ outcome = "ok" /\ userSecret[u] # NoUser
           /\ call' = [call EXCEPT ![c].pc = "save", ![c].drops = {u}]
  <2>1. Moves(c, "save", call[c].ref, {}, {u})
    BY <1>2, <1>3, <1>4, <1>8 DEF Moves, AccountsTyped, Call, Places, BootPlaces
  <2>2. Leaving(u)'
    BY <1>2, <2>1 DEF Leaving, Moves
  <2>3. UserAgrees(u)'
    BY <1>4, <2>2, LeavingAgrees
  <2> QED
    BY <1>1, <1>3, <1>4, <1>5, <1>6, <1>7, <2>1, <2>3, OneUserKeeps DEF Midway
<1>9. CASE ~(outcome = "ok" /\ userSecret[u] # NoUser) /\ Answer(c)
  <2>1. Moves(c, "end", NoRef, {}, {})
    BY <1>2, <1>9, AnswerMoves
  <2>2. userSecret'[u] = userSecret[u] \/ u \in tainted'
    BY <1>5, <1>6, <1>9 DEF Outcomes
  <2> QED
    BY <1>1, <1>3, <1>4, <1>5, <1>6, <1>7, <2>1, <2>2, OneUserKeeps DEF Midway
<1> QED
  BY <1>1, <1>8, <1>9

\* A user as it is created.
LEMMA NewUserIsUser ==
    ASSUME NEW gs \in SUBSET Groups
    PROVE  NewUser(gs) \in User
<1>1. (CHOOSE e \in Emails : TRUE) \in Emails /\ (CHOOSE t \in Texts : TRUE) \in Texts
  BY AccountsAssumption
<1> QED
  BY <1>1 DEF NewUser, User, Passwords

\* A user that is created was in no cache, unless a deletion is still dropping it.
LEMMA CreateUserKeeps ==
    ASSUME AccountInv, request \in Scripts, NEW c \in Calls, NEW outcome \in Outcomes,
           CreateUser(c, outcome)
    PROVE  AccountInv'
<1>0. PICK u : u = request[c].user
  OBVIOUS
<1> DEFINE gs == IF request[c].op = "login" THEN request[c].groups
                 ELSE request[c].vcs \union {DefaultGroup}
           free == userSecret[u] = NoUser
<1>1. /\ (call[c].pc = "checked" /\ request[c].op = "create") \/ call[c].pc = "absent"
      /\ userSecret' = IF free /\ outcome # "refused"
                       THEN [userSecret EXCEPT ![u] = NewUser(gs)] ELSE userSecret
      /\ \/ outcome = "ok" /\ free /\ Goto(c, "created")
         \/ ~free /\ request[c].op = "login" /\ Goto(c, "checked")
         \/ ~(outcome = "ok" /\ free) /\ Answer(c)
      /\ IF outcome = "lost" THEN Taint(c, {u}) ELSE UNCHANGED history
      /\ UNCHANGED <<objects, userCache, userList, groups, request>>
  BY <1>0 DEF CreateUser
<1>2. AccountsTyped /\ PlacesAreRight /\ c \in Everyone
  BY DEF AccountInv, Everyone
<1>3. call[c].puts = {} /\ call[c].drops = {}
  BY <1>1, <1>2 DEF PlacesAreRight
<1>4. request[c].op \in {"create", "login"}
  BY <1>1, <1>2 DEF PlacesAreRight, PlacesOf
<1>5. u \in Users /\ NewUser(gs) \in User
  <2>1. u \in Users /\ gs \in SUBSET Groups
    BY <1>0, <1>4, RequestIsTyped, AccountsAssumption
  <2> HIDE DEF gs
  <2> QED
    BY <2>1, NewUserIsUser
<1> HIDE DEF gs
<1>6. HistoryStep /\ (outcome = "lost" => u \in tainted')
  <2>1. (outcome = "lost") \in BOOLEAN
    OBVIOUS
  <2> QED
    BY <1>1, <1>5, <2>1, LostIsTainted
<1>7. /\ userSecret' \in [Users -> User \union {NoUser}]
      /\ \A v \in Users \ {u} : userSecret'[v] = userSecret[v]
      /\ userSecret'[u] = IF free /\ outcome # "refused" THEN NewUser(gs) ELSE userSecret[u]
  BY <1>1, <1>2, <1>5 DEF AccountsTyped
<1>8. {"created", "end"} \subseteq PlacesOf(request[c].op)
      /\ (request[c].op = "login" => "checked" \in PlacesOf(request[c].op))
  BY <1>4 DEF PlacesOf
<1>9. call[c].pc \notin Midway \union {"group", "written", "created"}
  BY <1>1 DEF Midway
<1>10. CASE outcome = "ok" /\ free /\ Goto(c, "created")
  <2>1. Moves(c, "created", call[c].ref, {}, {})
    BY <1>2, <1>3, <1>10, GotoMoves DEF Places
  <2>2. userSecret'[u] \in User
    BY <1>5, <1>7, <1>10
  <2>3. u \in tainted' \/ UserAgrees(u)'
    <3> SUFFICES ASSUME u \notin tainted'
                 PROVE  UserAgrees(u)'
      OBVIOUS
    <3>1. UserAgrees(u)
      BY <1>5, <1>6, OneByOne DEF AccountInv, HistoryStep
    <3>2. Leaving(u) => Leaving(u)'
      BY <1>0, <1>1, <1>2, <1>3, <1>9, <2>1, FlowsStay, AccountsAssumption
    <3>3. Listing(u)'
      BY <1>0, <1>1, <2>1 DEF Listing, Moves
    <3>4. CASE Leaving(u)
      BY <1>5, <3>2, <3>4, LeavingAgrees
    <3>5. CASE ~Leaving(u)
      <4>1. userCache'[u] = NoRef
        BY <1>1, <1>10, <3>1, <3>5 DEF UserAgrees
      <4> QED
        BY <2>2, <3>3, <4>1, NobodyIsNoUser DEF UserAgrees
    <3> QED
      BY <3>4, <3>5
  <2> QED
    BY <1>1, <1>3, <1>5, <1>6, <1>7, <1>8, <1>9, <2>1, <2>3, OneUserKeeps DEF Midway
<1>11. CASE ~free /\ request[c].op = "login" /\ Goto(c, "checked")
  <2>1. Moves(c, "checked", call[c].ref, {}, {})
    BY <1>2, <1>3, <1>11, GotoMoves DEF Places
  <2>2. userSecret'[u] = userSecret[u]
    BY <1>7, <1>11
  <2> QED
    BY <1>1, <1>3, <1>5, <1>6, <1>7, <1>8, <1>9, <1>11, <2>1, <2>2, OneUserKeeps DEF Midway
<1>12. CASE ~(outcome = "ok" /\ free) /\ Answer(c)
  <2>1. Moves(c, "end", NoRef, {}, {})
    BY <1>2, <1>12, AnswerMoves
  <2>2. userSecret'[u] = userSecret[u] \/ u \in tainted'
    BY <1>6, <1>7, <1>12 DEF Outcomes
  <2> QED
    BY <1>1, <1>3, <1>5, <1>6, <1>7, <1>8, <1>9, <2>1, <2>2, OneUserKeeps DEF Midway
<1> QED
  BY <1>1, <1>10, <1>11, <1>12

\* The list is dropped after the creation.
LEMMA CreatedKeeps ==
    ASSUME AccountInv, request \in Scripts, NEW c \in Calls, Created(c)
    PROVE  AccountInv'
<1>1. /\ call[c].pc = "created" /\ userList' = NoList /\ Answer(c)
      /\ UNCHANGED <<userSecret, objects, userCache, groups, request, history>>
  BY DEF Created
<1>2. AccountsTyped /\ PlacesAreRight /\ c \in Everyone
  BY DEF AccountInv, Everyone
<1>3. call[c].puts = {} /\ call[c].drops = {} /\ request[c].op \in {"create", "login"}
  BY <1>1, <1>2 DEF PlacesAreRight, PlacesOf
<1>4. "end" \in PlacesOf(request[c].op) /\ request[c].user \in Users
  BY <1>3, RequestIsTyped DEF PlacesOf
<1>5. Moves(c, "end", NoRef, {}, {}) /\ HistoryStep
  BY <1>1, <1>2, AnswerMoves, HistoryStays
<1>6. /\ userSecret' \in [Users -> User \union {NoUser}]
      /\ \A v \in Users : userSecret'[v] = userSecret[v]
  BY <1>1, <1>2 DEF AccountsTyped
<1> QED
  BY <1>1, <1>3, <1>4, <1>5, <1>6, OneUserKeeps DEF Midway

-----------------------------------------------------------------------------
(***************************************************************************)
(* Groups are created, changed and deleted.                                *)
(***************************************************************************)
\* The PUTs of users that lose groups.
PutsOf(us, gs) == {[user |-> u, value |-> Without(u, gs)] : u \in us}

\* The users of the list lose groups and are saved: each waits for its PUT.
LEMMA SaveWithoutMoves ==
    ASSUME AccountInv, NEW c \in Everyone, NEW us \in SUBSET Users, NEW gs, NEW pc \in Places,
           \A u \in us : AllUsers[u] # NoUser, SaveWithout(c, us, gs, pc)
    PROVE  /\ userList' \in [Users -> User \union {NoUser}]
           /\ \A u \in Users \ us : userList'[u] = AllUsers[u]
           /\ Moves(c, pc, call[c].ref, call[c].puts \union PutsOf(us, gs), call[c].drops)
<1> DEFINE puts == PutsOf(us, gs)
<1>1. AccountsTyped /\ AllUsers \in [Users -> User \union {NoUser}]
  BY ViewsAreTyped DEF AccountInv
<1>2. ASSUME NEW u \in us
      PROVE  Without(u, gs) \in User
  <2>1. AllUsers[u] \in User
    BY <1>1
  <2> QED
    BY <2>1 DEF Without, User
<1>3. userList' = [u \in Users |-> IF u \in us THEN Without(u, gs) ELSE AllUsers[u]]
      /\ call' = [call EXCEPT ![c].pc = pc, ![c].puts = @ \union puts]
  BY DEF SaveWithout, PutsOf
<1>4. userList' \in [Users -> User \union {NoUser}]
  BY <1>1, <1>2, <1>3
<1>5. puts \in SUBSET [user : Users, value : User]
  BY <1>2 DEF PutsOf
<1> HIDE DEF puts
<1>7. Moves(c, pc, call[c].ref, call[c].puts \union puts, call[c].drops)
  BY <1>1, <1>3, <1>5 DEF Moves, AccountsTyped, Call
<1> QED
  BY <1>3, <1>4, <1>7 DEF puts

\* Users whose list entry was changed are being saved; the others agree as before.  Users
\* that are gone are not among those saved.
LEMMA SaveWithoutAgrees ==
    ASSUME AccountInv, NEW c \in Everyone, NEW us \in SUBSET Users, NEW gs, NEW pc \in Places,
           \A u \in us : AllUsers[u] # NoUser, SaveWithout(c, us, gs, pc),
           UNCHANGED <<userSecret, objects, userCache, request>>, tainted \subseteq tainted',
           c = Boot => call[c].pc # "exit",
           c \in Calls => call[c].pc \notin Midway \union {"created"}
    PROVE  \A u \in Users : u \notin tainted' => UserAgrees(u)'
<1>1. Moves(c, pc, call[c].ref, call[c].puts \union PutsOf(us, gs), call[c].drops)
  BY SaveWithoutMoves
<1>2. \A u \in Users \ us : userList'[u] = AllUsers[u]
  BY SaveWithoutMoves
<1> SUFFICES ASSUME NEW u \in Users, u \notin tainted'
             PROVE  UserAgrees(u)'
  OBVIOUS
<1>3. UserAgrees(u)
  BY OneByOne DEF AccountInv
<1>4. /\ Leaving(u) => Leaving(u)'
      /\ Changing(u) => Changing(u)'
      /\ Listing(u) => Listing(u)'
  BY <1>1, FlowsStay
<1>5. ASSUME u \in us
      PROVE  Saving(u)'
  <2>1. [user |-> u, value |-> Without(u, gs)] \in call'[c].puts
    BY <1>1, <1>5 DEF Moves, PutsOf
  <2>2. [user |-> u, value |-> Without(u, gs)].user = u
    OBVIOUS
  <2> QED
    BY <2>1, <2>2 DEF Saving
<1>6. CASE u \in us
  <2>1. Changing(u)' /\ Listing(u)'
    BY <1>5, <1>6 DEF Changing, Listing
  <2>2. userSecret[u] = NoUser => Leaving(u)'
    <3>1. AllUsers[u] # NoUser
      BY <1>6
    <3> QED
      BY <1>3, <1>4, <3>1 DEF UserAgrees, AllUsers
  <2> QED
    BY <2>1, <2>2 DEF UserAgrees
<1>7. CASE u \notin us
  <2>1. userList'[u] = AllUsers[u]
    BY <1>2, <1>7
  <2> QED
    BY <1>3, <1>4, <2>1 DEF UserAgrees, AllUsers
<1> QED
  BY <1>6, <1>7

\* The members of a deleted group lose it.
LEMMA RemoveMembersKeeps ==
    ASSUME AccountInv, request \in Scripts, NEW c \in Calls, RemoveMembers(c)
    PROVE  AccountInv'
<1> DEFINE us == Members(request[c].group)
           gs == {request[c].group}
<1>1. /\ call[c].pc = "members" /\ SaveWithout(c, us, gs, "save")
      /\ UNCHANGED <<userSecret, objects, userCache, groups, request, history>>
  BY DEF RemoveMembers
<1>2. us \in SUBSET Users /\ \A u \in us : AllUsers[u] # NoUser
  BY DEF Members
<1> HIDE DEF us, gs
<1>3. AccountsTyped /\ PlacesAreRight /\ RefsAreOwn /\ c \in Everyone /\ c # Boot /\ "save" \in Places
  BY AccountsAssumption DEF AccountInv, Everyone, Places, BootPlaces
<1>4. Moves(c, "save", call[c].ref, call[c].puts \union PutsOf(us, gs), call[c].drops)
  BY <1>1, <1>2, <1>3, SaveWithoutMoves
<1>5. userList' \in [Users -> User \union {NoUser}]
  BY <1>1, <1>2, <1>3, SaveWithoutMoves
<1>6. RefsStep /\ HistoryStep
  BY <1>1, <1>3, UsersStay, HistoryStays
<1>7. AccountsTyped'
  BY <1>1, <1>3, <1>4, <1>5, <1>6, TypesKept DEF AccountsTyped, groups, Moves
<1>8. "save" \in PlacesOf(request[c].op)
  BY <1>1, <1>3 DEF PlacesAreRight, PlacesOf
<1>9. PlacesAreRight' /\ RefsAreOwn'
  BY <1>1, <1>3, <1>4, <1>6, <1>8, MovesTyped DEF Midway
<1>10. \A g \in Groups : g \notin tainted' => GroupAgrees(g)'
  BY <1>1, <1>3, <1>4, <1>6, GroupsRest DEF HistoryStep
<1>11. \A u \in Users : u \notin tainted' => UserAgrees(u)'
  BY <1>1, <1>2, <1>3, <1>6, SaveWithoutAgrees DEF HistoryStep, Midway
<1> QED
  BY <1>7, <1>9, <1>10, <1>11, InvFromParts

\* A step of a handler that waits for nothing, on one group: the other groups stay.
LEMMA OneGroupKeeps ==
    ASSUME AccountInv, request \in Scripts, NEW c \in Calls, NEW pc, NEW ref,
           call[c].puts = {}, call[c].drops = {}, call[c].pc \notin Midway \union {"created"},
           Moves(c, pc, ref, {}, {}), ref \in {call[c].ref, NoRef},
           pc \in {"new", "end"} => ref = NoRef,
           pc \in PlacesOf(request[c].op) \ ({"have", "allowed"} \union Midway),
           NEW g \in Groups, request[c].group = g,
           groupSecret' \in [Groups -> Group \union {NoGroup}],
           groupCache' \in [Groups -> Group \union {NoGroup}],
           groupList' \in {groupList, NoList},
           \A h \in Groups \ {g} : groupSecret'[h] = groupSecret[h] /\ groupCache'[h] = groupCache[h],
           g \in tainted' \/ GroupAgrees(g)',
           UNCHANGED <<users, request>>, HistoryStep
    PROVE  AccountInv'
<1>1. AccountsTyped /\ PlacesAreRight /\ RefsAreOwn
  BY DEF AccountInv
<1>2. c \in Everyone /\ c # Boot
  BY AccountsAssumption DEF Everyone
<1>3. RefsStep
  BY <1>1, UsersStay DEF users
<1>4. AccountsTyped'
  BY <1>1, <1>3, TypesKept DEF AccountsTyped, users, Moves
<1>5. PlacesAreRight' /\ RefsAreOwn'
  BY <1>2, <1>3, MovesTyped
<1>6. \A u \in Users : u \notin tainted' => UserAgrees(u)'
  BY <1>2, UsersRest DEF HistoryStep
<1>7. ASSUME NEW h \in Groups, h \notin tainted', h # g
      PROVE  GroupAgrees(h)'
  <2>1. GroupAgrees(h)
    BY <1>7, OneByOne DEF AccountInv, HistoryStep
  <2>2. /\ GroupLeaving(h) => GroupLeaving(h)'
        /\ GroupChanging(h) => GroupChanging(h)'
        /\ GroupListing(h) => GroupListing(h)'
    BY <1>2, <1>7, GroupFlowsStay
  <2> QED
    BY <1>7, <2>1, <2>2 DEF GroupAgrees
<1>8. \A h \in Groups : h \notin tainted' => GroupAgrees(h)'
  BY <1>7
<1> QED
  BY <1>4, <1>5, <1>6, <1>8, InvFromParts

\* The cached group is changed before it is saved.
LEMMA ReadForUpdateKeeps ==
    ASSUME AccountInv, request \in Scripts, NEW c \in Calls, ReadForUpdate(c)
    PROVE  AccountInv'
<1>0. PICK g \in Groups : g = request[c].group
  BY RequestIsTyped DEF ReadForUpdate
<1>1. /\ call[c].pc = "new" /\ request[c].op = "updateGroup"
      /\ \/ Answer(c) /\ UNCHANGED groupCache
         \/ /\ GroupView(g) # NoGroup /\ groupCache' = [groupCache EXCEPT ![g] = request[c].value]
            /\ Goto(c, "group")
      /\ Continues(c) /\ UNCHANGED <<users, groupSecret, groupList, request>>
  BY <1>0 DEF ReadForUpdate
<1>2. AccountsTyped /\ PlacesAreRight /\ c \in Everyone /\ c # Boot
  BY AccountsAssumption DEF AccountInv, Everyone
<1>3. /\ call[c].puts = {} /\ call[c].drops = {} /\ {"group", "end"} \subseteq PlacesOf(request[c].op)
      /\ call[c].pc \notin Midway \union {"created"}
  BY <1>1, <1>2 DEF PlacesAreRight, PlacesOf, Midway
<1>4. HistoryStep
  BY <1>1, <1>2, ContinuesKeeps
<1>5. CASE Answer(c) /\ UNCHANGED groupCache
  <2>1. Moves(c, "end", NoRef, {}, {})
    BY <1>2, <1>5, AnswerMoves
  <2>2. g \in tainted' \/ GroupAgrees(g)'
    BY <1>1, <1>2, <1>4, <1>5, <2>1, GroupsRest DEF groups, HistoryStep
  <2> QED
    BY <1>0, <1>1, <1>2, <1>3, <1>4, <1>5, <2>1, <2>2, OneGroupKeeps DEF AccountsTyped, Midway
<1>6. CASE /\ GroupView(g) # NoGroup /\ groupCache' = [groupCache EXCEPT ![g] = request[c].value]
           /\ Goto(c, "group")
  <2>1. Moves(c, "group", call[c].ref, {}, {})
    BY <1>2, <1>3, <1>6, GotoMoves DEF Places
  <2>2. request[c].value \in Group
    BY <1>1, RequestIsTyped
  <2>3. /\ groupCache' \in [Groups -> Group \union {NoGroup}]
        /\ \A h \in Groups \ {g} : groupCache'[h] = groupCache[h]
    BY <1>2, <1>6, <2>2 DEF AccountsTyped
  <2>4. ASSUME g \notin tainted'
        PROVE  GroupAgrees(g)'
    <3>1. GroupAgrees(g)
      BY <1>4, <2>4, OneByOne DEF AccountInv, HistoryStep
    <3>2. GroupChanging(g)'
      BY <1>0, <1>1, <1>2, <2>1 DEF GroupChanging, Moves
    <3>3. /\ GroupLeaving(g) => GroupLeaving(g)'
          /\ GroupListing(g) => GroupListing(g)'
      BY <1>1, <1>2, <2>1, GroupFlowsStay
    <3>4. groupSecret[g] = NoGroup => GroupLeaving(g)
      BY <1>6, <3>1 DEF GroupAgrees, GroupView
    <3> QED
      BY <1>1, <3>1, <3>2, <3>3, <3>4 DEF GroupAgrees
  <2> QED
    BY <1>0, <1>1, <1>2, <1>3, <1>4, <2>1, <2>3, <2>4, OneGroupKeeps DEF AccountsTyped, Midway
<1> QED
  BY <1>1, <1>5, <1>6

\* A group is written: the call then drops its entries, or the group is recorded as
\* tainted, or nothing was written and the group is in no cache (404) or agrees (409).
LEMMA ChangeGroupKeeps ==
    ASSUME AccountInv, request \in Scripts, NEW c \in Calls, NEW outcome \in Outcomes,
           ChangeGroup(c, outcome)
    PROVE  AccountInv'
<1>0. PICK g : g = request[c].group
  OBVIOUS
<1> DEFINE op == request[c].op
           names == IF outcome = "ok" THEN {} ELSE {g}
           deleted == IF outcome # "ok" /\ Deletes(c) THEN {g} ELSE {}
           value == IF op = "deleteGroup" THEN NoGroup ELSE request[c].value
           exists == groupSecret[g] # NoGroup
<1>1. /\ call[c].pc = "group" \/ (call[c].pc = "new" /\ op \in {"createGroup", "deleteGroup"})
      /\ \/ exists = (op = "createGroup") /\ Answer(c) /\ UNCHANGED groupSecret
         \/ /\ exists # (op = "createGroup") /\ WriteGroup(g, value, outcome)
            /\ IF outcome = "ok" THEN Goto(c, "written") ELSE Answer(c)
      /\ Record(c, names, deleted)
      /\ UNCHANGED <<users, groupCache, groupList, request>>
  BY <1>0 DEF ChangeGroup
<1>2. AccountsTyped /\ PlacesAreRight /\ c \in Everyone /\ c # Boot
  BY AccountsAssumption DEF AccountInv, Everyone
<1>3. /\ call[c].puts = {} /\ call[c].drops = {}
      /\ op \in {"createGroup", "updateGroup", "deleteGroup"}
      /\ call[c].pc = "group" => op = "updateGroup"
      /\ call[c].pc \in {"group", "new"}
  BY <1>1, <1>2 DEF PlacesAreRight, PlacesOf
<1>4. {"written", "end"} \subseteq PlacesOf(request[c].op)
  BY <1>3 DEF PlacesOf
<1>5. g \in Groups /\ value \in Group \union {NoGroup} /\ (op # "deleteGroup" => value \in Group)
  BY <1>0, <1>3, RequestIsTyped
<1>6. HistoryStep /\ (outcome # "ok" => g \in tainted')
  <2>1. deleted \in SUBSET Groups /\ names \in SUBSET (Users \union Groups)
    BY <1>5
  <2> HIDE DEF deleted
  <2> QED
    BY <1>1, <1>2, <2>1, RecordsKeep
<1> HIDE DEF value
<1>7. CASE exists = (op = "createGroup") /\ Answer(c) /\ UNCHANGED groupSecret
  <2>1. Moves(c, "end", NoRef, {}, {})
    BY <1>2, <1>7, AnswerMoves
  <2>2. ASSUME g \notin tainted'
        PROVE  GroupAgrees(g)'
    <3>1. GroupAgrees(g)
      BY <1>5, <1>6, <2>2, OneByOne DEF AccountInv, HistoryStep
    <3>2. CASE call[c].pc = "new"
      <4>1. /\ GroupLeaving(g) => GroupLeaving(g)'
            /\ GroupChanging(g) => GroupChanging(g)'
            /\ GroupListing(g) => GroupListing(g)'
        BY <1>1, <1>2, <2>1, <3>2, GroupFlowsStay
      <4> QED
        BY <1>1, <1>7, <3>1, <4>1 DEF GroupAgrees
    <3>3. CASE call[c].pc = "group"      \* a 404: the group is gone
      <4>1. groupSecret[g] = NoGroup
        BY <1>3, <1>7, <3>3
      <4>2. \A d \in Everyone \ {c} : call'[d] = call[d]
        BY <2>1 DEF Moves
      <4>3. /\ GroupLeaving(g) => GroupLeaving(g)'
            /\ GroupListing(g) => GroupListing(g)'
        BY <1>1, <1>2, <3>3, <4>2 DEF GroupLeaving, GroupListing, Everyone
      <4> QED
        BY <1>1, <1>7, <3>1, <4>1, <4>3 DEF GroupAgrees, GroupChanging
    <3> QED
      BY <1>3, <3>2, <3>3
  <2> QED
    BY <1>0, <1>1, <1>2, <1>3, <1>4, <1>5, <1>6, <1>7, <2>1, <2>2, OneGroupKeeps DEF AccountsTyped, Midway
<1>8. CASE /\ exists # (op = "createGroup") /\ WriteGroup(g, value, outcome)
           /\ IF outcome = "ok" THEN Goto(c, "written") ELSE Answer(c)
  <2>1. /\ groupSecret' \in [Groups -> Group \union {NoGroup}]
        /\ \A h \in Groups \ {g} : groupSecret'[h] = groupSecret[h]
        /\ outcome = "ok" => groupSecret'[g] = value
    BY <1>2, <1>5, <1>8 DEF WriteGroup, AccountsTyped
  <2>2. CASE outcome # "ok"
    <3>1. Moves(c, "end", NoRef, {}, {})
      BY <1>2, <1>8, <2>2, AnswerMoves
    <3> QED
      BY <1>0, <1>1, <1>2, <1>3, <1>4, <1>5, <1>6, <2>1, <2>2, <3>1, OneGroupKeeps DEF AccountsTyped, Midway
  <2>3. CASE outcome = "ok"
    <3>1. Moves(c, "written", call[c].ref, {}, {})
      BY <1>2, <1>3, <1>8, <2>3, GotoMoves DEF Places
    <3>2. GroupListing(g)' /\ (op # "createGroup" => GroupLeaving(g)')
      BY <1>0, <1>1, <3>1 DEF GroupListing, GroupLeaving, Moves
    <3>3. ASSUME op = "createGroup", g \notin tainted'
          PROVE  GroupAgrees(g)'
      <4>1. GroupAgrees(g) /\ groupSecret[g] = NoGroup
        BY <1>5, <1>6, <1>8, <3>3, OneByOne DEF AccountInv, HistoryStep
      <4>2. GroupLeaving(g) => GroupLeaving(g)'
        BY <1>1, <1>2, <1>3, <3>1, <3>3, GroupFlowsStay
      <4>3. groupSecret'[g] # NoGroup
        BY <1>5, <2>1, <2>3, <3>3, NothingIsNoGroup
      <4> QED
        BY <1>1, <3>2, <4>1, <4>2, <4>3 DEF GroupAgrees, GroupChanging
    <3>4. g \in tainted' \/ GroupAgrees(g)'
      BY <1>5, <3>2, <3>3, GroupLeavingAgrees
    <3> QED
      BY <1>0, <1>1, <1>2, <1>3, <1>4, <1>5, <1>6, <2>1, <3>1, <3>4, OneGroupKeeps DEF AccountsTyped, Midway
  <2> QED
    BY <2>2, <2>3
<1> QED
  BY <1>1, <1>7, <1>8

\* The entries of a group are dropped after the write.
LEMMA DropGroupKeeps ==
    ASSUME AccountInv, request \in Scripts, NEW c \in Calls, DropGroup(c)
    PROVE  AccountInv'
<1>0. PICK g : g = request[c].group
  OBVIOUS
<1>1. /\ call[c].pc = "written" /\ groupList' = NoList
      /\ groupCache' = IF request[c].op = "createGroup" THEN groupCache
                       ELSE [groupCache EXCEPT ![g] = NoGroup]
      /\ IF Deletes(c) THEN Goto(c, "members") ELSE Answer(c)
      /\ UNCHANGED <<users, groupSecret, request, history>>
  BY <1>0 DEF DropGroup
<1>2. AccountsTyped /\ PlacesAreRight /\ c \in Everyone /\ c # Boot
  BY AccountsAssumption DEF AccountInv, Everyone
<1>3. /\ call[c].puts = {} /\ call[c].drops = {}
      /\ request[c].op \in {"createGroup", "updateGroup", "deleteGroup"}
  BY <1>1, <1>2 DEF PlacesAreRight, PlacesOf
<1>4. g \in Groups /\ HistoryStep
  BY <1>0, <1>1, <1>2, <1>3, RequestIsTyped, HistoryStays
<1>5. /\ groupCache' \in [Groups -> Group \union {NoGroup}]
      /\ \A h \in Groups \ {g} : groupCache'[h] = groupCache[h]
      /\ groupCache'[g] = IF request[c].op = "createGroup" THEN groupCache[g] ELSE NoGroup
  BY <1>1, <1>2, <1>4 DEF AccountsTyped
<1>6. PICK pc \in {"members", "end"}, ref \in {call[c].ref, NoRef} :
          Moves(c, pc, ref, {}, {}) /\ (IF pc = "members" THEN Deletes(c) ELSE ref = NoRef)
  <2>1. CASE Deletes(c)
    <3>1. Moves(c, "members", call[c].ref, {}, {})
      BY <1>1, <1>2, <1>3, <2>1, GotoMoves DEF Places
    <3> QED
      BY <2>1, <3>1
  <2>2. CASE ~Deletes(c)
    <3>1. Moves(c, "end", NoRef, {}, {})
      BY <1>1, <1>2, <2>2, AnswerMoves
    <3> QED
      BY <2>2, <3>1
  <2> QED
    BY <2>1, <2>2
<1>7. pc \in PlacesOf(request[c].op)
  BY <1>3, <1>6 DEF PlacesOf, Deletes
<1>8. ASSUME g \notin tainted'
      PROVE  GroupAgrees(g)'
  <2>1. CASE request[c].op # "createGroup"
    BY <1>1, <1>4, <1>5, <2>1, GroupDroppedAgrees
  <2>2. CASE request[c].op = "createGroup"
    <3>1. GroupAgrees(g)
      BY <1>1, <1>4, <1>8, OneByOne DEF AccountInv, HistoryStep
    <3>2. \A d \in Everyone \ {c} : call'[d] = call[d]
      BY <1>6 DEF Moves
    <3>3. /\ GroupLeaving(g) => GroupLeaving(g)'
          /\ GroupChanging(g) => GroupChanging(g)'
      BY <1>1, <1>2, <2>2, <3>2 DEF GroupLeaving, GroupChanging, Everyone
    <3> QED
      BY <1>1, <1>5, <2>2, <3>1, <3>3 DEF GroupAgrees
  <2> QED
    BY <2>1, <2>2
<1> QED
  BY <1>0, <1>1, <1>2, <1>3, <1>4, <1>5, <1>6, <1>7, <1>8, OneGroupKeeps DEF AccountsTyped, Midway

-----------------------------------------------------------------------------
(***************************************************************************)
(* The start-up.                                                           *)
(***************************************************************************)
LEMMA BootReady ==
    ASSUME AccountInv
    PROVE  /\ Boot \in Everyone /\ Boot \notin Calls
           /\ AccountsTyped /\ PlacesAreRight /\ RefsAreOwn /\ call[Boot] \in Call
BY AccountsAssumption DEF AccountInv, Everyone, AccountsTyped

\* The start-up goes on, and waits for what it waited for.
LEMMA EnterMoves ==
    ASSUME AccountInv, NEW pc \in BootPlaces, Enter(pc)
    PROVE  Moves(Boot, pc, call[Boot].ref, call[Boot].puts, call[Boot].drops)
<1>1. pc \in Places
  BY DEF Places
<1> QED
  BY <1>1, BootReady, GotoMoves DEF Enter

\* A step of the start-up, once the users and the groups agree after it.
LEMMA BootKeeps ==
    ASSUME AccountInv, request \in Scripts, NEW pc \in BootPlaces, NEW ref, NEW puts, NEW drops,
           Moves(Boot, pc, ref, puts, drops), ref \in {call[Boot].ref, NoRef},
           pc \notin {"purge", "save", "exit"} => puts = {} /\ drops = {},
           RefsStep, HistoryStep, UNCHANGED request,
           userSecret' \in [Users -> User \union {NoUser}],
           groupSecret' \in [Groups -> Group \union {NoGroup}],
           userList' \in [Users -> User \union {NoUser}] \union {NoList},
           groupCache' \in [Groups -> Group \union {NoGroup}],
           groupList' \in [Groups -> Group \union {NoGroup}] \union {NoList},
           pc # "exit" =>
               /\ \A u \in Users : u \notin tainted' => UserAgrees(u)'
               /\ \A g \in Groups : g \notin tainted' => GroupAgrees(g)'
    PROVE  AccountInv'
<1>1. AccountsTyped'
  BY TypesKept DEF Moves
<1>2. PlacesAreRight' /\ RefsAreOwn'
  BY BootReady, MovesTyped
<1>3. CASE pc = "exit"
  BY <1>1, <1>2, <1>3, ExitAgrees DEF Moves
<1>4. CASE pc # "exit"
  BY <1>1, <1>2, <1>4, InvFromParts
<1> QED
  BY <1>3, <1>4

\* Groups, and users, that are only read agree afterwards.
LEMMA GroupsRead ==
    ASSUME AccountInv, NEW pc, NEW ref, NEW puts, NEW drops, Moves(Boot, pc, ref, puts, drops),
           GroupStep, UNCHANGED request, tainted \subseteq tainted', call[Boot].pc # "exit"
    PROVE  \A g \in Groups : g \notin tainted' => GroupAgrees(g)'
<1> SUFFICES ASSUME NEW g \in Groups, g \notin tainted'
             PROVE  GroupAgrees(g)'
  OBVIOUS
<1>1. /\ GroupLeaving(g) => GroupLeaving(g)'
      /\ GroupChanging(g) => GroupChanging(g)'
      /\ GroupListing(g) => GroupListing(g)'
  BY BootReady, GroupFlowsStay
<1>2. GroupAgrees(g)
  BY OneByOne DEF AccountInv
<1> QED
  BY <1>1, <1>2 DEF GroupAgrees, GroupStep, AllGroups

\* The same of the users.
LEMMA UsersRead ==
    ASSUME AccountInv, NEW pc, NEW ref, NEW puts, NEW drops, Moves(Boot, pc, ref, puts, drops),
           RefsStep, CacheStep({}), ListStep, UNCHANGED <<userSecret, request>>,
           tainted \subseteq tainted', call[Boot].pc # "exit",
           call[Boot].puts \subseteq puts, call[Boot].drops \subseteq drops
    PROVE  \A u \in Users : u \notin tainted' => UserAgrees(u)'
<1> SUFFICES ASSUME NEW u \in Users, u \notin tainted'
             PROVE  UserAgrees(u)'
  OBVIOUS
<1>1. /\ Leaving(u) => Leaving(u)'
      /\ Changing(u) => Changing(u)'
      /\ Listing(u) => Listing(u)'
  BY BootReady, FlowsStay
<1>2. UserAgrees(u) /\ AccountsTyped /\ RefsAreOwn
  BY OneByOne DEF AccountInv
<1>3. userCache'[u] # NoRef /\ ~Changing(u)' => Agrees(objects'[userCache'[u]], userSecret'[u])
  <2> SUFFICES ASSUME userCache'[u] # NoRef, ~Changing(u)'
               PROVE  Agrees(objects'[userCache'[u]], userSecret[u])
    OBVIOUS
  <2>1. CASE userCache[u] = NoRef
    <3>1. objects'[userCache'[u]] = userSecret[u] /\ userSecret[u] \in User
      BY <2>1 DEF CacheStep, RefsStep
    <3> QED
      BY <3>1, FreshAgrees
  <2>2. CASE userCache[u] # NoRef
    <3>1. objects'[userCache'[u]] \in {objects[userCache[u]],
                                       [objects[userCache[u]] EXCEPT !.password = Erased]}
      BY <2>2 DEF CacheStep
    <3>2. Agrees(objects[userCache[u]], userSecret[u]) /\ objects[userCache[u]] \in User
      BY <1>1, <1>2, <2>2 DEF UserAgrees, RefsAreOwn
    <3>3. userSecret[u] \in User
      BY <1>2, <3>2 DEF Agrees, AccountsTyped
    <3> QED
      BY <3>1, <3>2, <3>3, ErasedAgrees
  <2> QED
    BY <2>1, <2>2
<1>4. userList' # NoList /\ ~Listing(u)' => userList'[u] = userSecret'[u]
  BY <1>1, <1>2 DEF UserAgrees, ListStep, AllUsers
<1>5. userSecret'[u] = NoUser /\ ~Leaving(u)' =>
          userCache'[u] = NoRef /\ (userList' # NoList => userList'[u] = NoUser)
  <2> SUFFICES ASSUME userSecret[u] = NoUser, ~Leaving(u)'
               PROVE  userCache'[u] = NoRef /\ (userList' # NoList => userList'[u] = NoUser)
    OBVIOUS
  <2>1. userCache[u] = NoRef /\ (userList # NoList => userList[u] = NoUser)
    BY <1>1, <1>2 DEF UserAgrees
  <2>2. userCache'[u] = NoRef
    BY <2>1, NobodyIsNoUser DEF CacheStep, RefsStep
  <2> QED
    BY <2>1, <2>2 DEF ListStep, AllUsers
<1> QED
  BY <1>3, <1>4, <1>5 DEF UserAgrees

\* The start-up reads groups, and goes on.
LEMMA BootReadsKeep ==
    ASSUME AccountInv, request \in Scripts, NEW pc \in BootPlaces, Enter(pc),
           call[Boot].pc # "exit", call[Boot].puts = {}, call[Boot].drops = {},
           GroupStep, HistoryStep, UNCHANGED <<userSecret, userList, request>>,
           RefsStep, CacheStep({})
    PROVE  AccountInv'
<1>1. Moves(Boot, pc, call[Boot].ref, {}, {})
  BY EnterMoves
<1>2. AccountsTyped /\ RefsAreOwn
  BY DEF AccountInv
<1>3. \A g \in Groups : g \notin tainted' => GroupAgrees(g)'
  BY <1>1, GroupsRead DEF HistoryStep
<1>4. \A u \in Users : u \notin tainted' => UserAgrees(u)'
  BY <1>1, UsersRead DEF ListStep, HistoryStep
<1>5. groupList' \in [Groups -> Group \union {NoGroup}] \union {NoList}
  BY <1>2, ViewsAreTyped DEF GroupStep, AccountsTyped
<1> QED
  BY <1>1, <1>2, <1>3, <1>4, <1>5, BootKeeps DEF AccountsTyped, GroupStep

\* The start-up changes one group: the others stay.
LEMMA BootChangesGroup ==
    ASSUME AccountInv, request \in Scripts, NEW pc \in BootPlaces, Enter(pc),
           call[Boot].pc # "exit", call[Boot].puts = {}, call[Boot].drops = {},
           NEW g \in Groups, HistoryStep, UNCHANGED <<users, request>>,
           groupSecret' \in [Groups -> Group \union {NoGroup}],
           groupCache' \in [Groups -> Group \union {NoGroup}],
           groupList' \in [Groups -> Group \union {NoGroup}] \union {NoList},
           \A h \in Groups \ {g} : /\ groupSecret'[h] = groupSecret[h] /\ groupCache'[h] = groupCache[h]
                                   /\ groupList' = NoList \/ groupList'[h] = groupSecret[h]
                                      \/ (groupList # NoList /\ groupList'[h] = groupList[h]),
           g \in tainted' \/ GroupAgrees(g)'
    PROVE  AccountInv'
<1>1. Moves(Boot, pc, call[Boot].ref, {}, {}) /\ Boot \in Everyone /\ Boot \notin Calls
  BY EnterMoves, BootReady
<1>2. AccountsTyped /\ RefsAreOwn /\ tainted \subseteq tainted'
  BY DEF AccountInv, HistoryStep
<1>3. ASSUME NEW h \in Groups, h \notin tainted', h # g
      PROVE  GroupAgrees(h)'
  <2>1. /\ GroupLeaving(h) => GroupLeaving(h)'
        /\ GroupChanging(h) => GroupChanging(h)'
        /\ GroupListing(h) => GroupListing(h)'
    BY <1>1, GroupFlowsStay
  <2>2. h \notin tainted
    BY <1>2, <1>3
  <2> QED
    BY <1>3, <2>1, <2>2, GroupStays
<1>4. \A h \in Groups : h \notin tainted' => GroupAgrees(h)'
  BY <1>3
<1>5. \A u \in Users : u \notin tainted' => UserAgrees(u)'
  BY <1>1, <1>2, UsersRest
<1>6. RefsStep
  BY <1>2, UsersStay DEF users
<1> QED
  BY <1>1, <1>2, <1>4, <1>5, <1>6, BootKeeps DEF AccountsTyped, users

\* A group that is missing is created; it was in no cache.
LEMMA CreateMissingKeeps ==
    ASSUME AccountInv, request \in Scripts, NEW outcome \in Outcomes, NEW g \in Groups,
           At("config") \/ At("sync"), CreateMissing(g, outcome),
           NEW pc \in {"config", "vcs", "sync", "exit"}, Enter(pc)
    PROVE  AccountInv'
<1> DEFINE names == IF outcome = "ok" THEN {} ELSE {g}
<1>1. /\ GroupView(g) = NoGroup
      /\ WriteGroup(g, ConfiguredGroup(g), outcome) \/ UNCHANGED groupSecret
      /\ groupList' = IF outcome = "ok" THEN NoList ELSE groupList
      /\ Taint(Boot, names) /\ UNCHANGED <<users, groupCache, request>>
  BY DEF CreateMissing
<1>2. /\ Boot \in Everyone /\ AccountsTyped /\ pc \in BootPlaces
      /\ call[Boot].pc # "exit" /\ call[Boot].puts = {} /\ call[Boot].drops = {}
  BY BootReady DEF At, PlacesAreRight, BootPlaces
<1>3. HistoryStep /\ (outcome # "ok" => g \in tainted')
  <2>1. names \in SUBSET (Users \union Groups)
    OBVIOUS
  <2>2. HistoryStep /\ tainted' = tainted \union names
    BY <1>1, <1>2, <2>1, RecordsKeep DEF Taint
  <2> QED
    BY <2>2
<1>4. ConfiguredGroup(g) \in Group
  BY AccountsAssumption DEF ConfiguredGroup, VCGroup, Group
<1>5. /\ groupSecret' \in [Groups -> Group \union {NoGroup}]
      /\ \A h \in Groups \ {g} : groupSecret'[h] = groupSecret[h]
  BY <1>1, <1>2, <1>4 DEF WriteGroup, AccountsTyped
<1>6. g \in tainted' \/ GroupAgrees(g)'
  <2>1. CASE outcome # "ok"
    BY <1>3, <2>1
  <2>2. CASE outcome = "ok"
    <3>1. groupCache'[g] = NoGroup /\ groupList' = NoList
      BY <1>1, <2>2 DEF GroupView
    <3> QED
      BY <3>1, GroupDroppedAgrees
  <2> QED
    BY <2>1, <2>2
<1>7. /\ groupCache' \in [Groups -> Group \union {NoGroup}]
      /\ groupList' \in [Groups -> Group \union {NoGroup}] \union {NoList}
      /\ \A h \in Groups \ {g} : /\ groupCache'[h] = groupCache[h]
                                 /\ groupList' = NoList \/ (groupList # NoList /\ groupList'[h] = groupList[h])
  BY <1>1, <1>2 DEF AccountsTyped
<1>8. UNCHANGED <<users, request>>
  BY <1>1
<1> QED
  BY <1>2, <1>3, <1>5, <1>6, <1>7, <1>8, BootChangesGroup

\* The start-up found all it looks for, and goes on.
LEMMA BootFindsKeep ==
    ASSUME AccountInv, request \in Scripts, NEW pc \in BootPlaces, Enter(pc),
           call[Boot].pc # "exit", call[Boot].puts = {}, call[Boot].drops = {},
           GroupStep, UNCHANGED <<users, request, history>>
    PROVE  AccountInv'
<1>1. RefsStep /\ CacheStep({}) /\ HistoryStep
  BY UsersStay, HistoryStays DEF AccountInv, users
<1> QED
  BY <1>1, BootReadsKeep DEF users

\* The groups of the configuration.
LEMMA InitGrouplistInCfgKeeps ==
    ASSUME AccountInv, request \in Scripts, NEW outcome \in Outcomes, InitGrouplistInCfg(outcome)
    PROVE  AccountInv'
<1>1. /\ At("config")
      /\ \/ \E g \in {AdminGroup, DefaultGroup}, pc \in {"config", "vcs"} :
                CreateMissing(g, outcome) /\ Enter(pc)
         \/ /\ ReadGroups({AdminGroup, DefaultGroup}) /\ Enter("vcs")
            /\ UNCHANGED <<users, request, history>>
  BY DEF InitGrouplistInCfg, After
<1>2. {AdminGroup, DefaultGroup} \subseteq Groups
  BY AccountsAssumption
<1>3. /\ AccountsTyped /\ call[Boot].pc # "exit" /\ call[Boot].puts = {} /\ call[Boot].drops = {}
  BY <1>1, BootReady DEF At, PlacesAreRight
<1>4. CASE \E g \in {AdminGroup, DefaultGroup}, pc \in {"config", "vcs"} :
               CreateMissing(g, outcome) /\ Enter(pc)
  BY <1>1, <1>2, <1>4, CreateMissingKeeps
<1>5. CASE /\ ReadGroups({AdminGroup, DefaultGroup}) /\ Enter("vcs")
           /\ UNCHANGED <<users, request, history>>
  BY <1>3, <1>5, GroupReads, BootFindsKeep DEF BootPlaces
<1> QED
  BY <1>1, <1>4, <1>5

\* The groups of the virtual clusters.
LEMMA CreateVCGroupsKeeps ==
    ASSUME AccountInv, request \in Scripts, NEW outcome \in Outcomes, CreateVCGroups(outcome)
    PROVE  AccountInv'
<1>1. /\ At("sync")
      /\ \/ \E g \in VCs, pc \in {"sync", "exit"} : CreateMissing(g, outcome) /\ Enter(pc)
         \/ ReadGroups(VCs) /\ Enter("purge") /\ UNCHANGED <<users, request, history>>
  BY DEF CreateVCGroups, After
<1>2. VCs \subseteq Groups
  BY AccountsAssumption
<1>3. /\ AccountsTyped /\ call[Boot].pc # "exit" /\ call[Boot].puts = {} /\ call[Boot].drops = {}
  BY <1>1, BootReady DEF At, PlacesAreRight
<1>4. CASE \E g \in VCs, pc \in {"sync", "exit"} : CreateMissing(g, outcome) /\ Enter(pc)
  BY <1>1, <1>2, <1>4, CreateMissingKeeps
<1>5. CASE ReadGroups(VCs) /\ Enter("purge") /\ UNCHANGED <<users, request, history>>
  BY <1>3, <1>5, GroupReads, BootFindsKeep DEF BootPlaces
<1> QED
  BY <1>1, <1>4, <1>5

\* Groups lose the virtual clusters that do not exist; a 404 means that the group of
\* the list is being deleted by a request.
LEMMA DeleteNonexistVCsKeeps ==
    ASSUME AccountInv, request \in Scripts, NEW outcome \in Outcomes, DeleteNonexistVCs(outcome)
    PROVE  AccountInv'
<1> DEFINE Checked(g) == [AllGroups[g] EXCEPT !.vcs = @ \intersect VCs]
           Names(g) == IF outcome = "ok" THEN {} ELSE {g}
           Done(g) == outcome = "ok" /\ groupSecret[g] # NoGroup
           Corrects(g) ==
               /\ Known(g) /\ ~(AllGroups[g].vcs \subseteq VCs)
               /\ IF groupSecret[g] # NoGroup THEN WriteGroup(g, Checked(g), outcome)
                                              ELSE UNCHANGED groupSecret
               /\ groupCache' = IF Done(g) THEN [groupCache EXCEPT ![g] = NoGroup] ELSE groupCache
               /\ groupList' = IF Done(g) THEN NoList ELSE [AllGroups EXCEPT ![g] = Checked(g)]
               /\ Enter(IF Done(g) THEN "vcs" ELSE AfterVCs)
               /\ Taint(Boot, Names(g))
<1>1. /\ At("vcs") /\ UNCHANGED <<users, request>>
      /\ \/ \E g \in Groups : Corrects(g)
         \/ ReadAllGroups /\ Enter(AfterVCs) /\ UNCHANGED history
  BY DEF DeleteNonexistVCs
<1>2. /\ AccountsTyped /\ PlacesAreRight /\ RefsAreOwn /\ Boot \in Everyone
      /\ call[Boot].pc # "exit" /\ call[Boot].puts = {} /\ call[Boot].drops = {}
      /\ AfterVCs \in BootPlaces
  BY <1>1, BootReady DEF At, PlacesAreRight, AfterVCs, BootPlaces
<1>3. ASSUME NEW g \in Groups, Corrects(g)
      PROVE  AccountInv'
  <2>1. HistoryStep /\ (outcome # "ok" => g \in tainted')
    <3>1. Names(g) \in SUBSET (Users \union Groups)
      OBVIOUS
    <3>2. HistoryStep /\ tainted' = tainted \union Names(g)
      BY <1>2, <1>3, <3>1, RecordsKeep DEF Taint
    <3> QED
      BY <3>2
  <2>2. AllGroups \in [Groups -> Group \union {NoGroup}] /\ AllGroups[g] \in Group /\ Checked(g) \in Group
    <3>1. AllGroups \in [Groups -> Group \union {NoGroup}] /\ AllGroups[g] # NoGroup
      BY <1>2, <1>3, ViewsAreTyped DEF Known
    <3>2. AllGroups[g] \in Group
      BY <3>1
    <3> QED
      BY <3>1, <3>2 DEF Group
  <2> HIDE DEF Checked, Names
  <2>3. /\ groupSecret' \in [Groups -> Group \union {NoGroup}]
        /\ \A h \in Groups \ {g} : groupSecret'[h] = groupSecret[h]
    BY <1>2, <1>3, <2>2 DEF WriteGroup, AccountsTyped
  <2>4. /\ groupCache' \in [Groups -> Group \union {NoGroup}]
        /\ \A h \in Groups \ {g} : groupCache'[h] = groupCache[h]
        /\ Done(g) => groupCache'[g] = NoGroup
    BY <1>2, <1>3 DEF AccountsTyped
  <2>5. groupList' \in [Groups -> Group \union {NoGroup}] \union {NoList}
    BY <1>3, <2>2
  <2>6. ASSUME NEW h \in Groups \ {g}
        PROVE  groupList' = NoList \/ groupList'[h] = groupSecret[h]
               \/ (groupList # NoList /\ groupList'[h] = groupList[h])
    <3>1. groupList' = NoList \/ groupList'[h] = AllGroups[h]
      BY <1>3, <2>2
    <3> QED
      BY <3>1 DEF AllGroups
  <2>7. PICK pc \in BootPlaces : Enter(pc)
    BY <1>2, <1>3 DEF BootPlaces
  <2>8. g \in tainted' \/ GroupAgrees(g)'
    <3>1. CASE outcome # "ok"
      BY <2>1, <3>1
    <3>2. CASE Done(g)
      BY <1>3, <2>4, <3>2, GroupDroppedAgrees
    <3>3. CASE outcome = "ok" /\ groupSecret[g] = NoGroup    \* a 404: the list is stale
      <4> SUFFICES ASSUME g \notin tainted'
                   PROVE  GroupAgrees(g)'
        OBVIOUS
      <4>1. GroupAgrees(g)
        BY <2>1, OneByOne DEF AccountInv, HistoryStep
      <4>2. GroupListing(g)
        BY <2>2, <3>3, <4>1, NothingIsNoGroup DEF GroupAgrees, AllGroups
      <4>3. /\ GroupLeaving(g) => GroupLeaving(g)'
            /\ GroupChanging(g) => GroupChanging(g)'
            /\ GroupListing(g) => GroupListing(g)'
        BY <1>1, <1>2, <2>7, EnterMoves, BootReady, GroupFlowsStay
      <4>4. UNCHANGED <<groupSecret, groupCache>>
        BY <1>3, <3>3
      <4> QED
        BY <4>1, <4>2, <4>3, <4>4 DEF GroupAgrees
    <3> QED
      BY <3>1, <3>2, <3>3
  <2> QED
    BY <1>1, <1>2, <2>1, <2>3, <2>4, <2>5, <2>6, <2>7, <2>8, BootChangesGroup
<1>4. CASE ReadAllGroups /\ Enter(AfterVCs) /\ UNCHANGED history
  BY <1>1, <1>2, <1>4, GroupReads, BootFindsKeep
<1> QED
  BY <1>1, <1>3, <1>4

\* The administrator is created unless it exists.
LEMMA CreateDefaultAdminUserKeeps ==
    ASSUME AccountInv, request \in Scripts, NEW outcome \in Outcomes, CreateDefaultAdminUser(outcome)
    PROVE  AccountInv'
<1> DEFINE names == IF outcome = "ok" THEN {} ELSE {AdminUser}
           new == NewUser({DefaultGroup, AdminGroup})
<1>1. /\ At("admin") /\ Enter("sync") /\ Taint(Boot, names) /\ UNCHANGED <<groups, request>>
      /\ \/ /\ UserView(AdminUser) # NoUser /\ ReadUser(AdminUser)
            /\ UNCHANGED <<userSecret, userList>>
         \/ /\ UserView(AdminUser) = NoUser
            /\ userSecret' = IF outcome = "refused" THEN userSecret
                             ELSE [userSecret EXCEPT ![AdminUser] = new]
            /\ userList' = IF outcome = "ok" THEN NoList ELSE userList
            /\ UNCHANGED <<objects, userCache>>
  BY DEF CreateDefaultAdminUser
<1>2. /\ AccountsTyped /\ PlacesAreRight /\ RefsAreOwn /\ Boot \in Everyone /\ Boot \notin Calls
      /\ call[Boot].pc # "exit" /\ call[Boot].puts = {} /\ call[Boot].drops = {}
      /\ AdminUser \in Users /\ "sync" \in BootPlaces
  BY <1>1, BootReady, AccountsAssumption DEF At, PlacesAreRight, BootPlaces
<1>3. HistoryStep /\ (outcome # "ok" => AdminUser \in tainted')
  <2>1. names \in SUBSET (Users \union Groups)
    BY <1>2
  <2>2. HistoryStep /\ tainted' = tainted \union names
    BY <1>1, <1>2, <2>1, RecordsKeep DEF Taint
  <2> QED
    BY <2>2
<1>4. CASE /\ UserView(AdminUser) # NoUser /\ ReadUser(AdminUser)
           /\ UNCHANGED <<userSecret, userList>>
  <2>1. RefsStep /\ CacheStep({})
    BY <1>2, <1>4, ReadUserStep
  <2>2. GroupStep
    BY <1>1, <1>2, GroupReads
  <2> QED
    BY <1>1, <1>2, <1>3, <1>4, <2>1, <2>2, BootReadsKeep
<1>5. CASE /\ UserView(AdminUser) = NoUser
           /\ userSecret' = IF outcome = "refused" THEN userSecret
                            ELSE [userSecret EXCEPT ![AdminUser] = new]
           /\ userList' = IF outcome = "ok" THEN NoList ELSE userList
           /\ UNCHANGED <<objects, userCache>>
  <2>1. userCache[AdminUser] = NoRef
    BY <1>2, <1>5, NobodyIsNoUser DEF UserView, RefsAreOwn
  <2>2. new \in User
    <3>1. {DefaultGroup, AdminGroup} \in SUBSET Groups
      BY AccountsAssumption
    <3> QED
      BY <3>1, NewUserIsUser
  <2> HIDE DEF new
  <2>3. /\ userSecret' \in [Users -> User \union {NoUser}]
        /\ \A v \in Users \ {AdminUser} : userSecret'[v] = userSecret[v]
    BY <1>2, <1>5, <2>2 DEF AccountsTyped
  <2>4. Moves(Boot, "sync", call[Boot].ref, {}, {})
    BY <1>1, <1>2, EnterMoves
  <2>5. RefsStep
    BY <1>2, <1>5, UsersStay
  <2>6. \A g \in Groups : g \notin tainted' => GroupAgrees(g)'
    BY <1>1, <1>2, <1>3, <2>4, GroupsRest DEF HistoryStep
  <2>7. ASSUME NEW u \in Users, u \notin tainted'
        PROVE  UserAgrees(u)'
    <3>1. CASE u = AdminUser
      <4>1. userCache'[u] = NoRef /\ userList' = NoList
        BY <1>3, <1>5, <2>1, <2>7, <3>1
      <4> QED
        BY <4>1, DroppedAgrees
    <3>2. CASE u # AdminUser
      <4>1. /\ Leaving(u) => Leaving(u)'
            /\ Changing(u) => Changing(u)'
            /\ Listing(u) => Listing(u)'
        BY <1>1, <1>2, <2>4, FlowsStay
      <4>2. UserAgrees(u)
        BY <1>3, <2>7, OneByOne DEF AccountInv, HistoryStep
      <4>3. userSecret'[u] = userSecret[u] /\ userList' \in {NoList, userList}
        BY <1>5, <2>3, <3>2
      <4> QED
        BY <1>5, <4>1, <4>2, <4>3 DEF UserAgrees
    <3> QED
      BY <3>1, <3>2
  <2>8. userList' \in [Users -> User \union {NoUser}] \union {NoList}
    BY <1>2, <1>5 DEF AccountsTyped
  <2>9. UNCHANGED <<groupSecret, groupCache, groupList, request>>
    BY <1>1 DEF groups
  <2> QED
    BY <1>2, <1>3, <2>3, <2>4, <2>5, <2>6, <2>7, <2>8, <2>9, BootKeeps DEF AccountsTyped
<1> QED
  BY <1>1, <1>4, <1>5

\* Groups without a virtual cluster are deleted, and their members saved without them.
LEMMA PurgeGroupsKeeps ==
    ASSUME AccountInv, request \in Scripts, NEW outcome \in Outcomes, PurgeGroups(outcome)
    PROVE  AccountInv'
<1>1. /\ At("purge") /\ UNCHANGED <<userSecret, objects, userCache, request, history>>
      /\ \/ \E g \in Groups :
                /\ WriteGroup(g, NoGroup, outcome)
                /\ \/ /\ outcome = "ok" /\ groupCache' = [groupCache EXCEPT ![g] = NoGroup]
                      /\ groupList' = NoList /\ SaveWithout(Boot, Members(g), {g}, "purge")
                   \/ UNCHANGED <<groupCache, groupList, userList>> /\ Enter("exit")
         \/ /\ call[Boot].puts = {} /\ call[Boot].drops = {} /\ ReadAllGroups
            /\ Enter("repair") /\ UNCHANGED userList
  BY DEF PurgeGroups
<1>2. /\ AccountsTyped /\ PlacesAreRight /\ RefsAreOwn /\ Boot \in Everyone /\ Boot \notin Calls
      /\ call[Boot].pc # "exit" /\ "purge" \in BootPlaces /\ "exit" \in BootPlaces
      /\ "repair" \in BootPlaces /\ "purge" \in Places
  BY <1>1, BootReady DEF At, BootPlaces, Places
<1>3. RefsStep /\ CacheStep({}) /\ HistoryStep /\ UNCHANGED <<userSecret, request>>
  BY <1>1, <1>2, UsersStay, HistoryStays
<1>4. ASSUME NEW g \in Groups, WriteGroup(g, NoGroup, outcome), outcome = "ok",
             groupCache' = [groupCache EXCEPT ![g] = NoGroup], groupList' = NoList,
             SaveWithout(Boot, Members(g), {g}, "purge")
      PROVE  AccountInv'
  <2> DEFINE us == Members(g)
  <2>1. us \in SUBSET Users /\ \A u \in us : AllUsers[u] # NoUser
    BY DEF Members
  <2>2. SaveWithout(Boot, us, {g}, "purge")
    BY <1>4
  <2> HIDE DEF us
  <2>3. /\ Moves(Boot, "purge", call[Boot].ref, call[Boot].puts \union PutsOf(us, {g}), call[Boot].drops)
        /\ userList' \in [Users -> User \union {NoUser}]
    BY <1>2, <2>1, <2>2, SaveWithoutMoves
  <2>4. \A u \in Users : u \notin tainted' => UserAgrees(u)'
    BY <1>1, <1>2, <1>3, <2>1, <2>2, SaveWithoutAgrees DEF HistoryStep
  <2>5. /\ groupSecret' \in [Groups -> Group \union {NoGroup}]
        /\ groupCache' \in [Groups -> Group \union {NoGroup}]
        /\ groupCache'[g] = NoGroup
        /\ \A h \in Groups \ {g} : groupSecret'[h] = groupSecret[h] /\ groupCache'[h] = groupCache[h]
    BY <1>2, <1>4 DEF WriteGroup, AccountsTyped
  <2>6. ASSUME NEW h \in Groups, h \notin tainted'
        PROVE  GroupAgrees(h)'
    <3>1. CASE h = g
      BY <1>4, <2>5, <3>1, GroupDroppedAgrees
    <3>2. CASE h # g
      <4>1. /\ GroupLeaving(h) => GroupLeaving(h)'
            /\ GroupChanging(h) => GroupChanging(h)'
            /\ GroupListing(h) => GroupListing(h)'
        BY <1>1, <1>2, <2>3, GroupFlowsStay
      <4>2. h \notin tainted
        BY <1>3, <2>6 DEF HistoryStep
      <4> QED
        BY <1>4, <2>5, <3>2, <4>1, <4>2, GroupStays
    <3> QED
      BY <3>1, <3>2
  <2> QED
    BY <1>2, <1>3, <1>4, <2>3, <2>4, <2>5, <2>6, BootKeeps DEF AccountsTyped
<1>5. ASSUME NEW g \in Groups, WriteGroup(g, NoGroup, outcome),
             UNCHANGED <<groupCache, groupList, userList>>, Enter("exit")
      PROVE  AccountInv'
  <2>1. groupSecret' \in [Groups -> Group \union {NoGroup}]
    BY <1>2, <1>5 DEF WriteGroup, AccountsTyped
  <2>2. Moves(Boot, "exit", call[Boot].ref, call[Boot].puts, call[Boot].drops)
    BY <1>2, <1>5, EnterMoves
  <2> QED
    BY <1>2, <1>3, <1>5, <2>1, <2>2, BootKeeps DEF AccountsTyped
<1>6. CASE /\ call[Boot].puts = {} /\ call[Boot].drops = {} /\ ReadAllGroups
           /\ Enter("repair") /\ UNCHANGED userList
  <2>1. GroupStep
    BY <1>2, <1>6, GroupReads
  <2> QED
    BY <1>2, <1>3, <1>6, <2>1, BootReadsKeep
<1> QED
  BY <1>1, <1>4, <1>5, <1>6

\* Users lose the groups that do not exist.
LEMMA DeleteInexistGroupFromUserlistKeeps ==
    ASSUME AccountInv, request \in Scripts, DeleteInexistGroupFromUserlist
    PROVE  AccountInv'
<1> DEFINE gone == {g \in Groups : ~Known(g)}
           us == UNION {Members(g) : g \in gone}
<1>1. /\ At("repair") /\ ReadAllGroups /\ SaveWithout(Boot, us, gone, "save")
      /\ UNCHANGED <<userSecret, objects, userCache, request, history>>
  BY DEF DeleteInexistGroupFromUserlist
<1>2. us \in SUBSET Users /\ \A u \in us : AllUsers[u] # NoUser
  BY DEF Members
<1> HIDE DEF gone, us
<1>3. /\ AccountsTyped /\ PlacesAreRight /\ RefsAreOwn /\ Boot \in Everyone /\ Boot \notin Calls
      /\ call[Boot].pc # "exit" /\ "save" \in BootPlaces /\ "save" \in Places
  BY <1>1, BootReady DEF At, BootPlaces, Places
<1>4. RefsStep /\ HistoryStep /\ GroupStep
  BY <1>1, <1>3, UsersStay, HistoryStays, GroupReads
<1>5. /\ Moves(Boot, "save", call[Boot].ref, call[Boot].puts \union PutsOf(us, gone), call[Boot].drops)
      /\ userList' \in [Users -> User \union {NoUser}]
  BY <1>1, <1>2, <1>3, SaveWithoutMoves
<1>6. \A u \in Users : u \notin tainted' => UserAgrees(u)'
  BY <1>1, <1>2, <1>3, <1>4, SaveWithoutAgrees DEF HistoryStep
<1>7. \A g \in Groups : g \notin tainted' => GroupAgrees(g)'
  BY <1>1, <1>3, <1>4, <1>5, GroupsRead DEF HistoryStep
<1>8. groupList' \in [Groups -> Group \union {NoGroup}] \union {NoList}
  BY <1>3, <1>4, ViewsAreTyped DEF GroupStep, AccountsTyped
<1>9. UNCHANGED <<userSecret, groupSecret, request>> /\ groupCache' \in [Groups -> Group \union {NoGroup}]
  BY <1>1, <1>4 DEF GroupStep
<1> QED
  BY <1>3, <1>4, <1>5, <1>6, <1>7, <1>8, <1>9, BootKeeps DEF AccountsTyped

-----------------------------------------------------------------------------
(***************************************************************************)
(* The process ends and starts again; the tokens answer; the first state.  *)
(***************************************************************************)
\* Nothing is left in the caches, and every request under way is over.
LEMMA RestartedKeeps ==
    ASSUME AccountInv, request \in Scripts, Restarted
    PROVE  AccountInv'
<1>1. AccountsTyped /\ PlacesAreRight /\ Boot \notin Calls
  BY BootReady
<1>2. /\ call' = [c \in Everyone |->
                    IF c = Boot THEN Fresh("config") ELSE IF Running(c) THEN Fresh("end") ELSE call[c]]
      /\ objects' = [r \in Refs |-> NoUser]
      /\ userCache' = [u \in Users |-> NoRef] /\ userList' = NoList
      /\ groupCache' = [g \in Groups |-> NoGroup] /\ groupList' = NoList
      /\ tainted' = {} /\ mixed' = FALSE
      /\ orphans' = orphans \union {request[c].group : c \in {c \in Calls : Running(c) /\ Deletes(c)}}
      /\ UNCHANGED <<userSecret, groupSecret, request>>
  BY DEF Restarted, Everyone
<1>3. Fresh("config") \in Call /\ Fresh("end") \in Call
  BY DEF Fresh, Call, Places, BootPlaces
<1>4. call' \in [Everyone -> Call]
  BY <1>1, <1>2, <1>3 DEF AccountsTyped
<1>5. orphans' \subseteq Groups
  <2>1. \A c \in Calls : Deletes(c) => request[c].group \in Groups
    BY RequestIsTyped DEF Deletes
  <2> QED
    BY <1>1, <1>2, <2>1 DEF AccountsTyped
<1>6. AccountsTyped'
  BY <1>1, <1>2, <1>4, <1>5 DEF AccountsTyped
<1>7. \A c \in Calls : \/ call'[c] = Fresh("end") /\ "end" \in PlacesOf(request[c].op)
                       \/ call'[c] = call[c] /\ call[c].pc \in {"new", "end"}
  <2> SUFFICES ASSUME NEW c \in Calls
               PROVE  \/ call'[c] = Fresh("end") /\ "end" \in PlacesOf(request[c].op)
                      \/ call'[c] = call[c] /\ call[c].pc \in {"new", "end"}
    OBVIOUS
  <2>1. call[c].pc \in PlacesOf(request[c].op)
    BY <1>1 DEF PlacesAreRight
  <2>2. CASE Running(c)
    <3>1. call'[c] = Fresh("end")
      BY <1>1, <1>2, <2>2 DEF Everyone
    <3>2. "end" \in PlacesOf(request[c].op)
      BY <2>1, <2>2 DEF Running, PlacesOf
    <3> QED
      BY <3>1, <3>2
  <2>3. CASE ~Running(c)
    <3>1. call[c].pc \in {"new", "end", "up"}
      BY <2>3 DEF Running
    <3>2. call[c].pc # "up"
      BY <2>1 DEF PlacesOf
    <3> QED
      BY <1>1, <1>2, <2>3, <3>1, <3>2 DEF Everyone
  <2> QED
    BY <2>2, <2>3
<1>8. call'[Boot] = Fresh("config")
  BY <1>2 DEF Everyone
<1>9. PlacesAreRight'
  <2>1. ASSUME NEW c \in Calls
        PROVE  /\ call'[c].pc \in PlacesOf(request'[c].op)
               /\ call'[c].puts = {} /\ call'[c].drops = {}
    <3>0. UNCHANGED request
      BY <1>2
    <3>1. CASE call'[c] = Fresh("end") /\ "end" \in PlacesOf(request[c].op)
      BY <3>0, <3>1 DEF Fresh
    <3>2. CASE call'[c] = call[c] /\ call[c].pc \in {"new", "end"}
      BY <1>1, <3>0, <3>2 DEF PlacesAreRight
    <3> QED
      BY <1>7, <3>1, <3>2
  <2>2. call'[Boot].pc \in BootPlaces /\ call'[Boot].puts = {} /\ call'[Boot].drops = {}
    BY <1>8 DEF Fresh, BootPlaces
  <2> QED
    BY <2>1, <2>2 DEF PlacesAreRight
<1>10. RefsAreOwn'
  <2>1. \A c \in Calls : call'[c].ref = NoRef /\ call'[c].pc \in {"new", "end"}
    BY <1>7 DEF Fresh, AccountInv, RefsAreOwn
  <2> QED
    BY <1>2, <2>1 DEF RefsAreOwn, Has
<1>11. \A u \in Users : u \notin tainted' => UserAgrees(u)'
  BY <1>2, DroppedAgrees
<1>12. \A g \in Groups : g \notin tainted' => GroupAgrees(g)'
  BY <1>2, GroupDroppedAgrees
<1> QED
  BY <1>6, <1>9, <1>10, <1>11, <1>12, InvFromParts

\* A handler whose token operation ends answers.
LEMMA TokenAnswerKeeps ==
    ASSUME AccountInv, request \in Scripts, NEW c \in Calls, call[c].pc \in {"token", "revoke"},
           Answer(c), UNCHANGED <<users, groups, request, history>>
    PROVE  AccountInv'
<1>1. AccountsTyped /\ PlacesAreRight /\ c \in Everyone /\ c # Boot
  BY AccountsAssumption DEF AccountInv, Everyone
<1>2. call[c].puts = {} /\ call[c].drops = {} /\ "end" \in PlacesOf(request[c].op)
  BY <1>1 DEF PlacesAreRight, PlacesOf
<1>3. Moves(c, "end", NoRef, {}, {})
  BY <1>1, AnswerMoves
<1>4. RefsStep /\ HistoryStep
  BY <1>1, UsersStay, HistoryStays DEF AccountInv, users
<1>5. AccountsTyped'
  BY <1>1, <1>3, <1>4, TypesKept DEF AccountsTyped, users, groups, Moves
<1>6. PlacesAreRight' /\ RefsAreOwn'
  BY <1>1, <1>2, <1>3, <1>4, MovesTyped DEF Midway
<1>7. \A g \in Groups : g \notin tainted' => GroupAgrees(g)'
  BY <1>1, <1>3, <1>4, GroupsRest DEF HistoryStep
<1>8. \A u \in Users : u \notin tainted' => UserAgrees(u)'
  BY <1>1, <1>2, <1>3, <1>4, UsersRest DEF HistoryStep, Midway
<1> QED
  BY <1>5, <1>6, <1>7, <1>8, InvFromParts

\* Every step of a request or of the start-up.
LEMMA AccountStepKeeps ==
    ASSUME AccountInv, request \in Scripts, Step
    PROVE  AccountInv'
<1>1. ASSUME NEW c \in Calls, Handler(c)
      PROVE  AccountInv'
  BY <1>1, FetchUserKeeps, NoSuchUserKeeps, CheckGroupKeeps, CheckVCsKeeps, CheckAdminKeeps,
     GetUserKeeps, SetEmailKeeps, SetGroupsKeeps, AddGroupKeeps, RemoveGroupKeeps,
     SetPasswordKeeps, SignInKeeps, SetVCsKeeps, SetAdminKeeps, UpdateEmailKeeps,
     UpdateVCsKeeps, UpdateRestKeeps, UpdateSelfKeeps, CreatedKeeps, LoginKeeps, ListUsersKeeps,
     ReadForUpdateKeeps, DropGroupKeeps, RemoveMembersKeeps DEF Handler
<1>2. ASSUME NEW c \in Calls, NEW o \in Outcomes,
             DeleteUser(c, o) \/ CreateUser(c, o) \/ ChangeGroup(c, o)
      PROVE  AccountInv'
  BY <1>2, DeleteUserKeeps, CreateUserKeeps, ChangeGroupKeeps
<1>3. ASSUME NEW c \in Everyone,
             \/ Finish(c)
             \/ \E u \in call[c].drops : DropUser(c, u)
             \/ \E p \in call[c].puts, o \in Outcomes : PutUser(c, p, o)
      PROVE  AccountInv'
  BY <1>3, FinishKeeps, DropUserKeeps, PutUserKeeps
<1>4. ASSUME NEW o \in Outcomes,
             \/ InitGrouplistInCfg(o) \/ DeleteNonexistVCs(o) \/ CreateDefaultAdminUser(o)
             \/ CreateVCGroups(o) \/ PurgeGroups(o)
      PROVE  AccountInv'
  BY <1>4, InitGrouplistInCfgKeeps, DeleteNonexistVCsKeeps, CreateDefaultAdminUserKeeps,
     CreateVCGroupsKeeps, PurgeGroupsKeeps
<1> QED
  BY <1>1, <1>2, <1>3, <1>4, DeleteInexistGroupFromUserlistKeeps DEF Step, Everyone

\* A step that changes nothing of the users and the groups.
LEMMA AccountsStayKeep ==
    ASSUME AccountInv, UNCHANGED vars
    PROVE  AccountInv'
<1>1. UNCHANGED <<userSecret, groupSecret, objects, userCache, userList, groupCache, groupList,
                  request, call, tainted, orphans, mixed>>
  BY DEF vars, users, groups, history
<1>2. AccountsTyped' /\ PlacesAreRight' /\ RefsAreOwn'
  BY <1>1 DEF AccountInv, AccountsTyped, PlacesAreRight, RefsAreOwn, Has
<1>3. \A u : /\ Leaving(u)' <=> Leaving(u)
             /\ Changing(u)' <=> Changing(u)
             /\ Listing(u)' <=> Listing(u)
  BY <1>1 DEF Leaving, Changing, Listing, Saving
<1>4. \A g : /\ GroupLeaving(g)' <=> GroupLeaving(g)
             /\ GroupChanging(g)' <=> GroupChanging(g)
             /\ GroupListing(g)' <=> GroupListing(g)
  BY <1>1 DEF GroupLeaving, GroupChanging, GroupListing
<1>5. \A u \in Users : u \notin tainted' => UserAgrees(u)'
  BY <1>1, <1>3, OneByOne DEF AccountInv, UserAgrees
<1>6. \A g \in Groups : g \notin tainted' => GroupAgrees(g)'
  BY <1>1, <1>4, OneByOne DEF AccountInv, GroupAgrees
<1> QED
  BY <1>2, <1>5, <1>6, InvFromParts

\* The first states satisfy the invariant: nothing is cached.
LEMMA AccountInit ==
    ASSUME Init
    PROVE  AccountInv
<1>1. /\ groupSecret = [g \in Groups |->
             IF g \in VCs \union {AdminGroup} THEN ConfiguredGroup(g) ELSE NoGroup]
      /\ userSecret = [u \in Users |->
             CASE u = AdminUser   -> NewUser(VCs \union {AdminGroup})
               [] u \in Registered -> NewUser(VCs)
               [] OTHER           -> NoUser]
      /\ objects = [r \in Refs |-> NoUser]
      /\ userCache = [u \in Users |-> NoRef] /\ userList = NoList
      /\ groupCache = [g \in Groups |-> NoGroup] /\ groupList = NoList
      /\ call = [c \in Everyone |-> Fresh(IF c = Boot THEN "up" ELSE "new")]
      /\ tainted = {} /\ orphans = {} /\ mixed = FALSE
  BY DEF Init, Everyone
<1>2. NewUser(VCs \union {AdminGroup}) \in User /\ NewUser(VCs) \in User
  <2>1. VCs \union {AdminGroup} \in SUBSET Groups /\ VCs \in SUBSET Groups
    BY AccountsAssumption
  <2> QED
    BY <2>1, NewUserIsUser
<1>3. \A g \in Groups : ConfiguredGroup(g) \in Group
  BY AccountsAssumption DEF ConfiguredGroup, VCGroup, Group
<1>4. userSecret \in [Users -> User \union {NoUser}] /\ groupSecret \in [Groups -> Group \union {NoGroup}]
  BY <1>1, <1>2, <1>3
<1>5. Fresh("up") \in Call /\ Fresh("new") \in Call
  BY DEF Fresh, Call, Places, BootPlaces
<1>6. AccountsTyped
  BY <1>1, <1>4, <1>5 DEF AccountsTyped
<1>7. (\A c \in Calls : call[c] = Fresh("new")) /\ call[Boot] = Fresh("up")
  BY <1>1, AccountsAssumption DEF Everyone
<1>8. \A op : "new" \in PlacesOf(op)
  BY DEF PlacesOf
<1>9. PlacesAreRight /\ RefsAreOwn
  <2>1. \A c \in Calls : /\ call[c].pc = "new" /\ call[c].ref = NoRef
                         /\ call[c].puts = {} /\ call[c].drops = {}
    BY <1>7 DEF Fresh
  <2>2. call[Boot].pc = "up" /\ call[Boot].puts = {} /\ call[Boot].drops = {}
    BY <1>7 DEF Fresh
  <2>3. PlacesAreRight
    BY <1>8, <2>1, <2>2 DEF PlacesAreRight, BootPlaces
  <2>4. \A u \in Users : userCache[u] = NoRef
    BY <1>1
  <2> QED
    BY <2>1, <2>3, <2>4 DEF RefsAreOwn, Has
<1>10. UsersAgree /\ ListAgrees /\ GoneUsers /\ GroupsAgree /\ GoneGroups
  BY <1>1 DEF UsersAgree, ListAgrees, GoneUsers, GroupsAgree, GoneGroups
<1> QED
  BY <1>6, <1>9, <1>10 DEF AccountInv

-----------------------------------------------------------------------------
(***************************************************************************)
(* What the invariant says.                                                *)
(***************************************************************************)
LEMMA AccountTypes ==
    ASSUME AccountInv
    PROVE  TypeOK
<1>1. AccountsTyped /\ RefsAreOwn
  BY DEF AccountInv
<1>2. \A c \in Everyone : /\ call[c].ref \in Refs \union {NoRef}
                          /\ call[c].puts \subseteq [user : Users, value : User]
                          /\ call[c].drops \subseteq Users
  BY <1>1 DEF AccountsTyped, Call
<1>3. \A u \in Users : userCache[u] # NoRef => objects[userCache[u]] # NoUser
  BY <1>1, NobodyIsNoUser DEF RefsAreOwn
<1> QED
  BY <1>1, <1>2, <1>3 DEF TypeOK, AccountsTyped, Everyone

\* No flow is left once no call is under way, so that the caches agree.
LEMMA CachesAgree ==
    ASSUME AccountInv
    PROVE  CacheAgreesWithSecrets
<1> SUFFICES ASSUME Quiet
             PROVE  CacheAgreesWithSecrets
  BY DEF CacheAgreesWithSecrets
<1>1. PlacesAreRight
  BY DEF AccountInv
<1>2. \A c \in Calls : call[c].pc \in {"new", "end"} /\ call[c].puts = {} /\ call[c].drops = {}
  <2> SUFFICES ASSUME NEW c \in Calls
               PROVE  call[c].pc \in {"new", "end"} /\ call[c].puts = {} /\ call[c].drops = {}
    OBVIOUS
  <2>1. call[c].pc \in {"new", "end", "up"} /\ call[c].pc \in PlacesOf(request[c].op)
    BY <1>1 DEF Quiet, Running, PlacesAreRight
  <2>2. call[c].pc # "up"
    BY <2>1 DEF PlacesOf
  <2> QED
    BY <1>1, <2>1, <2>2 DEF PlacesAreRight
<1>3. call[Boot].pc = "up" /\ call[Boot].puts = {} /\ call[Boot].drops = {}
  BY <1>1 DEF Quiet, Running, PlacesAreRight, BootPlaces
<1>4. \A u : ~Leaving(u) /\ ~Changing(u) /\ ~Listing(u)
  BY <1>2, <1>3 DEF Leaving, Changing, Listing, Saving, Everyone
<1>5. \A g : ~GroupLeaving(g) /\ ~GroupChanging(g) /\ ~GroupListing(g)
  BY <1>2, <1>3 DEF GroupLeaving, GroupChanging, GroupListing
<1> QED
  BY <1>4, <1>5 DEF AccountInv, CacheAgreesWithSecrets, UsersAgree, ListAgrees, GroupsAgree

=============================================================================
