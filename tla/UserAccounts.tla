---------------------------- MODULE UserAccounts ----------------------------
(***************************************************************************)
(* Users and groups of rest-server: the request handlers of                *)
(* controllers/v2/user.js and group.js, the models they call and the two   *)
(* stores utils/manager/{user,group}/crudK8sSecret.js, which keep one      *)
(* Kubernetes Secret for each user and each group behind a cache of the    *)
(* process.                                                                *)
(*                                                                         *)
(* A handler is cut into steps at the calls of the API server and at the   *)
(* awaits between which another handler can run.  A cached user is a       *)
(* JavaScript object: handlers that read it share it and change it in      *)
(* place before they save it.  A fetch (GET and cache.set) is one step:    *)
(* both happen under the mutex that a cache.delete needs as well, so       *)
(* nothing but other readers, which wait for it, can come between.         *)
(* Left out: history_vclist (it only adds awaits before a PUT, and the     *)
(* model has one there), storage ACLs, and reads that fail.                *)
(***************************************************************************)
EXTENDS Naturals, FiniteSets

CONSTANTS
    Users,          \* user names
    AdminUser,      \* secretConfig.adminName
    Groups,         \* group names
    AdminGroup,     \* the admin group of the group configuration
    DefaultGroup,   \* the group of the virtual cluster "default"
    VCs,            \* virtual clusters of the scheduler; each has a group of its name
    Emails,         \* values of the fields a user changes freely: e-mail, extension
    Texts,          \* passwords as users type them
    Registered,     \* users that exist at first
    Calls,          \* concurrent requests
    Boot,           \* the initialization at start-up, which runs like a call
    Scripts,        \* the environments to explore: a request for each call
    Refs,           \* references of user objects
    Budgets         \* bounds: API calls that fail and restarts of the process

Hash(t)  == [form |-> "hash", text |-> t]
Plain(t) == [form |-> "plain", text |-> t]
Erased   == [form |-> "empty", text |-> "none"]

Passwords == {Hash(t) : t \in Texts} \union {Plain(t) : t \in Texts} \union {Erased}
User      == [email : Emails, groups : SUBSET Groups, password : Passwords]
Group     == [admin : BOOLEAN, vcs : SUBSET Groups]
NoUser    == [user |-> "none"]
NoGroup   == [group |-> "none"]
NoList    == <<>>
NoRef     == "no reference"

ASSUME AccountsAssumption ==
    /\ {AdminGroup, DefaultGroup} \union VCs \subseteq Groups
    /\ DefaultGroup \in VCs /\ AdminGroup \notin VCs
    /\ {AdminUser} \union Registered \subseteq Users
    /\ Boot \notin Calls /\ NoRef \notin Refs
    /\ IsFiniteSet(Users) /\ IsFiniteSet(Calls) /\ IsFiniteSet(Refs)
    /\ Cardinality(Refs) >= Cardinality(Users) + Cardinality(Calls)
    /\ Emails # {} /\ Texts # {}
    /\ Budgets \subseteq [fail : Nat, restart : Nat]

\* What the handlers get is what the schemas of the API let through.
ASSUME RequestsAssumption == \A s \in Scripts, c \in Calls :
    LET r == s[c] IN
    /\ r.op \in {"get", "email", "setGroups", "addGroup", "removeGroup", "password", "admin",
                 "setVCs", "delete", "create", "update", "self", "login", "signIn"} => r.user \in Users
    /\ r.op \in {"email", "update", "self"} => r.email \in Emails
    /\ r.op \in {"password", "update", "self"} => r.new \in Texts
    /\ r.op \in {"setGroups", "login"} => r.groups \subseteq Groups
    /\ r.op \in {"setVCs", "create", "update"} => r.vcs \subseteq Groups
    /\ r.op \in {"addGroup", "removeGroup", "createGroup", "updateGroup", "deleteGroup"}
           => r.group \in Groups
    /\ r.op \in {"createGroup", "updateGroup"} => r.value \in Group

VARIABLES
    userSecret,     \* the secrets of the users
    groupSecret,    \* the secrets of the groups
    objects,        \* the user objects of the process
    userCache,      \* the object cached for each user
    userList,       \* the list cached under 'allUsers'
    groupCache,     \* the value cached for each group
    groupList,      \* the list cached under 'allGroups'
    request,        \* the request each call serves
    call,           \* where each call is
    tainted,        \* history: users and groups a failed call has changed in memory only
    orphans,        \* history: groups whose deletion overlapped another call, or failed
    mixed,          \* history: a call has run during the last start-up
    budget          \* what is left of the bounds

users   == <<userSecret, objects, userCache, userList>>
groups  == <<groupSecret, groupCache, groupList>>
history == <<tainted, orphans, mixed>>
vars    == <<users, groups, request, call, history, budget>>

\* A call: the object it holds, the PUTs it still waits for and the users whose
\* cache entries it has still to delete.
Fresh(pc) == [pc |-> pc, ref |-> NoRef, puts |-> {}, drops |-> {}]

VCGroup(g) == [admin |-> FALSE, vcs |-> {g}]

ConfiguredGroup(g) == IF g = AdminGroup THEN [admin |-> TRUE, vcs |-> VCs] ELSE VCGroup(g)

NewUser(gs) == [email |-> CHOOSE e \in Emails : TRUE, groups |-> gs,
                password |-> Hash(CHOOSE t \in Texts : TRUE)]

Init ==
    /\ groupSecret = [g \in Groups |->
           IF g \in VCs \union {AdminGroup} THEN ConfiguredGroup(g) ELSE NoGroup]
    /\ userSecret = [u \in Users |->
           CASE u = AdminUser   -> NewUser(VCs \union {AdminGroup})
             [] u \in Registered -> NewUser(VCs)
             [] OTHER           -> NoUser]
    /\ objects = [r \in Refs |-> NoUser]
    /\ userCache = [u \in Users |-> NoRef] /\ userList = NoList
    /\ groupCache = [g \in Groups |-> NoGroup] /\ groupList = NoList
    /\ request \in Scripts
    /\ call = [c \in Calls \union {Boot} |-> Fresh(IF c = Boot THEN "up" ELSE "new")]
    /\ tainted = {} /\ orphans = {} /\ mixed = FALSE
    /\ budget \in Budgets

(***************************************************************************)
(* Reading.                                                                *)
(***************************************************************************)
Spare == CHOOSE r \in Refs :
             r \notin {userCache[u] : u \in Users} \union {call[c].ref : c \in Calls}

UserView(u) == IF userCache[u] = NoRef THEN userSecret[u] ELSE objects[userCache[u]]

\* crudUser.read of a user that exists: afterwards the cache holds its object.
ReadUser(u) ==
    IF userCache[u] # NoRef THEN UNCHANGED <<objects, userCache>>
    ELSE /\ objects' = [objects EXCEPT ![Spare] = userSecret[u]]
         /\ userCache' = [userCache EXCEPT ![u] = Spare]

AllUsers == IF userList = NoList THEN userSecret ELSE userList

GroupView(g) == IF groupCache[g] = NoGroup THEN groupSecret[g] ELSE groupCache[g]

\* getListGroup: the groups that exist are cached, one that does not is a 404.
ReadGroups(gs) ==
    /\ groupCache' = [g \in Groups |-> IF g \in gs THEN GroupView(g) ELSE groupCache[g]]
    /\ UNCHANGED <<groupSecret, groupList>>

Found(gs) == \A g \in gs : GroupView(g) # NoGroup

AllGroups == IF groupList = NoList THEN groupSecret ELSE groupList

ReadAllGroups ==
    /\ groupList' = AllGroups
    /\ UNCHANGED <<groupSecret, groupCache>>

HasAdmin(gs) == \E g \in gs : GroupView(g).admin

Existing(gs) == {g \in gs : AllGroups[g] # NoGroup}

\* virtualCluster2GroupList keeps the groups that stand for just their own VC.
IsVCGroup(g) == GroupView(g).vcs = {g}

(***************************************************************************)
(* Steps of a call.                                                        *)
(***************************************************************************)
Deletes(c) == request[c].op = "deleteGroup"

Running(c) == call[c].pc \notin {"new", "end", "up"}

OIDC == \E c \in Calls : request[c].op = "login"

\* How a write to the API server ends: accepted, refused, or done but never
\* answered (the request times out).
Ends(outcome) ==
    IF outcome = "ok" THEN UNCHANGED budget
    ELSE budget.fail > 0 /\ budget' = [budget EXCEPT !.fail = @ - 1]

Outcomes == {"ok", "refused", "lost"}

\* History: what the step leaves in memory only (names), the groups whose deletion
\* it fails or, when it is the first step of c, overlaps with.
Overlapped(c) ==
    LET others == {d \in Calls \ {c} : Running(d)} IN
    {request[d].group : d \in {d \in others \union {c} : Deletes(d) /\ (d = c => others # {})}}

Record(c, names, deleted) ==
    LET starts == call[c].pc = "new" IN
    /\ tainted' = tainted \union names
    /\ orphans' = orphans \union deleted \union (IF starts THEN Overlapped(c) ELSE {})
    /\ mixed' = (mixed \/ (starts /\ Running(Boot)))

Continues(c) == Record(c, {}, {})

Taint(c, names) == Record(c, names, {})

Goto(c, pc) == call' = [call EXCEPT ![c].pc = pc]

Answer(c) == call' = [call EXCEPT ![c] = Fresh("end")]

\* updateUser: the value is copied now, the PUT is on its way.
Save(c, value) ==
    call' = [call EXCEPT ![c].pc = "save",
                         ![c].puts = {[user |-> request[c].user, value |-> value]}]

\* The handler changes the object it shares with the cache, and saves it.
ChangeAndSave(c, value) ==
    /\ objects' = [objects EXCEPT ![call[c].ref] = value]
    /\ Save(c, value)
    /\ UNCHANGED <<userSecret, userCache, userList>>

ReadsUserFirst == {"get", "email", "setGroups", "removeGroup", "password", "admin",
                   "update", "self", "signIn"}

AboutToReadUser(c) ==
    \/ call[c].pc = "new" /\ request[c].op \in ReadsUserFirst
    \/ call[c].pc = "checked" /\ request[c].op \in {"addGroup", "setVCs", "login"}

FetchUser(c) ==
    LET u == request[c].user IN
    /\ AboutToReadUser(c)
    /\ UserView(u) # NoUser
    /\ ReadUser(u)
    /\ call' = [call EXCEPT ![c].pc = "have", ![c].ref = userCache'[u]]
    /\ Continues(c)
    /\ UNCHANGED <<userSecret, userList, groups, request, budget>>

\* Error 404: no secret for the user.
NoSuchUser(c) ==
    /\ AboutToReadUser(c)
    /\ UserView(request[c].user) = NoUser
    /\ Answer(c)
    /\ Continues(c)
    /\ UNCHANGED <<users, groups, request, budget>>

(***************************************************************************)
(* Handlers: what they check before they read the user.                    *)
(***************************************************************************)
CheckGroup(c) ==
    /\ call[c].pc = "new" /\ request[c].op = "addGroup"
    /\ ReadAllGroups
    /\ IF AllGroups[request[c].group] # NoGroup THEN Goto(c, "checked") ELSE Answer(c)
    /\ Continues(c)
    /\ UNCHANGED <<users, request, budget>>

AreVCs(vcs) == Found(vcs) /\ \A v \in vcs : IsVCGroup(v)

CheckVCs(c) ==
    /\ call[c].pc = "new" /\ request[c].op \in {"setVCs", "create"}
    /\ ReadGroups(request[c].vcs)
    /\ IF AreVCs(request[c].vcs) THEN Goto(c, "checked") ELSE Answer(c)
    /\ Continues(c)
    /\ UNCHANGED <<users, request, budget>>

\* checkAdmin reads the user once more: administrators are neither deleted nor
\* given other virtual clusters.
CheckAdmin(c) ==
    LET u == request[c].user
        o == UserView(u)
    IN
    /\ \/ call[c].pc = "new" /\ request[c].op = "delete"
       \/ call[c].pc = "have" /\ request[c].op = "setVCs"
    /\ IF o = NoUser THEN Answer(c) /\ UNCHANGED <<users, groups>>
       ELSE /\ ReadUser(u) /\ ReadGroups(o.groups)
            /\ IF Found(o.groups) /\ ~HasAdmin(o.groups) THEN Goto(c, "allowed") ELSE Answer(c)
            /\ UNCHANGED <<userSecret, userList>>
    /\ Continues(c)
    /\ UNCHANGED <<request, budget>>

(***************************************************************************)
(* Handlers: what they do with the user object.                            *)
(***************************************************************************)
Holds(c, op) == call[c].pc = "have" /\ request[c].op = op

Object(c) == objects[call[c].ref]

\* The answer leaves the password out: it is deleted from the cached object.
GetUser(c) ==
    /\ Holds(c, "get")
    /\ ReadGroups(Object(c).groups)
    /\ objects' = IF Found(Object(c).groups)
                  THEN [objects EXCEPT ![call[c].ref].password = Erased] ELSE objects
    /\ Answer(c)
    /\ UNCHANGED <<userSecret, userCache, userList, request, history, budget>>

SetEmail(c) ==
    /\ Holds(c, "email")
    /\ ChangeAndSave(c, [Object(c) EXCEPT !.email = request[c].email])
    /\ UNCHANGED <<groups, request, history, budget>>

SetGroups(c) ==
    /\ \/ /\ Holds(c, "setGroups")
          /\ ReadAllGroups
          /\ IF Existing(request[c].groups) = request[c].groups
             THEN ChangeAndSave(c, [Object(c) EXCEPT !.groups = request[c].groups])
             ELSE Answer(c) /\ UNCHANGED users
       \/ /\ Holds(c, "login")     \* updateUserGroupListFromExternal
          /\ ChangeAndSave(c, [Object(c) EXCEPT !.groups = request[c].groups])
          /\ UNCHANGED groups
    /\ UNCHANGED <<request, history, budget>>

AddGroup(c) ==
    /\ Holds(c, "addGroup")
    /\ ChangeAndSave(c, [Object(c) EXCEPT !.groups = @ \union {request[c].group}])
    /\ UNCHANGED <<groups, request, history, budget>>

RemoveGroup(c) ==
    /\ Holds(c, "removeGroup")
    /\ ChangeAndSave(c, [Object(c) EXCEPT !.groups = @ \ {request[c].group}])
    /\ UNCHANGED <<groups, request, history, budget>>

Verified(o, old) == o.password = Hash(old)

\* updateUserPassword saves a copy, and so leaves the cached object alone.
SetPassword(c) ==
    /\ Holds(c, "password")
    /\ IF request[c].byAdmin \/ Verified(Object(c), request[c].old)
       THEN Save(c, [Object(c) EXCEPT !.password = Hash(request[c].new)])
       ELSE Answer(c)
    /\ UNCHANGED <<users, groups, request, history, budget>>

\* controllers/v2/token.js: the password is checked, then a token is created.
SignIn(c) ==
    LET o == Object(c) IN
    /\ Holds(c, "signIn")
    /\ ReadGroups(o.groups)
    /\ IF Verified(o, request[c].old) /\ Found(o.groups) THEN Goto(c, "token") ELSE Answer(c)
    /\ UNCHANGED <<users, request, history, budget>>

WithVCs(o, vcs) == [o EXCEPT !.groups = vcs \union {DefaultGroup}]

SetVCs(c) ==
    /\ call[c].pc = "allowed" /\ request[c].op = "setVCs"
    /\ ChangeAndSave(c, WithVCs(Object(c), request[c].vcs))
    /\ UNCHANGED <<groups, request, history, budget>>

\* updateAdminPermissionInternal
WithAdmin(o, admin) ==
    [o EXCEPT !.groups =
        CASE admin /\ ~HasAdmin(@) -> @ \union {AdminGroup}
          [] ~admin                -> {g \in @ : ~GroupView(g).admin}
          [] OTHER                 -> @]

SetAdmin(c) ==
    LET o == Object(c) IN
    /\ Holds(c, "admin")
    /\ ReadGroups(o.groups)
    /\ IF Found(o.groups) THEN ChangeAndSave(c, WithAdmin(o, request[c].admin))
       ELSE Answer(c) /\ UNCHANGED users
    /\ UNCHANGED <<request, history, budget>>

(***************************************************************************)
(* basicAdminUserUpdate and basicUserUpdate change several fields of the   *)
(* object one after the other, with awaits between them; when a later one  *)
(* is rejected the earlier ones stay in the cached object, unsaved.        *)
(***************************************************************************)
Sets(c, field) == field \in request[c].sets

Patched(c) == IF Sets(c, "email") THEN [Object(c) EXCEPT !.email = request[c].email] ELSE Object(c)

Change(c, o) == objects' = [objects EXCEPT ![call[c].ref] = o]

SaveWithPassword(c, o) ==
    /\ Change(c, [o EXCEPT !.password = Plain(request[c].new)])
    /\ Save(c, [o EXCEPT !.password = Hash(request[c].new)])

UpdateEmail(c) ==
    /\ Holds(c, "update")
    /\ Change(c, Patched(c))
    /\ Goto(c, IF Sets(c, "vc") THEN "vc" ELSE "admin")
    /\ UNCHANGED <<userSecret, userCache, userList, groups, request, history, budget>>

UpdateVCs(c) ==
    /\ call[c].pc = "vc"
    /\ ReadGroups(request[c].vcs)
    /\ IF AreVCs(request[c].vcs)
       THEN Change(c, WithVCs(Object(c), request[c].vcs)) /\ Goto(c, "admin") /\ UNCHANGED history
       ELSE Answer(c) /\ Taint(c, {request[c].user}) /\ UNCHANGED objects
    /\ UNCHANGED <<userSecret, userCache, userList, request, budget>>

UpdateRest(c) ==
    LET o == IF Sets(c, "admin") THEN WithAdmin(Object(c), request[c].admin) ELSE Object(c) IN
    /\ call[c].pc = "admin"
    /\ ReadGroups(IF Sets(c, "admin") THEN Object(c).groups ELSE {})
    /\ IF Sets(c, "admin") /\ ~Found(Object(c).groups)
       THEN Answer(c) /\ Taint(c, {request[c].user}) /\ UNCHANGED objects
       ELSE /\ IF Sets(c, "password") THEN SaveWithPassword(c, o) ELSE Change(c, o) /\ Save(c, o)
            /\ UNCHANGED history
    /\ UNCHANGED <<userSecret, userCache, userList, request, budget>>

UpdateSelf(c) ==
    /\ \/ /\ Holds(c, "self")
          /\ Change(c, Patched(c))
          /\ CASE ~Sets(c, "password") -> Save(c, Patched(c)) /\ UNCHANGED history
               [] Sets(c, "password") /\ Verified(Object(c), request[c].old)
                    -> Goto(c, "verified") /\ UNCHANGED history
               [] OTHER -> Answer(c) /\ Taint(c, {request[c].user})
       \/ /\ call[c].pc = "verified"
          /\ SaveWithPassword(c, Object(c))
          /\ UNCHANGED history
    /\ UNCHANGED <<userSecret, userCache, userList, groups, request, budget>>

(***************************************************************************)
(* crudUser: create, remove and update.                                    *)
(***************************************************************************)
\* The caches are cleared only after the write was answered.
PutUser(c, p, outcome) ==
    LET u      == p.user
        found  == userSecret[u] # NoUser
        failed == outcome # "ok" \/ ~found
    IN
    /\ p \in call[c].puts
    /\ Ends(outcome)
    /\ userSecret' = IF found /\ outcome # "refused" THEN [userSecret EXCEPT ![u] = p.value]
                                                     ELSE userSecret
    /\ IF c = Boot /\ failed THEN call' = [call EXCEPT ![c] = Fresh("exit")]
       ELSE call' = [call EXCEPT ![c].pc = IF failed THEN "failed" ELSE @,
                                 ![c].puts = @ \ {p},
                                 ![c].drops = IF failed THEN @ ELSE @ \union {u}]
    /\ Record(c, IF outcome = "ok" THEN {} ELSE {u},
                 IF outcome # "ok" /\ c # Boot /\ Deletes(c) THEN {request[c].group} ELSE {})
    /\ UNCHANGED <<objects, userCache, userList, groups, request>>

\* Mutant: cache.delete('allUsers') is missing.
DropUserOnly(c, u) ==
    /\ u \in call[c].drops
    /\ userCache' = [userCache EXCEPT ![u] = NoRef]
    /\ call' = [call EXCEPT ![c].drops = @ \ {u}]
    /\ UNCHANGED <<userSecret, objects, userList, groups, request, history, budget>>

DropUser(c, u) ==
    /\ u \in call[c].drops
    /\ userCache' = [userCache EXCEPT ![u] = NoRef]
    /\ userList' = NoList
    /\ call' = [call EXCEPT ![c].drops = @ \ {u}]
    /\ UNCHANGED <<userSecret, objects, groups, request, history, budget>>

SetsPassword(c) == request[c].op = "password" \/
                   (request[c].op \in {"update", "self"} /\ Sets(c, "password"))

\* When the password was saved, the handler goes on to revoke browser tokens.
Finish(c) ==
    /\ call[c].pc \in {"save", "failed"} /\ call[c].puts = {} /\ call[c].drops = {}
    /\ call' = [call EXCEPT ![c] = Fresh(CASE c = Boot -> "up"
                                           [] c # Boot /\ call[c].pc = "save" /\ SetsPassword(c) -> "revoke"
                                           [] OTHER -> "end")]
    /\ UNCHANGED <<users, groups, request, history, budget>>

DeleteUser(c, outcome) ==
    LET u == request[c].user IN
    /\ call[c].pc = "allowed" /\ request[c].op = "delete"
    /\ Ends(outcome)
    /\ userSecret' = IF outcome = "refused" THEN userSecret ELSE [userSecret EXCEPT ![u] = NoUser]
    /\ IF outcome = "ok" /\ userSecret[u] # NoUser
       THEN call' = [call EXCEPT ![c].pc = "save", ![c].drops = {u}]
       ELSE Answer(c)
    /\ IF outcome = "lost" THEN Taint(c, {u}) ELSE UNCHANGED history
    /\ UNCHANGED <<objects, userCache, userList, groups, request>>

\* POST; a user that exists is a conflict (409).
CreateUser(c, outcome) ==
    LET u    == request[c].user
        free == userSecret[u] = NoUser
    IN
    /\ \/ call[c].pc = "checked" /\ request[c].op = "create"
       \/ call[c].pc = "absent"
    /\ Ends(outcome)
    /\ userSecret' = IF free /\ outcome # "refused"
                     THEN [userSecret EXCEPT ![u] =
                              NewUser(IF request[c].op = "login" THEN request[c].groups
                                      ELSE request[c].vcs \union {DefaultGroup})]
                     ELSE userSecret
    /\ CASE outcome = "ok" /\ free -> Goto(c, "created")
         [] outcome = "ok" /\ ~free /\ request[c].op = "login" -> Goto(c, "checked")
         [] OTHER -> Answer(c)
    /\ IF outcome = "lost" THEN Taint(c, {u}) ELSE UNCHANGED history
    /\ UNCHANGED <<objects, userCache, userList, groups, request>>

\* Mutant: a new user is not announced to the list.
CreatedUnlisted(c) ==
    /\ call[c].pc = "created"
    /\ Answer(c)
    /\ UNCHANGED <<users, groups, request, history, budget>>

Created(c) ==
    /\ call[c].pc = "created"
    /\ userList' = NoList
    /\ Answer(c)
    /\ UNCHANGED <<userSecret, objects, userCache, groups, request, history, budget>>

\* createUserIfUserNotExist, when a user signs in with OIDC.
Login(c) ==
    LET u == request[c].user IN
    /\ call[c].pc = "new" /\ request[c].op = "login"
    /\ IF UserView(u) = NoUser THEN Goto(c, "absent") /\ UNCHANGED <<objects, userCache>>
       ELSE Goto(c, "checked") /\ ReadUser(u)
    /\ Continues(c)
    /\ UNCHANGED <<userSecret, userList, groups, request, budget>>

ListUsers(c) ==
    /\ call[c].pc = "new" /\ request[c].op = "list"
    /\ userList' = AllUsers
    /\ ReadAllGroups
    /\ Answer(c)
    /\ Continues(c)
    /\ UNCHANGED <<userSecret, objects, userCache, request, budget>>

(***************************************************************************)
(* Groups.  updateGroup changes the cached group in place before the PUT;  *)
(* deleteGroup goes on with the users once the group is gone.              *)
(***************************************************************************)
WriteGroup(g, value, outcome) ==
    groupSecret' = IF outcome = "refused" THEN groupSecret ELSE [groupSecret EXCEPT ![g] = value]

ReadForUpdate(c) ==
    LET g == request[c].group IN
    /\ call[c].pc = "new" /\ request[c].op = "updateGroup"
    /\ IF GroupView(g) = NoGroup THEN Answer(c) /\ UNCHANGED groupCache
       ELSE /\ groupCache' = [groupCache EXCEPT ![g] = request[c].value]
            /\ Goto(c, "group")
    /\ Continues(c)
    /\ UNCHANGED <<users, groupSecret, groupList, request, budget>>

ChangeGroup(c, outcome) ==
    LET g      == request[c].group
        op     == request[c].op
        exists == groupSecret[g] # NoGroup
    IN
    /\ \/ call[c].pc = "group"
       \/ call[c].pc = "new" /\ op \in {"createGroup", "deleteGroup"}
    /\ Ends(outcome)
    /\ IF exists = (op = "createGroup")      \* 409 or 404
       THEN Answer(c) /\ UNCHANGED groupSecret
       ELSE /\ WriteGroup(g, IF op = "deleteGroup" THEN NoGroup ELSE request[c].value, outcome)
            /\ IF outcome = "ok" THEN Goto(c, "written") ELSE Answer(c)
    /\ Record(c, IF outcome = "ok" THEN {} ELSE {g},
                 IF outcome # "ok" /\ Deletes(c) THEN {g} ELSE {})
    /\ UNCHANGED <<users, groupCache, groupList, request>>

DropGroup(c) ==
    /\ call[c].pc = "written"
    /\ groupCache' = IF request[c].op = "createGroup" THEN groupCache
                     ELSE [groupCache EXCEPT ![request[c].group] = NoGroup]
    /\ groupList' = NoList
    /\ IF Deletes(c) THEN Goto(c, "members") ELSE Answer(c)
    /\ UNCHANGED <<users, groupSecret, request, history, budget>>

Members(g) == {u \in Users : AllUsers[u] # NoUser /\ g \in AllUsers[u].groups}

Without(u, gs) == [AllUsers[u] EXCEPT !.groups = @ \ gs]

\* The users of the list lose the groups, in place, and are saved.
SaveWithout(c, us, gs, pc) ==
    /\ userList' = [u \in Users |-> IF u \in us THEN Without(u, gs) ELSE AllUsers[u]]
    /\ call' = [call EXCEPT ![c].pc = pc,
                            ![c].puts = @ \union {[user |-> u, value |-> Without(u, gs)] : u \in us}]

RemoveMembers(c) ==
    /\ call[c].pc = "members"
    /\ SaveWithout(c, Members(request[c].group), {request[c].group}, "save")
    /\ UNCHANGED <<userSecret, objects, userCache, groups, request, history, budget>>

(***************************************************************************)
(* groupAndUserDataInit, which runs while requests are already served.     *)
(* The first three parts catch their errors and the start-up goes on; an   *)
(* error of the last two ends the process.                                 *)
(***************************************************************************)
At(pc) == call[Boot].pc = pc

Enter(pc) == Goto(Boot, pc)

After(outcome, here, next) == Enter(IF outcome = "ok" THEN here ELSE next)

\* createGroupIfNonExistent.
CreateMissing(g, outcome) ==
    /\ GroupView(g) = NoGroup
    /\ Ends(outcome)
    /\ IF groupSecret[g] = NoGroup THEN WriteGroup(g, ConfiguredGroup(g), outcome)
                                   ELSE UNCHANGED groupSecret
    /\ groupList' = IF outcome = "ok" THEN NoList ELSE groupList
    /\ Taint(Boot, IF outcome = "ok" THEN {} ELSE {g})
    /\ UNCHANGED <<users, groupCache, request>>

InitGrouplistInCfg(outcome) ==
    /\ At("config")
    /\ \/ \E g \in {AdminGroup, DefaultGroup} :
              CreateMissing(g, outcome) /\ After(outcome, "config", "vcs")
       \/ /\ \A g \in {AdminGroup, DefaultGroup} : GroupView(g) # NoGroup
          /\ ReadGroups({AdminGroup, DefaultGroup})
          /\ outcome = "ok" /\ Enter("vcs")
          /\ UNCHANGED <<users, request, history, budget>>

Known(g) == AllGroups[g] # NoGroup

\* The users are the identity provider's with OIDC.
AfterVCs == IF OIDC THEN "save" ELSE "admin"

DeleteNonexistVCs(outcome) ==
    LET stale   == {g \in Groups : Known(g) /\ ~(AllGroups[g].vcs \subseteq VCs)}
        checked == [g \in stale |-> [AllGroups[g] EXCEPT !.vcs = @ \intersect VCs]]
    IN
    /\ At("vcs")
    /\ \/ \E g \in stale :
              LET found == groupSecret[g] # NoGroup     \* or the PUT is a 404
                  done  == outcome = "ok" /\ found
              IN
              /\ Ends(outcome)
              /\ IF found THEN WriteGroup(g, checked[g], outcome) ELSE UNCHANGED groupSecret
              /\ groupCache' = IF done THEN [groupCache EXCEPT ![g] = NoGroup] ELSE groupCache
              /\ groupList' = IF done THEN NoList ELSE [AllGroups EXCEPT ![g] = checked[g]]
              /\ Enter(IF done THEN "vcs" ELSE AfterVCs)
              /\ Taint(Boot, IF outcome = "ok" THEN {} ELSE {g})
       \/ /\ stale = {}
          /\ ReadAllGroups
          /\ outcome = "ok" /\ Enter(AfterVCs)
          /\ UNCHANGED <<history, budget>>
    /\ UNCHANGED <<users, request>>

CreateDefaultAdminUser(outcome) ==
    /\ At("admin")
    /\ IF UserView(AdminUser) # NoUser THEN outcome = "ok" /\ ReadUser(AdminUser) /\ UNCHANGED
                                                                    <<userSecret, userList>>
       ELSE /\ userSecret' = IF outcome = "refused" THEN userSecret
                ELSE [userSecret EXCEPT ![AdminUser] = NewUser({DefaultGroup, AdminGroup})]
            /\ userList' = IF outcome = "ok" THEN NoList ELSE userList
            /\ UNCHANGED <<objects, userCache>>
    /\ Ends(outcome)
    /\ Taint(Boot, IF outcome = "ok" THEN {} ELSE {AdminUser})
    /\ Enter("sync")
    /\ UNCHANGED <<groups, request>>

\* syncGroupsWithVCs, first part: every virtual cluster has its group.
CreateVCGroups(outcome) ==
    /\ At("sync")
    /\ \/ \E v \in VCs : CreateMissing(v, outcome) /\ After(outcome, "sync", "exit")
       \/ /\ \A v \in VCs : GroupView(v) # NoGroup
          /\ ReadGroups(VCs)
          /\ outcome = "ok" /\ Enter("purge")
          /\ UNCHANGED <<users, request, history, budget>>

\* Second part: groups with no virtual cluster that do not make administrators are
\* deleted, all at once; the users' updates overlap.
PurgeGroups(outcome) ==
    LET purged == {g \in Groups : Known(g) /\ AllGroups[g].vcs = {} /\ ~AllGroups[g].admin} IN
    /\ At("purge")
    /\ \/ \E g \in purged :
              /\ Ends(outcome)
              /\ WriteGroup(g, NoGroup, outcome)
              /\ IF outcome = "ok" /\ groupSecret[g] # NoGroup
                 THEN /\ groupCache' = [groupCache EXCEPT ![g] = NoGroup] /\ groupList' = NoList
                      /\ SaveWithout(Boot, Members(g), {g}, "purge")
                 ELSE UNCHANGED <<groupCache, groupList, userList>> /\ Enter("exit")
       \/ /\ purged = {} /\ call[Boot].puts = {} /\ call[Boot].drops = {}
          /\ ReadAllGroups
          /\ outcome = "ok" /\ Enter("repair")
          /\ UNCHANGED <<userList, budget>>
    /\ UNCHANGED <<userSecret, objects, userCache, request, history>>

\* Mutant: batchUpdateUsers is not awaited.
RepairInBackground ==
    LET gone == {g \in Groups : ~Known(g)} IN
    /\ At("repair")
    /\ ReadAllGroups
    /\ SaveWithout(Boot, UNION {Members(g) : g \in gone}, gone, "up")
    /\ UNCHANGED <<userSecret, objects, userCache, request, history, budget>>

DeleteInexistGroupFromUserlist ==
    LET gone == {g \in Groups : ~Known(g)} IN
    /\ At("repair")
    /\ ReadAllGroups
    /\ SaveWithout(Boot, UNION {Members(g) : g \in gone}, gone, "save")
    /\ UNCHANGED <<userSecret, objects, userCache, request, history, budget>>

\* The process ends, crashed or of its own accord, and starts again.
Restarted ==
    /\ call' = [c \in Calls \union {Boot} |->
                   IF c = Boot THEN Fresh("config")
                   ELSE IF Running(c) THEN Fresh("end") ELSE call[c]]
    /\ objects' = [r \in Refs |-> NoUser]
    /\ userCache' = [u \in Users |-> NoRef] /\ userList' = NoList
    /\ groupCache' = [g \in Groups |-> NoGroup] /\ groupList' = NoList
    /\ tainted' = {} /\ mixed' = FALSE
    /\ orphans' = orphans \union {request[c].group : c \in {c \in Calls : Running(c) /\ Deletes(c)}}
    /\ UNCHANGED <<userSecret, groupSecret, request>>

Restart ==
    /\ Restarted
    /\ \/ At("exit") /\ UNCHANGED budget
       \/ budget.restart > 0 /\ budget' = [budget EXCEPT !.restart = @ - 1]

Handler(c) ==
    \/ FetchUser(c) \/ NoSuchUser(c) \/ CheckGroup(c) \/ CheckVCs(c) \/ CheckAdmin(c)
    \/ GetUser(c) \/ SetEmail(c) \/ SetGroups(c) \/ AddGroup(c) \/ RemoveGroup(c)
    \/ SetPassword(c) \/ SignIn(c) \/ SetVCs(c) \/ SetAdmin(c)
    \/ UpdateEmail(c) \/ UpdateVCs(c) \/ UpdateRest(c) \/ UpdateSelf(c)
    \/ Created(c) \/ Login(c) \/ ListUsers(c)
    \/ ReadForUpdate(c) \/ DropGroup(c) \/ RemoveMembers(c)

Step ==
    \/ \E c \in Calls : Handler(c)
    \/ \E c \in Calls, o \in Outcomes : DeleteUser(c, o) \/ CreateUser(c, o) \/ ChangeGroup(c, o)
    \/ \E c \in Calls \union {Boot} :
           \/ Finish(c)
           \/ \E u \in call[c].drops : DropUser(c, u)
           \/ \E p \in call[c].puts, o \in Outcomes : PutUser(c, p, o)
    \/ \E o \in Outcomes :
           \/ InitGrouplistInCfg(o) \/ DeleteNonexistVCs(o) \/ CreateDefaultAdminUser(o)
           \/ CreateVCGroups(o) \/ PurgeGroups(o)
    \/ DeleteInexistGroupFromUserlist

(***************************************************************************)
(* Properties.                                                             *)
(***************************************************************************)
TypeOK ==
    /\ userSecret \in [Users -> User \union {NoUser}]
    /\ groupSecret \in [Groups -> Group \union {NoGroup}]
    /\ objects \in [Refs -> User \union {NoUser}]
    /\ userCache \in [Users -> Refs \union {NoRef}]
    /\ userList \in [Users -> User \union {NoUser}] \union {NoList}
    /\ groupCache \in [Groups -> Group \union {NoGroup}]
    /\ groupList \in [Groups -> Group \union {NoGroup}] \union {NoList}
    /\ \A c \in Calls \union {Boot} :
           /\ call[c].ref \in Refs \union {NoRef}
           /\ call[c].puts \subseteq [user : Users, value : User]
           /\ call[c].drops \subseteq Users
    /\ \A u \in Users : userCache[u] # NoRef => objects[userCache[u]] # NoUser
    /\ tainted \subseteq Users \union Groups /\ orphans \subseteq Groups /\ mixed \in BOOLEAN

Quiet == \A c \in Calls \union {Boot} : ~Running(c)

Agrees(cached, stored) ==
    /\ stored # NoUser
    /\ cached = [stored EXCEPT !.password = cached.password]
    /\ cached.password \in {stored.password, Erased}

\* When no call is under way, what the process serves from its caches is what the
\* secrets hold, a deleted user or group included, whatever handlers shared and
\* changed the cached objects before; a password may be missing.  Only a write that
\* failed or was rejected half-way leaves a difference.
CacheAgreesWithSecrets ==
    Quiet =>
        /\ \A u \in Users \ tainted :
               /\ userCache[u] # NoRef => Agrees(objects[userCache[u]], userSecret[u])
               /\ userList # NoList => userList[u] = userSecret[u]
        /\ \A g \in Groups \ tainted :
               /\ groupCache[g] \in {NoGroup, groupSecret[g]}
               /\ groupList # NoList => groupList[g] = groupSecret[g]

Dangling(u) == IF userSecret[u] = NoUser THEN {}
               ELSE {g \in userSecret[u].groups : groupSecret[g] = NoGroup}

\* No user belongs to a group that is gone: deleteGroup finds every member, though it
\* reads a cached list of the users.  (For such a user, GET fails and so does the list
\* of all users.)  Exempt are groups deleted while another request ran, or with a
\* failed call, requests served during the start-up, and the two fixed groups, which
\* updates give to users without a look whether they exist.
NoDanglingReference ==
    Quiet /\ ~mixed =>
        \A u \in Users \ tainted : Dangling(u) \subseteq orphans \union {AdminGroup, DefaultGroup}

\* A start-up that completes has repaired what an interrupted deletion left behind:
\* no user refers to a group that is gone.
RestartRepairs ==
    [][ call[Boot].pc # "up" /\ call'[Boot].pc = "up" /\ ~mixed /\ ~OIDC
            => \A u \in Users : Dangling(u)' = {} ]_vars

\* What the update handlers are for (an update of another field sends the password
\* that was read back unchanged): unless a request sets a password, the stored
\* password of a user stays.
PasswordKept ==
    [][ \A u \in Users :
            /\ userSecret[u] # NoUser /\ userSecret'[u] # NoUser
            /\ ~ \E c \in Calls : SetsPassword(c)
            => userSecret'[u].password = userSecret[u].password ]_vars
=============================================================================
