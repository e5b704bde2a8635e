--------------------- MODULE RestServerSessions_proofs ----------------------
(***************************************************************************)
(* Proofs about RestServerSessions.  Of the tokens: what is revoked stays  *)
(* revoked, what is issued is kept.  Of the users and groups, from the     *)
(* lemmas of UserAccounts_proofs and UserGroups_proofs: the caches agree   *)
(* with the secrets, and nobody is left in a group that is gone.  Of both: *)
(* every variable keeps its type.                                          *)
(***************************************************************************)
EXTENDS RestServerSessions, UserGroups_proofs, TLAPS

-----------------------------------------------------------------------------
(***************************************************************************)
(* The inductive invariant of the tokens, part by part.                    *)
(***************************************************************************)
\* The operations that create a token, and those that revoke tokens.
Creating == {"issue", "signIn"}
Revoking == {"revoke", "revokeAll"} \union T!Sweeps

\* Where the code of each operation can be.
PcsOf(op) ==
    CASE op \in Creating       -> {"new", "post", "add", "end"}
      [] op = "verify"         -> {"new", "update", "miss", "store", "end"}
      [] op = "listTokens"     -> {"new", "store", "end"}
      [] op = "revokeAll"      -> {"new", "wipe", "end"}
      [] op = "revoke" \/ op \in T!Sweeps -> {"new", "sweep", "end"}
      [] OTHER                 -> {"new"}

\* The places of all the operations.
TaskPcs == {"new", "post", "add", "update", "miss", "store", "sweep", "wipe", "end"}

\* The record kept of a call.
Task == [pc : TaskPcs, item : SUBSET TokenIds, ok : BOOLEAN]

\* The types of the variables of Tokens.
TokensTyped ==
    /\ tokenSecret \in (SUBSET TokenIds) \union {T!NoTokens}
    /\ tokenCache \in (SUBSET TokenIds) \union {T!NoTokens}
    /\ tokenMutex \in Calls \union {NoCall}
    /\ tokenPuts \in SUBSET [by : Calls, value : SUBSET TokenIds]
    /\ task \in [Calls -> Task]
    /\ expired \subseteq Browser

\* The call that holds the mutex is the one that has fetched the secret.
MutexHolds == \A c \in Calls : task[c].pc = "store" <=> tokenMutex = c

\* A call is at a place of its own operation, and sends its PUT only there.
PlacesAreOwn ==
    /\ \A c \in Calls : task[c].pc \in PcsOf(request[c].op)
    /\ \A p \in tokenPuts : task[p.by].pc \notin {"new", "post", "sweep", "wipe"}

\* While a call that nothing has overlapped is open, no other one is.
AloneWhileOpen ==
    \A c \in Calls \ blurred : T!Open(c) => \A d \in Calls \ {c} : ~T!Open(d)

\* The tokens a call has read and is going to put into the cache.
Held(c) == IF task[c].pc \in {"update", "store"} THEN task[c].item ELSE {}

\* A copy of the token is somewhere in the memory of the process, or on its way.
Copied(t) ==
    \/ t \in T!Content(tokenCache)
    \/ \E p \in tokenPuts : t \in p.value
    \/ \E c \in Calls : t \in Held(c)

\* c is a request to create t.
Creates(c, t) == request[c].op \in Creating /\ request[c].token = t

\* Every token comes from a call that has begun to create it.
TokensAreCreated ==
    \A t \in TokenIds :
        Copied(t) \/ t \in T!Content(tokenSecret)
            => \E c \in Calls : Creates(c, t) /\ task[c].pc # "new"

\* What a call revokes was created by one that has ended; no copy is left, and once
\* the PUT has landed the secret does not hold it either.
RevokedIsGone(c, t) ==
    /\ \E d \in Calls : Creates(d, t) /\ task[d].pc = "end"
    /\ ~Copied(t)
    /\ task[c].pc = "sweep" => t \in T!Doomed(c)
    /\ task[c].pc = "end" /\ ~T!Open(c) => t \notin T!Content(tokenSecret)

\* RevokedIsGone, for every revocation that has begun and nothing has overlapped.
RevocationsHold ==
    \A c \in Calls \ blurred :
        request[c].op \in Revoking /\ task[c].pc # "new"
            => \A t \in task[c].item : RevokedIsGone(c, t)

\* Some call that has begun is to make the token unusable.
Condemned(t) ==
    \E d \in Calls :
        /\ task[d].pc # "new"
        /\ \/ request[d].op = "revokeAll"
           \/ request[d].op \in {"revoke"} \union T!Sweeps /\ t \in T!Doomed(d)

\* Every PUT and every list read contains the token, and so does the secret once the
\* PUT of the call has landed; the cache, when the call has ended.
TokenIsThere(c, t) ==
    /\ \A p \in tokenPuts : t \in p.value
    /\ \A d \in Calls : task[d].pc \in {"update", "store"} => t \in task[d].item
    /\ (\E p \in tokenPuts : p.by = c) \/ t \in T!Content(tokenSecret)
    /\ task[c].pc = "end" /\ tokenCache # T!NoTokens => t \in tokenCache

\* TokenIsThere, for every creation that nothing has overlapped, of a token that is
\* neither expired nor to be revoked.
CreationsHold ==
    ~partial => \A c \in Calls \ blurred :
        LET t == request[c].token IN
        /\ request[c].op \in Creating
        /\ task[c].pc = "add" \/ (task[c].pc = "end" /\ task[c].ok)
        /\ t \notin expired /\ ~Condemned(t)
        => TokenIsThere(c, t)

\* The inductive invariant.
TokenInv ==
    /\ TokensTyped
    /\ MutexHolds
    /\ PlacesAreOwn
    /\ AloneWhileOpen
    /\ TokensAreCreated
    /\ RevocationsHold
    /\ CreationsHold

-----------------------------------------------------------------------------
(***************************************************************************)
(* What a step of RestServerSessions does to the tokens.                   *)
(***************************************************************************)
\* All that can happen to the tokens.
TokenAction ==
    \/ \E c \in Calls : T!TokenStep(c)
    \/ \E p \in tokenPuts : T!PutLands(p)
    \/ \E t \in TokenIds : T!Expire(t)
    \/ T!ProcessEnds
    \/ T!TokensStay

\* The requests are given, no step of a handler changes them.
LEMMA RequestsStay ==
    ASSUME Step
    PROVE  UNCHANGED request
<1>1. ASSUME NEW c \in Calls, Handler(c)
      PROVE  UNCHANGED request
  <2>1. CASE FetchUser(c) \/ NoSuchUser(c) \/ CheckGroup(c) \/ CheckVCs(c) \/ CheckAdmin(c)
    BY <2>1 DEF FetchUser, NoSuchUser, CheckGroup, CheckVCs, CheckAdmin
  <2>2. CASE GetUser(c) \/ SetEmail(c) \/ SetGroups(c) \/ AddGroup(c) \/ RemoveGroup(c)
    BY <2>2 DEF GetUser, SetEmail, SetGroups, AddGroup, RemoveGroup
  <2>3. CASE SetPassword(c) \/ SignIn(c) \/ SetVCs(c) \/ SetAdmin(c)
    BY <2>3 DEF SetPassword, SignIn, SetVCs, SetAdmin
  <2>4. CASE UpdateEmail(c) \/ UpdateVCs(c) \/ UpdateRest(c) \/ UpdateSelf(c)
    BY <2>4 DEF UpdateEmail, UpdateVCs, UpdateRest, UpdateSelf
  <2>5. CASE Created(c) \/ Login(c) \/ ListUsers(c)
    BY <2>5 DEF Created, Login, ListUsers
  <2>6. CASE ReadForUpdate(c) \/ DropGroup(c) \/ RemoveMembers(c)
    BY <2>6 DEF ReadForUpdate, DropGroup, RemoveMembers
  <2> QED
    BY <1>1, <2>1, <2>2, <2>3, <2>4, <2>5, <2>6 DEF Handler
<1>2. ASSUME NEW c \in Calls, NEW o \in Outcomes,
             DeleteUser(c, o) \/ CreateUser(c, o) \/ ChangeGroup(c, o)
      PROVE  UNCHANGED request
  BY <1>2 DEF DeleteUser, CreateUser, ChangeGroup
<1>3. ASSUME NEW c \in Calls \union {Boot},
             \/ Finish(c)
             \/ \E u \in call[c].drops : DropUser(c, u)
             \/ \E p \in call[c].puts, o \in Outcomes : PutUser(c, p, o)
      PROVE  UNCHANGED request
  BY <1>3 DEF Finish, DropUser, PutUser
<1>4. ASSUME NEW o \in Outcomes,
             \/ InitGrouplistInCfg(o) \/ DeleteNonexistVCs(o) \/ CreateDefaultAdminUser(o)
             \/ CreateVCGroups(o) \/ PurgeGroups(o)
      PROVE  UNCHANGED request
  BY <1>4 DEF InitGrouplistInCfg, DeleteNonexistVCs, CreateDefaultAdminUser,
              CreateVCGroups, PurgeGroups, CreateMissing
<1>5. CASE DeleteInexistGroupFromUserlist
  BY <1>5 DEF DeleteInexistGroupFromUserlist
<1> QED
  BY <1>1, <1>2, <1>3, <1>4, <1>5 DEF Step

\* Every step is one of the tokens, or leaves them alone.
LEMMA NextIsTokenAction ==
    ASSUME [Next]_<<vars, T!tokenVars>>
    PROVE  TokenAction /\ UNCHANGED request
<1>1. CASE AccountStep
  BY <1>1, RequestsStay DEF AccountStep, TokenAction
<1>2. ASSUME NEW c \in Calls, TokenStep(c)
      PROVE  TokenAction /\ UNCHANGED request
  BY <1>2 DEF TokenStep, TokenAction, vars
<1>3. ASSUME NEW c \in Calls, HandlerEnds(c)
      PROVE  TokenAction /\ UNCHANGED request
  BY <1>3 DEF HandlerEnds, TokenAction, T!TokenStep
<1>4. CASE TokensChange
  BY <1>4 DEF TokensChange, TokenAction, vars
<1>5. CASE ProcessRestarts
  BY <1>5 DEF ProcessRestarts, TokenAction, Restart, Restarted, T!PutRejected
<1>6. CASE UNCHANGED <<vars, T!tokenVars>>
  BY <1>6 DEF TokenAction, vars, T!TokensStay
<1> QED
  BY <1>1, <1>2, <1>3, <1>4, <1>5, <1>6 DEF Next

-----------------------------------------------------------------------------
(***************************************************************************)
(* The shape of a step of a token operation.                               *)
(***************************************************************************)
\* The step c begins with marks it, and the calls it overlaps, as blurred; a later one
\* is made by a call that is open.
Shape(c) ==
    /\ \A d \in Calls \ {c} : task'[d] = task[d]
    /\ task'[c].pc # "new"
    /\ tokenPuts \subseteq tokenPuts'
    /\ \A p \in tokenPuts' \ tokenPuts : p.by = c /\ task'[c].pc \notin {"post", "sweep", "wipe"}
    /\ \/ /\ task[c].pc = "new"
          /\ \A d \in Calls \ {c} : T!Open(d) => {c, d} \subseteq blurred'
          /\ blurred \subseteq blurred'
       \/ /\ task[c].pc \notin {"new", "end"}
          /\ task'[c].pc \notin {"post", "sweep", "wipe"}
          /\ UNCHANGED blurred

\* What a request asks for is typed.
LEMMA TokenOfRequest ==
    ASSUME request \in Scripts, NEW c \in Calls,
           request[c].op \in {"issue", "signIn", "verify", "revoke"}
    PROVE  request[c].token \in TokenIds
BY TokensAssumption

\* Content of a store is a set of tokens.
LEMMA ContentIsTyped ==
    ASSUME NEW x \in (SUBSET TokenIds) \union {T!NoTokens}
    PROVE  T!Content(x) \in SUBSET TokenIds
BY DEF T!Content

\* The assignments the operations share keep the types.
LEMMA GotoIsTyped ==
    ASSUME task \in [Calls -> Task], NEW c \in Calls, NEW pc \in TaskPcs,
           NEW item \in SUBSET TokenIds, T!Goto(c, pc, item)
    PROVE  task' \in [Calls -> Task]
BY DEF T!Goto, Task

\* Answer keeps the type of task.
LEMMA AnswerIsTyped ==
    ASSUME task \in [Calls -> Task], NEW c \in Calls, NEW ok \in BOOLEAN, T!Answer(c, ok)
    PROVE  task' \in [Calls -> Task]
BY DEF T!Answer, Task, TaskPcs

\* Put keeps the type of tokenPuts.
LEMMA PutIsTyped ==
    ASSUME tokenPuts \in SUBSET [by : Calls, value : SUBSET TokenIds], NEW c \in Calls,
           NEW value \in SUBSET TokenIds, T!Put(c, value)
    PROVE  tokenPuts' \in SUBSET [by : Calls, value : SUBSET TokenIds]
BY DEF T!Put

\* cleanExistingTokens keeps the type of tokenPuts.
LEMMA CleanIsTyped ==
    ASSUME tokenPuts \in SUBSET [by : Calls, value : SUBSET TokenIds], NEW c \in Calls,
           NEW value \in SUBSET TokenIds, T!Clean(c, value)
    PROVE  tokenPuts' \in SUBSET [by : Calls, value : SUBSET TokenIds]
BY DEF T!Put, T!Clean, T!Purge

\* Which operation a call at a place serves.
LEMMA PlaceTellsOperation ==
    ASSUME PlacesAreOwn, NEW c \in Calls
    PROVE  /\ task[c].pc \in {"post", "add"} => request[c].op \in Creating
           /\ task[c].pc \in {"update", "miss"} => request[c].op = "verify"
           /\ task[c].pc = "store" => request[c].op \in {"verify", "listTokens"}
           /\ task[c].pc = "wipe" => request[c].op = "revokeAll"
           /\ task[c].pc = "sweep" => request[c].op \in {"revoke"} \union T!Sweeps
BY DEF PlacesAreOwn, PcsOf, Creating, T!Sweeps

\* purge returns tokens.
LEMMA PurgeIsTyped ==
    ASSUME NEW x \in SUBSET TokenIds
    PROVE  T!Purge(x) \in SUBSET TokenIds
BY DEF T!Purge

\* Every step of a token operation keeps the types.
LEMMA StepsAreTyped ==
    ASSUME TokensTyped, PlacesAreOwn, request \in Scripts, NEW c \in Calls, T!TokenStep(c)
    PROVE  TokensTyped'
<1> DEFINE Puts == tokenPuts' \in SUBSET [by : Calls, value : SUBSET TokenIds]
           Tasks == task' \in [Calls -> Task]
<1>0. /\ task[c].item \in SUBSET TokenIds
      /\ T!Content(tokenSecret) \in SUBSET TokenIds
      /\ T!Content(tokenCache) \in SUBSET TokenIds
      /\ request[c].op \in {"issue", "signIn", "verify", "revoke"} => request[c].token \in TokenIds
      /\ T!Purge(task[c].item) \in SUBSET TokenIds
      /\ T!Purge(T!Content(tokenSecret)) \in SUBSET TokenIds
      /\ T!Purge(T!Content(tokenCache)) \in SUBSET TokenIds
      /\ tokenSecret # T!NoTokens => T!Content(tokenSecret) = tokenSecret
      /\ tokenCache # T!NoTokens => T!Content(tokenCache) = tokenCache
      /\ {} \in SUBSET TokenIds
      /\ tokenPuts \in SUBSET [by : Calls, value : SUBSET TokenIds]
      /\ task \in [Calls -> Task]
      /\ {"new", "post", "add", "update", "miss", "store", "sweep", "wipe", "end"} = TaskPcs
  BY TokenOfRequest, ContentIsTyped, PurgeIsTyped DEF TokensTyped, Task, T!Content, TaskPcs
<1>1. CASE T!CreateRead(c)
  <2>1. tokenSecret # T!NoTokens => T!Purge(tokenSecret) \union {request[c].token} \in SUBSET TokenIds
    BY <1>0, <1>1 DEF T!CreateRead, T!Begins
  <2>2. Tasks /\ Puts
    BY <1>0, <1>1, <2>1, GotoIsTyped, PutIsTyped DEF T!CreateRead
  <2> QED
    BY <1>1, <2>2 DEF T!CreateRead, T!stores, TokensTyped
<1>2. CASE T!CreatePost(c)
  <2>1. Tasks
    BY <1>0, <1>2, GotoIsTyped, AnswerIsTyped DEF T!CreatePost
  <2> QED
    BY <1>0, <1>2, <2>1, PlaceTellsOperation DEF T!CreatePost, TokensTyped, Creating
<1>3. CASE T!CreateAdd(c)
  <2>1. Tasks
    BY <1>0, <1>3, AnswerIsTyped DEF T!CreateAdd
  <2> QED
    BY <1>0, <1>3, <2>1, PlaceTellsOperation DEF T!CreateAdd, T!Unlocked, TokensTyped, Creating
<1>4. CASE T!VerifyCached(c)
  <2>1. Tasks
    BY <1>0, <1>4, GotoIsTyped, AnswerIsTyped DEF T!VerifyCached
  <2>2. Puts
    BY <1>0, <1>4, CleanIsTyped DEF T!VerifyCached
  <2> QED
    BY <1>4, <2>1, <2>2 DEF T!VerifyCached, T!stores, TokensTyped
<1>5. CASE T!VerifyUpdate(c)
  <2>1. Tasks
    BY <1>0, <1>5, GotoIsTyped, AnswerIsTyped DEF T!VerifyUpdate
  <2> QED
    BY <1>0, <1>5, <2>1 DEF T!VerifyUpdate, T!Unlocked, TokensTyped
<1>6. CASE T!VerifyLocked(c)
  <2>1. Tasks
    BY <1>0, <1>6, GotoIsTyped, AnswerIsTyped DEF T!VerifyLocked, T!Fetch
  <2>2. Puts
    BY <1>0, <1>6, CleanIsTyped DEF T!VerifyLocked
  <2> QED
    BY <1>0, <1>6, <2>1, <2>2 DEF T!VerifyLocked, T!Fetch, TokensTyped
<1>7. CASE T!Store(c)
  <2>1. Tasks
    BY <1>0, <1>7, AnswerIsTyped DEF T!Store
  <2>2. Puts
    BY <1>0, <1>7, CleanIsTyped DEF T!Store
  <2> QED
    BY <1>0, <1>7, <2>1, <2>2 DEF T!Store, TokensTyped
<1>8. CASE T!ListTokens(c)
  <2>1. Tasks
    BY <1>0, <1>8, GotoIsTyped, AnswerIsTyped DEF T!ListTokens, T!Fetch
  <2>2. Puts
    BY <1>0, <1>8, CleanIsTyped DEF T!ListTokens
  <2> QED
    BY <1>0, <1>8, <2>1, <2>2 DEF T!ListTokens, T!Fetch, TokensTyped
<1>9. CASE T!RevokeCached(c)
  <2>1. T!Doomed(c) \intersect (T!Content(tokenSecret) \union T!Content(tokenCache)) \in SUBSET TokenIds
    BY <1>0
  <2>2. Tasks
    BY <1>0, <1>9, <2>1, GotoIsTyped DEF T!RevokeCached
  <2> QED
    BY <1>0, <1>9, <2>2 DEF T!RevokeCached, T!Unlocked, TokensTyped
<1>10. CASE T!RevokeSecret(c)
  <2>1. T!Purge(T!Content(tokenSecret)) \ T!Doomed(c) \in SUBSET TokenIds
    BY <1>0
  <2>2. Tasks /\ Puts
    BY <1>0, <1>10, <2>1, AnswerIsTyped, PutIsTyped DEF T!RevokeSecret
  <2> QED
    BY <1>10, <2>2 DEF T!RevokeSecret, T!stores, TokensTyped
<1>11. CASE T!RevokeAll(c)
  <2>1. T!Content(tokenSecret) \union T!Content(tokenCache) \in SUBSET TokenIds
    BY <1>0
  <2>2. Tasks
    BY <1>0, <1>11, <2>1, GotoIsTyped DEF T!RevokeAll
  <2> QED
    BY <1>11, <2>2 DEF T!RevokeAll, TokensTyped
<1>12. CASE T!DeleteAll(c)
  <2>1. Tasks
    BY <1>0, <1>12, AnswerIsTyped DEF T!DeleteAll
  <2> QED
    BY <1>12, <2>1 DEF T!DeleteAll, TokensTyped
<1> QED
  BY <1>1, <1>2, <1>3, <1>4, <1>5, <1>6, <1>7, <1>8, <1>9, <1>10, <1>11, <1>12 DEF T!TokenStep

\* What the shared assignments do.
LEMMA GotoEffect ==
    ASSUME TokensTyped, NEW c \in Calls, NEW pc, NEW item, T!Goto(c, pc, item)
    PROVE  /\ \A d \in Calls \ {c} : task'[d] = task[d]
           /\ task'[c].pc = pc /\ task'[c].item = item /\ task'[c].ok = task[c].ok
BY DEF T!Goto, TokensTyped, Task

\* An answer ends the call, and touches no other one.
LEMMA AnswerEffect ==
    ASSUME TokensTyped, NEW c \in Calls, NEW ok, T!Answer(c, ok)
    PROVE  /\ \A d \in Calls \ {c} : task'[d] = task[d]
           /\ task'[c].pc = "end" /\ task'[c].item = task[c].item /\ task'[c].ok = ok
BY DEF T!Answer, TokensTyped, Task

\* A PUT is one more PUT of the call.
LEMMA PutEffect ==
    ASSUME NEW c \in Calls, NEW value, T!Put(c, value)
    PROVE  /\ tokenPuts \subseteq tokenPuts'
           /\ \A p \in tokenPuts' \ tokenPuts : p.by = c /\ p.value = value
           /\ \E p \in tokenPuts' : p.by = c /\ p.value = value
<1> DEFINE q == [by |-> c, value |-> value]
<1>1. q.by = c /\ q.value = value
  OBVIOUS
<1>2. tokenPuts' = tokenPuts \union {q}
  BY DEF T!Put
<1> HIDE DEF q
<1> QED
  BY <1>1, <1>2

\* cleanExistingTokens sends a PUT of what purge leaves, or none.
LEMMA CleanEffect ==
    ASSUME NEW c \in Calls, NEW value, T!Clean(c, value)
    PROVE  /\ tokenPuts \subseteq tokenPuts'
           /\ \A p \in tokenPuts' \ tokenPuts :
                  p.by = c /\ p.value = T!Purge(value) /\ T!Purge(value) # value
BY DEF T!Clean, T!Put

\* What cleanExistingTokens sends contains every valid token of the list.
LEMMA CleanKeeps ==
    ASSUME NEW c \in Calls, NEW value, NEW t, T!Clean(c, value),
           t \in T!Purge(value) \/ T!Purge(value) = value
    PROVE  \A p \in tokenPuts' \ tokenPuts : t \in p.value
BY CleanEffect

\* The call that begins was new, and blurs whatever it overlaps.
LEMMA BeginsEffect ==
    ASSUME NEW c \in Calls, NEW ops, T!Begins(c, ops)
    PROVE  /\ task[c].pc = "new" /\ request[c].op \in ops
           /\ \A d \in Calls \ {c} : T!Open(d) => {c, d} \subseteq blurred'
           /\ blurred \subseteq blurred'
BY DEF T!Begins

\* Every step of a call has that shape.
LEMMA StepsHaveShape ==
    ASSUME TokensTyped, NEW c \in Calls, T!TokenStep(c)
    PROVE  Shape(c)
<1> USE DEF Shape
<1>1. CASE T!CreateRead(c)
  BY <1>1, GotoEffect, AnswerEffect, PutEffect, CleanEffect, BeginsEffect DEF T!CreateRead, T!stores
<1>2. CASE T!CreatePost(c)
  <2>1. (\A d \in Calls \ {c} : task'[d] = task[d]) /\ task'[c].pc \in {"add", "end"}
    BY <1>2, GotoEffect, AnswerEffect DEF T!CreatePost
  <2>2. tokenPuts \subseteq tokenPuts' /\ \A p \in tokenPuts' \ tokenPuts : p.by = c
    BY <1>2 DEF T!CreatePost
  <2> QED
    BY <2>1, <2>2, <1>2 DEF T!CreatePost
<1>3. CASE T!CreateAdd(c)
  BY <1>3, GotoEffect, AnswerEffect, PutEffect, CleanEffect, BeginsEffect DEF T!CreateAdd, T!stores
<1>4. CASE T!VerifyCached(c)
  <2>1. (\A d \in Calls \ {c} : task'[d] = task[d]) /\ task'[c].pc \in {"update", "miss", "end"}
    BY <1>4, GotoEffect, AnswerEffect DEF T!VerifyCached
  <2>2. tokenPuts \subseteq tokenPuts' /\ \A p \in tokenPuts' \ tokenPuts : p.by = c
    BY <1>4, CleanEffect DEF T!VerifyCached
  <2> QED
    BY <2>1, <2>2, <1>4, BeginsEffect DEF T!VerifyCached
<1>5. CASE T!VerifyUpdate(c)
  <2>1. (\A d \in Calls \ {c} : task'[d] = task[d]) /\ task'[c].pc \in {"miss", "end"}
    BY <1>5, GotoEffect, AnswerEffect DEF T!VerifyUpdate
  <2>2. tokenPuts \subseteq tokenPuts' /\ \A p \in tokenPuts' \ tokenPuts : p.by = c
    BY <1>5 DEF T!VerifyUpdate
  <2> QED
    BY <2>1, <2>2, <1>5 DEF T!VerifyUpdate
<1>6. CASE T!VerifyLocked(c)
  <2>1. (\A d \in Calls \ {c} : task'[d] = task[d]) /\ task'[c].pc \in {"store", "end"}
    BY <1>6, GotoEffect, AnswerEffect DEF T!VerifyLocked, T!Fetch
  <2>2. tokenPuts \subseteq tokenPuts' /\ \A p \in tokenPuts' \ tokenPuts : p.by = c
    BY <1>6, CleanEffect DEF T!VerifyLocked
  <2> QED
    BY <2>1, <2>2, <1>6 DEF T!VerifyLocked
<1>7. CASE T!Store(c)
  BY <1>7, GotoEffect, AnswerEffect, PutEffect, CleanEffect, BeginsEffect DEF T!Store, T!stores
<1>8. CASE T!ListTokens(c)
  <2>1. (\A d \in Calls \ {c} : task'[d] = task[d]) /\ task'[c].pc \in {"store", "end"}
    BY <1>8, GotoEffect, AnswerEffect DEF T!ListTokens, T!Fetch
  <2>2. tokenPuts \subseteq tokenPuts' /\ \A p \in tokenPuts' \ tokenPuts : p.by = c
    BY <1>8, CleanEffect DEF T!ListTokens
  <2> QED
    BY <2>1, <2>2, <1>8, BeginsEffect DEF T!ListTokens
<1>9. CASE T!RevokeCached(c)
  BY <1>9, GotoEffect, AnswerEffect, PutEffect, CleanEffect, BeginsEffect DEF T!RevokeCached, T!stores
<1>10. CASE T!RevokeSecret(c)
  <2>1. (\A d \in Calls \ {c} : task'[d] = task[d]) /\ task'[c].pc \in {"end"}
    BY <1>10, GotoEffect, AnswerEffect DEF T!RevokeSecret
  <2>2. tokenPuts \subseteq tokenPuts' /\ \A p \in tokenPuts' \ tokenPuts : p.by = c
    BY <1>10, PutEffect DEF T!RevokeSecret
  <2> QED
    BY <2>1, <2>2, <1>10 DEF T!RevokeSecret
<1>11. CASE T!RevokeAll(c)
  BY <1>11, GotoEffect, AnswerEffect, PutEffect, CleanEffect, BeginsEffect DEF T!RevokeAll, T!stores
<1>12. CASE T!DeleteAll(c)
  BY <1>12, GotoEffect, AnswerEffect, PutEffect, CleanEffect, BeginsEffect DEF T!DeleteAll, T!stores
<1> QED
  BY <1>1, <1>2, <1>3, <1>4, <1>5, <1>6, <1>7, <1>8, <1>9, <1>10, <1>11, <1>12 DEF T!TokenStep

-----------------------------------------------------------------------------
(***************************************************************************)
(* The parts of the invariant that say who holds the mutex and who is      *)
(* where, over the steps of a call.                                        *)
(***************************************************************************)
\* A step of a call keeps the mutex with the call that has fetched the secret.
LEMMA MutexStep ==
    ASSUME TokensTyped, MutexHolds, NEW c \in Calls, T!TokenStep(c)
    PROVE  MutexHolds'
<1>0. NoCall \notin Calls
  BY TokensAssumption
<1>1. \A d \in Calls \ {c} : task'[d] = task[d]
  BY StepsHaveShape DEF Shape
<1>2. (task'[c].pc = "store" <=> tokenMutex' = c) /\ (\A d \in Calls \ {c} : tokenMutex' = d <=> tokenMutex = d)
  <2>1. CASE T!CreateRead(c)
    BY <2>1, GotoEffect, BeginsEffect DEF T!CreateRead, MutexHolds
  <2>2. CASE T!CreatePost(c)
    BY <2>2, GotoEffect, AnswerEffect DEF T!CreatePost, MutexHolds
  <2>3. CASE T!CreateAdd(c)
    BY <2>3, AnswerEffect DEF T!CreateAdd, MutexHolds, T!Unlocked
  <2>4. CASE T!VerifyCached(c)
    <3>1. task[c].pc = "new"
      BY <2>4, BeginsEffect DEF T!VerifyCached
    <3>2. task'[c].pc \in {"update", "miss", "end"}
      BY <2>4, GotoEffect, AnswerEffect DEF T!VerifyCached
    <3> QED
      BY <2>4, <3>1, <3>2 DEF T!VerifyCached, MutexHolds
  <2>5. CASE T!VerifyUpdate(c)
    BY <2>5, GotoEffect, AnswerEffect DEF T!VerifyUpdate, MutexHolds, T!Unlocked
  <2>6. CASE T!VerifyLocked(c)
    BY <1>0, <2>6, GotoEffect, AnswerEffect DEF T!VerifyLocked, T!Fetch, MutexHolds
  <2>7. CASE T!Store(c)
    BY <1>0, <2>7, AnswerEffect DEF T!Store, MutexHolds
  <2>8. CASE T!ListTokens(c)
    <3>1. task[c].pc = "new"
      BY <2>8, BeginsEffect DEF T!ListTokens
    <3>2. \/ task'[c].pc = "end" /\ UNCHANGED tokenMutex
          \/ task'[c].pc = "store" /\ tokenMutex = NoCall /\ tokenMutex' = c
      BY <2>8, GotoEffect, AnswerEffect DEF T!ListTokens, T!Fetch
    <3> QED
      BY <1>0, <3>1, <3>2 DEF MutexHolds
  <2>9. CASE T!RevokeCached(c)
    BY <2>9, GotoEffect, BeginsEffect DEF T!RevokeCached, MutexHolds, T!Unlocked
  <2>10. CASE T!RevokeSecret(c)
    BY <2>10, AnswerEffect DEF T!RevokeSecret, MutexHolds
  <2>11. CASE T!RevokeAll(c)
    BY <2>11, GotoEffect, BeginsEffect DEF T!RevokeAll, MutexHolds
  <2>12. CASE T!DeleteAll(c)
    BY <2>12, AnswerEffect DEF T!DeleteAll, MutexHolds
  <2> QED
    BY <2>1, <2>2, <2>3, <2>4, <2>5, <2>6, <2>7, <2>8, <2>9, <2>10, <2>11, <2>12 DEF T!TokenStep
<1> QED
  BY <1>1, <1>2 DEF MutexHolds

\* A step of a call leads to a place of its own operation.
LEMMA PlacesStep ==
    ASSUME TokensTyped, PlacesAreOwn, NEW c \in Calls, T!TokenStep(c), UNCHANGED request
    PROVE  PlacesAreOwn'
<1>0. Shape(c)
  BY StepsHaveShape
<1>1. task'[c].pc \in PcsOf(request[c].op)
  <2> USE DEF PcsOf, Creating, T!Sweeps
  <2>0. task[c].pc \in PcsOf(request[c].op)
    BY DEF PlacesAreOwn
  <2>1. CASE T!CreateRead(c)
    BY <2>1, GotoEffect, BeginsEffect DEF T!CreateRead
  <2>2. CASE T!CreatePost(c)
    BY <2>0, <2>2, GotoEffect, AnswerEffect DEF T!CreatePost
  <2>3. CASE T!CreateAdd(c)
    BY <2>0, <2>3, AnswerEffect DEF T!CreateAdd
  <2>4. CASE T!VerifyCached(c)
    <3>1. task'[c].pc \in {"update", "miss", "end"}
      BY <2>4, GotoEffect, AnswerEffect DEF T!VerifyCached
    <3> QED
      BY <2>4, <3>1, BeginsEffect DEF T!VerifyCached
  <2>5. CASE T!VerifyUpdate(c)
    BY <2>0, <2>5, GotoEffect, AnswerEffect DEF T!VerifyUpdate
  <2>6. CASE T!VerifyLocked(c)
    BY <2>0, <2>6, GotoEffect, AnswerEffect DEF T!VerifyLocked, T!Fetch
  <2>7. CASE T!Store(c)
    BY <2>0, <2>7, AnswerEffect DEF T!Store
  <2>8. CASE T!ListTokens(c)
    <3>1. task'[c].pc \in {"store", "end"}
      BY <2>8, GotoEffect, AnswerEffect DEF T!ListTokens, T!Fetch
    <3> QED
      BY <2>8, <3>1, BeginsEffect DEF T!ListTokens
  <2>9. CASE T!RevokeCached(c)
    BY <2>9, GotoEffect, BeginsEffect DEF T!RevokeCached
  <2>10. CASE T!RevokeSecret(c)
    BY <2>0, <2>10, AnswerEffect DEF T!RevokeSecret
  <2>11. CASE T!RevokeAll(c)
    BY <2>11, GotoEffect, BeginsEffect DEF T!RevokeAll
  <2>12. CASE T!DeleteAll(c)
    BY <2>0, <2>12, AnswerEffect DEF T!DeleteAll
  <2> QED
    BY <2>1, <2>2, <2>3, <2>4, <2>5, <2>6, <2>7, <2>8, <2>9, <2>10, <2>11, <2>12 DEF T!TokenStep
<1>2. ASSUME NEW p \in tokenPuts'
      PROVE  task'[p.by].pc \notin {"new", "post", "sweep", "wipe"}
  <2>1. CASE p \in tokenPuts
    BY <1>0, <2>1 DEF Shape, PlacesAreOwn, TokensTyped
  <2>2. CASE p \notin tokenPuts
    BY <1>0, <2>2 DEF Shape
  <2> QED
    BY <2>1, <2>2
<1> QED
  BY <1>0, <1>1, <1>2 DEF PlacesAreOwn, Shape

\* An open call has begun.
LEMMA OpenHasBegun ==
    ASSUME PlacesAreOwn, NEW c \in Calls, T!Open(c)
    PROVE  task[c].pc # "new"
BY DEF PlacesAreOwn, T!Open

\* A step of a call keeps the others closed while an unblurred one is open: whoever
\* begins meanwhile blurs it.
LEMMA AloneStep ==
    ASSUME TokensTyped, PlacesAreOwn, AloneWhileOpen, NEW c \in Calls, T!TokenStep(c)
    PROVE  AloneWhileOpen'
<1>0. Shape(c)
  BY StepsHaveShape
<1>1. \A d \in Calls \ {c} : T!Open(d)' <=> T!Open(d)
  BY <1>0 DEF Shape, T!Open
<1> SUFFICES ASSUME NEW a \in Calls \ blurred', T!Open(a)', NEW d \in Calls \ {a}, T!Open(d)'
             PROVE  FALSE
  BY DEF AloneWhileOpen
<1>2. CASE a # c /\ d # c
  BY <1>0, <1>1, <1>2 DEF AloneWhileOpen, Shape
<1>3. CASE a = c
  <2>1. CASE task[c].pc = "new"
    BY <1>0, <1>1, <1>3, <2>1 DEF Shape
  <2>2. CASE task[c].pc \notin {"new", "end"}
    BY <1>0, <1>1, <1>3, <2>2 DEF Shape, AloneWhileOpen, T!Open
  <2> QED
    BY <1>0, <2>1, <2>2 DEF Shape
<1>4. CASE d = c
  <2>1. CASE task[c].pc = "new"
    BY <1>0, <1>1, <1>4, <2>1 DEF Shape
  <2>2. CASE task[c].pc \notin {"new", "end"}
    BY <1>0, <1>1, <1>4, <2>2 DEF Shape, AloneWhileOpen, T!Open
  <2> QED
    BY <1>0, <2>1, <2>2 DEF Shape
<1> QED
  BY <1>2, <1>3, <1>4

-----------------------------------------------------------------------------
(***************************************************************************)
(* Where a token can come from.                                            *)
(***************************************************************************)
\* Where the tokens that c puts anywhere come from.
From(c, t) == Copied(t) \/ t \in T!Content(tokenSecret) \/ Creates(c, t)

\* Contents are members, and purges and puts add none.
LEMMA ContentIsMember ==
    ASSUME NEW store, NEW t
    PROVE  /\ t \in T!Content(store) => t \in store
           /\ t \in T!Purge(store) => t \in store
           /\ t \in store /\ store # T!NoTokens => t \in T!Content(store)
BY DEF T!Content, T!Purge

\* A store that is not there holds no token.
LEMMA NothingInNoTokens == T!Content(T!NoTokens) = {}
BY DEF T!Content

\* What a step of a call puts anywhere was somewhere before, or the call creates it.
LEMMA StepMoves ==
    ASSUME TokensTyped, PlacesAreOwn, NEW c \in Calls, T!TokenStep(c), NEW t
    PROVE  /\ t \in T!Content(tokenSecret') => From(c, t)
           /\ t \in T!Content(tokenCache') => From(c, t)
           /\ \A p \in tokenPuts' \ tokenPuts : t \in p.value => From(c, t)
           /\ task'[c].pc \in {"update", "store"} => (t \in task'[c].item => From(c, t))
<1> DEFINE Puts   == \A p \in tokenPuts' \ tokenPuts : t \in p.value => From(c, t)
           Items  == task'[c].pc \in {"update", "store"} => (t \in task'[c].item => From(c, t))
<1> USE ContentIsMember, NothingInNoTokens
<1>0. /\ t \in T!Content(tokenSecret) => From(c, t)
      /\ t \in T!Content(tokenCache) => From(c, t)
      /\ task[c].pc \in {"update", "store"} /\ t \in task[c].item => From(c, t)
      /\ request[c].op \in {"issue", "signIn"} /\ t = request[c].token => From(c, t)
      /\ task[c].pc \in {"post", "add"} => request[c].op \in {"issue", "signIn"}
  BY PlaceTellsOperation DEF From, Copied, Held, Creates, Creating
<1>1. CASE T!CreateRead(c)
  <2>1. request[c].op \in {"issue", "signIn"}
    BY <1>1, BeginsEffect DEF T!CreateRead
  <2>2. Puts
    BY <1>0, <1>1, <2>1, PutEffect DEF T!CreateRead
  <2>3. Items
    BY <1>1, GotoEffect DEF T!CreateRead
  <2> QED
    BY <1>0, <1>1, <2>2, <2>3 DEF T!CreateRead, T!stores
<1>2. CASE T!CreatePost(c)
  <2>1. Items
    BY <1>2, GotoEffect, AnswerEffect DEF T!CreatePost
  <2> QED
    BY <1>0, <1>2, <2>1 DEF T!CreatePost
<1>3. CASE T!CreateAdd(c)
  <2>1. Items
    BY <1>3, AnswerEffect DEF T!CreateAdd
  <2> QED
    BY <1>0, <1>3, <2>1 DEF T!CreateAdd
<1>4. CASE T!VerifyCached(c)
  <2>1. Items
    <3>1. \/ T!Goto(c, "update", T!Purge(T!Content(tokenCache)))
          \/ T!Answer(c, TRUE) \/ T!Goto(c, "miss", {})
      BY <1>4 DEF T!VerifyCached
    <3>2. CASE T!Answer(c, TRUE)
      BY <3>2, AnswerEffect
    <3>3. CASE T!Goto(c, "update", T!Purge(T!Content(tokenCache)))
      <4>1. task'[c].item = T!Purge(T!Content(tokenCache))
        BY <3>3, GotoEffect
      <4> QED
        BY <1>0, <4>1, ContentIsMember
    <3>4. CASE T!Goto(c, "miss", {})
      BY <3>4, GotoEffect
    <3> QED
      BY <3>1, <3>2, <3>3, <3>4
  <2>2. Puts
    BY <1>0, <1>4, CleanEffect DEF T!VerifyCached
  <2> QED
    BY <1>0, <1>4, <2>1, <2>2 DEF T!VerifyCached, T!stores
<1>5. CASE T!VerifyUpdate(c)
  <2>1. Items
    <3>1. T!Answer(c, TRUE) \/ T!Goto(c, "miss", {})
      BY <1>5 DEF T!VerifyUpdate
    <3>2. CASE T!Answer(c, TRUE)
      BY <3>2, AnswerEffect
    <3>3. CASE ~T!Answer(c, TRUE)
      BY <3>1, <3>3, GotoEffect
    <3> QED
      BY <3>2, <3>3
  <2> QED
    BY <1>0, <1>5, <2>1 DEF T!VerifyUpdate
<1>6. CASE T!VerifyLocked(c)
  <2>1. Items
    <3>1. T!Answer(c, TRUE) \/ T!Goto(c, "store", T!Content(tokenSecret))
      BY <1>6 DEF T!VerifyLocked, T!Fetch
    <3>2. CASE T!Answer(c, TRUE)
      BY <3>2, AnswerEffect
    <3>3. CASE T!Goto(c, "store", T!Content(tokenSecret))
      <4>1. task'[c].item = T!Content(tokenSecret)
        BY <3>3, GotoEffect
      <4> QED
        BY <1>0, <4>1, ContentIsMember
    <3> QED
      BY <3>1, <3>2, <3>3
  <2>2. Puts
    BY <1>0, <1>6, CleanEffect DEF T!VerifyLocked
  <2> QED
    BY <1>0, <1>6, <2>1, <2>2 DEF T!VerifyLocked
<1>7. CASE T!Store(c)
  <2>1. Items
    BY <1>7, AnswerEffect DEF T!Store
  <2>2. Puts
    BY <1>0, <1>7, CleanEffect DEF T!Store
  <2> QED
    BY <1>0, <1>7, <2>1, <2>2 DEF T!Store
<1>8. CASE T!ListTokens(c)
  <2>1. Items
    <3>1. T!Answer(c, TRUE) \/ T!Goto(c, "store", T!Content(tokenSecret))
      BY <1>8 DEF T!ListTokens, T!Fetch
    <3>2. CASE T!Answer(c, TRUE)
      BY <3>2, AnswerEffect
    <3>3. CASE T!Goto(c, "store", T!Content(tokenSecret))
      <4>1. task'[c].item = T!Content(tokenSecret)
        BY <3>3, GotoEffect
      <4> QED
        BY <1>0, <4>1, ContentIsMember
    <3> QED
      BY <3>1, <3>2, <3>3
  <2>2. Puts
    <3>1. UNCHANGED tokenPuts \/ (tokenCache # T!NoTokens /\ T!Clean(c, tokenCache))
      BY <1>8 DEF T!ListTokens
    <3> QED
      BY <1>0, <3>1, CleanEffect
  <2> QED
    BY <1>0, <1>8, <2>1, <2>2 DEF T!ListTokens
<1>9. CASE T!RevokeCached(c)
  <2>1. Items
    BY <1>9, GotoEffect DEF T!RevokeCached
  <2> QED
    BY <1>0, <1>9, <2>1 DEF T!RevokeCached
<1>10. CASE T!RevokeSecret(c)
  <2>1. Items
    BY <1>10, AnswerEffect DEF T!RevokeSecret
  <2>2. Puts
    BY <1>0, <1>10, PutEffect DEF T!RevokeSecret
  <2> QED
    BY <1>0, <1>10, <2>1, <2>2 DEF T!RevokeSecret, T!stores
<1>11. CASE T!RevokeAll(c)
  <2>1. Items
    BY <1>11, GotoEffect DEF T!RevokeAll
  <2> QED
    BY <1>0, <1>11, <2>1 DEF T!RevokeAll
<1>12. CASE T!DeleteAll(c)
  <2>1. Items
    BY <1>12, AnswerEffect DEF T!DeleteAll
  <2> QED
    BY <1>0, <1>12, <2>1 DEF T!DeleteAll
<1> QED
  BY <1>1, <1>2, <1>3, <1>4, <1>5, <1>6, <1>7, <1>8, <1>9, <1>10, <1>11, <1>12 DEF T!TokenStep

\* After a step of a call every token was somewhere before, or the call creates it.
LEMMA CopiesComeFrom ==
    ASSUME TokensTyped, PlacesAreOwn, NEW c \in Calls, T!TokenStep(c),
           NEW t, Copied(t)' \/ t \in T!Content(tokenSecret')
    PROVE  From(c, t)
<1>1. CASE t \in T!Content(tokenSecret') \/ t \in T!Content(tokenCache')
  BY <1>1, StepMoves
<1>2. ASSUME NEW p \in tokenPuts', t \in p.value
      PROVE  From(c, t)
  BY <1>2, StepMoves DEF From, Copied
<1>3. ASSUME NEW d \in Calls, t \in Held(d)'
      PROVE  From(c, t)
  <2>1. CASE d = c
    BY <1>3, <2>1, StepMoves DEF Held
  <2>2. CASE d # c
    BY <1>3, <2>2, StepsHaveShape DEF Held, Shape, From, Copied
  <2> QED
    BY <2>1, <2>2
<1> QED
  BY <1>1, <1>2, <1>3 DEF Copied

\* A step of a call brings no token but the one that it was asked to create.
LEMMA CreatedStep ==
    ASSUME TokensTyped, PlacesAreOwn, TokensAreCreated, NEW c \in Calls, T!TokenStep(c),
           UNCHANGED request
    PROVE  TokensAreCreated'
<1> SUFFICES ASSUME NEW t \in TokenIds, Copied(t)' \/ t \in T!Content(tokenSecret')
             PROVE  \E d \in Calls : Creates(d, t) /\ task'[d].pc # "new"
  BY DEF TokensAreCreated, Creates
<1>1. From(c, t)
  BY CopiesComeFrom
<1>2. \A d \in Calls : task[d].pc # "new" => task'[d].pc # "new"
  BY StepsHaveShape DEF Shape
<1>3. task'[c].pc # "new"
  BY StepsHaveShape DEF Shape
<1> QED
  BY <1>1, <1>2, <1>3 DEF From, TokensAreCreated

-----------------------------------------------------------------------------
(***************************************************************************)
(* Revocations, over the steps of a call.                                  *)
(***************************************************************************)
\* Two calls do not create the same token.
LEMMA CreatorIsUnique ==
    ASSUME request \in Scripts, NEW c \in Calls, NEW d \in Calls, NEW t,
           Creates(c, t), Creates(d, t)
    PROVE  c = d
<1> SUFFICES ASSUME c # d
             PROVE  FALSE
  OBVIOUS
<1>1. {request[c].op, request[d].op} \subseteq {"issue", "signIn"}
  BY DEF Creates, Creating
<1>2. \A a \in Calls : \A b \in Calls \ {a} :
          {request[a].op, request[b].op} \subseteq {"issue", "signIn"}
              => request[a].token # request[b].token
  BY TokensAssumption
<1> QED
  BY <1>1, <1>2 DEF Creates

\* While a call that is not blurred is open, and when it begins, the others are quiet:
\* none of them is open, and no PUT is under way but its own.
LEMMA OthersAreQuiet ==
    ASSUME TokensTyped, PlacesAreOwn, NEW c \in Calls, \A d \in Calls \ {c} : ~T!Open(d)
    PROVE  /\ \A d \in Calls \ {c} : task[d].pc \in {"new", "end"} /\ Held(d) = {}
           /\ \A p \in tokenPuts : p.by = c
           /\ task[c].pc \in {"new", "post", "sweep", "wipe"} => tokenPuts = {}
BY DEF TokensTyped, PlacesAreOwn, T!Open, Held

\* A step of another call is impossible while an unblurred call is open, or blurs it.
LEMMA UnblurredIsClosed ==
    ASSUME TokensTyped, PlacesAreOwn, AloneWhileOpen, NEW c \in Calls, T!TokenStep(c),
           NEW r \in Calls \ {c}, r \notin blurred'
    PROVE  r \notin blurred /\ ~T!Open(r)
<1>0. Shape(c)
  BY StepsHaveShape
<1>1. r \notin blurred
  BY <1>0 DEF Shape
<1>2. CASE task[c].pc = "new"
  BY <1>0, <1>2 DEF Shape
<1>3. CASE task[c].pc # "new"
  <2>1. T!Open(c)
    BY <1>0, <1>3 DEF Shape, T!Open
  <2> QED
    BY <1>1, <2>1 DEF AloneWhileOpen
<1> QED
  BY <1>1, <1>2, <1>3

\* What r has revoked stays gone in a step of another call c: c can only bring back
\* what it finds somewhere, and r has left nothing to find.
LEMMA RevokedStepOfAnother ==
    ASSUME TokenInv, request \in Scripts, NEW c \in Calls, T!TokenStep(c), UNCHANGED request,
           NEW r \in Calls \ {c}, r \notin blurred', request[r].op \in Revoking,
           task'[r].pc # "new", NEW t \in task'[r].item
    PROVE  RevokedIsGone(r, t)'
<1>0. Shape(c) /\ TokensTyped /\ PlacesAreOwn
  BY StepsHaveShape DEF TokenInv
<1>1. r \notin blurred /\ ~T!Open(r)
  BY <1>0, UnblurredIsClosed DEF TokenInv
<1>2. task'[r] = task[r] /\ task[r].pc = "end"
  BY <1>0, <1>1 DEF Shape, T!Open
<1>3. RevokedIsGone(r, t)
  BY <1>1, <1>2 DEF TokenInv, RevocationsHold
<1>4. PICK d \in Calls : Creates(d, t) /\ task[d].pc = "end"
  BY <1>3 DEF RevokedIsGone
<1>5. d # c
  BY <1>0, <1>4 DEF Shape
<1>6. ~From(c, t)
  BY <1>1, <1>2, <1>3, <1>4, <1>5, CreatorIsUnique DEF From, RevokedIsGone
<1>7. ~Copied(t)' /\ t \notin T!Content(tokenSecret')
  BY <1>0, <1>6, CopiesComeFrom
<1>8. Creates(d, t)' /\ task'[d].pc = "end"
  BY <1>0, <1>4, <1>5 DEF Creates, Shape
<1>9. T!Content(tokenSecret)' = T!Content(tokenSecret')
  BY DEF T!Content, T!NoTokens
<1> QED
  BY <1>2, <1>7, <1>8, <1>9 DEF RevokedIsGone

\* What a revocation is to make unusable is gone after each of its own steps: nothing
\* else is open, so no copy is on its way.
LEMMA RevokedStepOfItself ==
    ASSUME TokenInv, request \in Scripts, NEW c \in Calls, T!TokenStep(c), UNCHANGED request,
           c \notin blurred', request[c].op \in Revoking, NEW t \in task'[c].item
    PROVE  RevokedIsGone(c, t)'
<1>0. Shape(c) /\ TokensTyped /\ PlacesAreOwn
  BY StepsHaveShape DEF TokenInv
<1>1. \A d \in Calls \ {c} : ~T!Open(d) /\ task'[d] = task[d]
  BY <1>0, UnblurredIsClosed DEF TokenInv, Shape, AloneWhileOpen, T!Open
<1>2. \A d \in Calls \ {c} : task[d].pc \in {"new", "end"} /\ Held(d)' = {}
  BY <1>0, <1>1, OthersAreQuiet DEF Held
<1>3. t \in T!Content(tokenSecret) \union T!Content(tokenCache)
          => \E d \in Calls \ {c} : Creates(d, t) /\ task[d].pc = "end"
  <2>1. T!Content(tokenSecret) \union T!Content(tokenCache) \subseteq TokenIds
    BY <1>0, ContentIsTyped DEF TokensTyped
  <2>2. ~Creates(c, t)
    BY DEF Creates, Creating, Revoking, T!Sweeps
  <2> QED
    BY <1>2, <2>1, <2>2 DEF TokenInv, TokensAreCreated, Copied
<1>4. CASE T!RevokeCached(c)
  <2>1. tokenPuts' = {}
    BY <1>0, <1>1, <1>4, OthersAreQuiet, BeginsEffect DEF T!RevokeCached
  <2>2. task'[c].pc = "sweep" /\ t \in T!Doomed(c)
        /\ t \in T!Content(tokenSecret) \union T!Content(tokenCache)
    BY <1>0, <1>4, GotoEffect DEF T!RevokeCached
  <2>3. t \notin T!Content(tokenCache')
    BY <1>4, <2>2, ContentIsMember, NothingInNoTokens DEF T!RevokeCached
  <2> QED
    BY <1>1, <1>2, <1>3, <2>1, <2>2, <2>3 DEF RevokedIsGone, Copied, Held, Creates, T!Doomed, T!Content, T!NoTokens
<1>5. CASE T!RevokeAll(c)
  <2>1. tokenPuts' = {}
    BY <1>0, <1>1, <1>5, OthersAreQuiet, BeginsEffect DEF T!RevokeAll
  <2>2. task'[c].pc = "wipe"
        /\ t \in T!Content(tokenSecret) \union T!Content(tokenCache)
    BY <1>0, <1>5, GotoEffect DEF T!RevokeAll
  <2>3. t \notin T!Content(tokenCache')
    BY <1>5, NothingInNoTokens DEF T!RevokeAll
  <2> QED
    BY <1>1, <1>2, <1>3, <2>1, <2>2, <2>3 DEF RevokedIsGone, Copied, Held, Creates, T!Content, T!NoTokens
<1>6. ASSUME T!RevokeSecret(c) \/ T!DeleteAll(c)
      PROVE  /\ RevokedIsGone(c, t) /\ tokenPuts = {} /\ UNCHANGED tokenCache
             /\ task[c].pc \in {"sweep", "wipe"} /\ task'[c].pc = "end"
             /\ \E d \in Calls \ {c} : Creates(d, t)' /\ task'[d].pc = "end"
  <2>1. task[c].pc \in {"sweep", "wipe"} /\ UNCHANGED <<tokenCache, blurred>>
    BY <1>6 DEF T!RevokeSecret, T!DeleteAll, T!stores
  <2>2. task'[c].pc = "end" /\ t \in task[c].item
    BY <1>0, <1>6, AnswerEffect DEF T!RevokeSecret, T!DeleteAll
  <2>3. RevokedIsGone(c, t)
    BY <2>1, <2>2 DEF TokenInv, RevocationsHold
  <2>4. tokenPuts = {}
    BY <1>0, <1>1, <2>1, OthersAreQuiet
  <2>5. \E d \in Calls \ {c} : Creates(d, t) /\ task[d].pc = "end"
    BY <2>1, <2>3 DEF RevokedIsGone
  <2> QED
    BY <1>1, <2>1, <2>2, <2>3, <2>4, <2>5 DEF Creates
<1>7. CASE T!RevokeSecret(c)
  <2>1. /\ \A p \in tokenPuts' : t \notin p.value
        /\ t \notin T!Content(tokenSecret) \/ \E p \in tokenPuts' : p.by = c
    <3>1. CASE tokenPuts' = {} /\ tokenSecret = T!NoTokens
      BY <3>1, NothingInNoTokens
    <3>2. CASE T!Put(c, T!Purge(T!Content(tokenSecret)) \ T!Doomed(c))
      <4>1. t \in T!Doomed(c)
        BY <1>6, <1>7 DEF RevokedIsGone, T!RevokeSecret
      <4> QED
        BY <1>6, <1>7, <3>2, <4>1, PutEffect
    <3> QED
      BY <1>6, <1>7, <3>1, <3>2 DEF T!RevokeSecret
  <2> QED
    BY <1>2, <1>6, <1>7, <2>1
       DEF RevokedIsGone, Copied, Held, T!Open, T!RevokeSecret, T!stores, T!Content, T!NoTokens
<1>8. CASE T!DeleteAll(c)
  BY <1>2, <1>6, <1>8, NothingInNoTokens
     DEF RevokedIsGone, Copied, Held, T!DeleteAll, T!Content, T!NoTokens
<1>9. T!RevokeCached(c) \/ T!RevokeAll(c) \/ T!RevokeSecret(c) \/ T!DeleteAll(c)
  <2>1. request[c].op \notin {"issue", "signIn", "verify", "listTokens"}
    BY DEF Revoking, T!Sweeps
  <2>2. task[c].pc \notin {"post", "add", "update", "miss", "store"}
    BY <1>0, <2>1, PlaceTellsOperation DEF Creating
  <2> QED
    BY <2>1, <2>2, BeginsEffect DEF T!TokenStep, T!CreateRead, T!CreatePost, T!CreateAdd,
       T!VerifyCached, T!VerifyUpdate, T!VerifyLocked, T!Store, T!ListTokens
<1> QED
  BY <1>4, <1>5, <1>7, <1>8, <1>9

\* RevocationsHold is kept by the steps of the calls.
LEMMA RevocationsStep ==
    ASSUME TokenInv, request \in Scripts, NEW c \in Calls, T!TokenStep(c), UNCHANGED request
    PROVE  RevocationsHold'
<1> SUFFICES ASSUME NEW r \in Calls, r \notin blurred', request[r].op \in Revoking,
                    task'[r].pc # "new", NEW t \in task'[r].item
             PROVE  RevokedIsGone(r, t)'
  BY DEF RevocationsHold
<1> QED
  BY RevokedStepOfAnother, RevokedStepOfItself

-----------------------------------------------------------------------------
(***************************************************************************)
(* Creations, over the steps of a call.                                    *)
(***************************************************************************)
\* The token is in the secret and in every copy of the list of tokens.
Everywhere(t) ==
    /\ t \in T!Content(tokenSecret)
    /\ \A p \in tokenPuts : t \in p.value
    /\ \A d \in Calls : task[d].pc \in {"update", "store"} => t \in task[d].item
    /\ tokenCache # T!NoTokens => t \in tokenCache

\* c is to make t unusable, once it begins.
Condemns(c, t) ==
    \/ request[c].op = "revokeAll"
    \/ request[c].op \in {"revoke"} \union T!Sweeps /\ t \in T!Doomed(c)

\* purge removes no valid token.
LEMMA PurgeKeeps ==
    ASSUME NEW store, NEW t, t \notin expired
    PROVE  t \in store => t \in T!Purge(store)
BY DEF T!Purge

\* What a call sends, keeps for later and puts into the cache contains a token that was
\* everywhere, unless the token has expired or the call is to make it unusable.
LEMMA StepKeeps ==
    ASSUME TokensTyped, PlacesAreOwn, NEW c \in Calls, T!TokenStep(c), NEW t,
           Everywhere(t), t \notin expired, ~Condemns(c, t), ~Creates(c, t), ~partial'
    PROVE  /\ UNCHANGED tokenSecret
           /\ \A p \in tokenPuts' \ tokenPuts : t \in p.value
           /\ task'[c].pc \in {"update", "store"} => t \in task'[c].item
           /\ tokenCache' # T!NoTokens => t \in tokenCache'
<1> DEFINE Puts  == \A p \in tokenPuts' \ tokenPuts : t \in p.value
           Items == task'[c].pc \in {"update", "store"} => t \in task'[c].item
           Cache == tokenCache' # T!NoTokens => t \in tokenCache'
<1>0. /\ tokenSecret # T!NoTokens /\ t \in tokenSecret /\ t \in T!Content(tokenSecret)
      /\ t \in T!Purge(tokenSecret) /\ t \in T!Purge(T!Content(tokenSecret))
      /\ tokenCache # T!NoTokens =>
             t \in tokenCache /\ t \in T!Content(tokenCache) /\ t \in T!Purge(T!Content(tokenCache))
             /\ t \in T!Purge(tokenCache)
      /\ tokenCache = T!NoTokens =>
             T!Content(tokenCache) = {} /\ T!Purge(T!Content(tokenCache)) = {}
      /\ task[c].pc \in {"update", "store"} => t \in task[c].item /\ t \in T!Purge(task[c].item)
  BY DEF Everywhere, T!Content, T!Purge
<1>a. request[c].op \in {"revoke"} \union T!Sweeps => t \notin T!Doomed(c)
  BY DEF Condemns
<1>b. request[c].op # "revokeAll"
  BY DEF Condemns
<1>1. CASE T!CreateRead(c)
  <2>1. Puts
    BY <1>0, <1>1, PutEffect DEF T!CreateRead
  <2>2. Items
    BY <1>1, GotoEffect DEF T!CreateRead
  <2> QED
    BY <1>0, <1>1, <2>1, <2>2 DEF T!CreateRead, T!stores
<1>2. CASE T!CreatePost(c)
  <2>1. T!Answer(c, FALSE) /\ UNCHANGED tokenSecret
    BY <1>0, <1>2 DEF T!CreatePost
  <2>2. Items
    BY <2>1, AnswerEffect
  <2> QED
    BY <1>0, <1>2, <2>1, <2>2 DEF T!CreatePost
<1>3. CASE T!CreateAdd(c)
  <2>1. Items
    BY <1>3, AnswerEffect DEF T!CreateAdd
  <2>2. tokenCache = T!NoTokens => t = request[c].token
    BY <1>0, <1>3 DEF T!CreateAdd
  <2>3. request[c].op \in Creating
    BY <1>3, PlaceTellsOperation DEF T!CreateAdd
  <2>4. t \in tokenCache'
    BY <1>0, <1>3, <2>2, <2>3 DEF T!CreateAdd, Creates
  <2> QED
    BY <1>0, <1>3, <2>1, <2>4 DEF T!CreateAdd
<1>4. CASE T!VerifyCached(c)
  <2>1. Puts
    <3>1. T!Clean(c, T!Content(tokenCache))
      BY <1>4 DEF T!VerifyCached
    <3>2. t \in T!Purge(T!Content(tokenCache)) \/ T!Purge(T!Content(tokenCache)) = T!Content(tokenCache)
      BY <1>0
    <3> QED
      BY <3>1, <3>2, CleanKeeps
  <2>2. CASE T!Purge(T!Content(tokenCache)) # T!Content(tokenCache)
    <3>1. T!Goto(c, "update", T!Purge(T!Content(tokenCache)))
      BY <1>4, <2>2 DEF T!VerifyCached
    <3>2. task'[c].item = T!Purge(T!Content(tokenCache))
      BY <3>1, GotoEffect
    <3> QED
      BY <1>0, <1>4, <2>1, <2>2, <3>2 DEF T!VerifyCached, T!stores
  <2>3. CASE T!Purge(T!Content(tokenCache)) = T!Content(tokenCache)
    <3>1. T!Answer(c, TRUE) \/ T!Goto(c, "miss", {})
      BY <1>4, <2>3 DEF T!VerifyCached
    <3>2. CASE T!Answer(c, TRUE)
      BY <1>0, <1>4, <2>1, <3>2, AnswerEffect DEF T!VerifyCached, T!stores
    <3>3. CASE T!Goto(c, "miss", {})
      BY <1>0, <1>4, <2>1, <3>3, GotoEffect DEF T!VerifyCached, T!stores
    <3> QED
      BY <3>1, <3>2, <3>3
  <2> QED
    BY <2>2, <2>3
<1>5. CASE T!VerifyUpdate(c)
  <2>1. task'[c].pc \in {"miss", "end"}
    <3>1. T!Answer(c, TRUE) \/ T!Goto(c, "miss", {})
      BY <1>5 DEF T!VerifyUpdate
    <3>2. CASE T!Answer(c, TRUE)
      BY <3>2, AnswerEffect
    <3>3. CASE T!Goto(c, "miss", {})
      BY <3>3, GotoEffect
    <3> QED
      BY <3>1, <3>2, <3>3
  <2> QED
    BY <1>0, <1>5, <2>1 DEF T!VerifyUpdate
<1>6. CASE T!VerifyLocked(c)
  <2>1. Puts
    <3>1. T!Clean(c, T!Content(tokenCache))
      BY <1>6 DEF T!VerifyLocked
    <3>2. t \in T!Purge(T!Content(tokenCache)) \/ T!Purge(T!Content(tokenCache)) = T!Content(tokenCache)
      BY <1>0
    <3> QED
      BY <3>1, <3>2, CleanKeeps
  <2>2. Items
    <3>1. T!Answer(c, TRUE) \/ T!Goto(c, "store", T!Content(tokenSecret))
      BY <1>6 DEF T!VerifyLocked, T!Fetch
    <3>2. CASE T!Answer(c, TRUE)
      BY <3>2, AnswerEffect
    <3>3. CASE T!Goto(c, "store", T!Content(tokenSecret))
      BY <1>0, <3>3, GotoEffect
    <3> QED
      BY <3>1, <3>2, <3>3
  <2> QED
    BY <1>0, <1>6, <2>1, <2>2 DEF T!VerifyLocked
<1>7. CASE T!Store(c)
  <2>1. Puts
    <3>1. T!Clean(c, task[c].item) /\ t \in T!Purge(task[c].item)
      BY <1>0, <1>7 DEF T!Store
    <3> QED
      BY <3>1, CleanKeeps
  <2>2. Items
    BY <1>7, AnswerEffect DEF T!Store
  <2> QED
    BY <1>0, <1>7, <2>1, <2>2 DEF T!Store
<1>8. CASE T!ListTokens(c)
  <2>1. Puts
    <3>1. UNCHANGED tokenPuts \/ (tokenCache # T!NoTokens /\ T!Clean(c, tokenCache))
      BY <1>8 DEF T!ListTokens
    <3> QED
      BY <1>0, <3>1, CleanEffect
  <2>2. Items
    <3>1. T!Answer(c, TRUE) \/ T!Goto(c, "store", T!Content(tokenSecret))
      BY <1>8 DEF T!ListTokens, T!Fetch
    <3>2. CASE T!Answer(c, TRUE)
      BY <3>2, AnswerEffect
    <3>3. CASE T!Goto(c, "store", T!Content(tokenSecret))
      BY <1>0, <3>3, GotoEffect
    <3> QED
      BY <3>1, <3>2, <3>3
  <2> QED
    BY <1>0, <1>8, <2>1, <2>2 DEF T!ListTokens
<1>9. CASE T!RevokeCached(c)
  <2>1. t \notin T!Doomed(c)
    BY <1>9, <1>a, BeginsEffect DEF T!RevokeCached
  <2>2. Items
    BY <1>9, GotoEffect DEF T!RevokeCached
  <2> QED
    BY <1>0, <1>9, <2>1, <2>2 DEF T!RevokeCached
<1>10. CASE T!RevokeSecret(c)
  <2>1. t \notin T!Doomed(c)
    BY <1>10, <1>a, PlaceTellsOperation DEF T!RevokeSecret
  <2>2. Puts
    BY <1>0, <1>10, <2>1, PutEffect DEF T!RevokeSecret
  <2>3. Items
    BY <1>10, AnswerEffect DEF T!RevokeSecret
  <2> QED
    BY <1>0, <1>10, <2>2, <2>3 DEF T!RevokeSecret, T!stores
<1>11. CASE T!RevokeAll(c)
  BY <1>11, <1>b, BeginsEffect DEF T!RevokeAll
<1>12. CASE T!DeleteAll(c)
  BY <1>12, <1>b, PlaceTellsOperation DEF T!DeleteAll
<1> QED
  BY <1>1, <1>2, <1>3, <1>4, <1>5, <1>6, <1>7, <1>8, <1>9, <1>10, <1>11, <1>12 DEF T!TokenStep

\* The case of CreationsHold for one call.
Issued(c) ==
    /\ c \notin blurred /\ request[c].op \in Creating
    /\ task[c].pc = "add" \/ (task[c].pc = "end" /\ task[c].ok)
    /\ request[c].token \notin expired /\ ~Condemned(request[c].token)

\* CreationsHold, by Issued.
LEMMA CreationsByCall ==
    CreationsHold <=> (~partial => \A c \in Calls : Issued(c) => TokenIsThere(c, request[c].token))
BY DEF CreationsHold, Issued

\* A token that a call makes unusable stays condemned.
LEMMA CondemnedStays ==
    ASSUME TokensTyped, NEW c \in Calls, T!TokenStep(c), UNCHANGED request, NEW t, ~Condemned(t)'
    PROVE  ~Condemned(t) /\ ~Condemns(c, t)
<1>1. T!Doomed(c)' = T!Doomed(c) /\ \A d \in Calls : T!Doomed(d)' = T!Doomed(d)
  BY DEF T!Doomed
<1>2. task'[c].pc # "new" /\ \A d \in Calls : task[d].pc # "new" => task'[d].pc # "new"
  BY StepsHaveShape DEF Shape
<1> QED
  BY <1>1, <1>2 DEF Condemned, Condemns

\* Calls do not make tokens expire, and `partial` records the past.
LEMMA StepsDoNotExpire ==
    ASSUME NEW c \in Calls, T!TokenStep(c)
    PROVE  UNCHANGED expired /\ (partial => partial')
<1>1. CASE T!CreateRead(c)
  BY <1>1 DEF T!CreateRead
<1>2. CASE T!CreatePost(c)
  BY <1>2 DEF T!CreatePost
<1>3. CASE T!CreateAdd(c)
  BY <1>3 DEF T!CreateAdd
<1>4. CASE T!VerifyCached(c)
  BY <1>4 DEF T!VerifyCached
<1>5. CASE T!VerifyUpdate(c)
  BY <1>5 DEF T!VerifyUpdate
<1>6. CASE T!VerifyLocked(c)
  BY <1>6 DEF T!VerifyLocked
<1>7. CASE T!Store(c)
  BY <1>7 DEF T!Store
<1>8. CASE T!ListTokens(c)
  BY <1>8 DEF T!ListTokens
<1>9. CASE T!RevokeCached(c)
  BY <1>9 DEF T!RevokeCached
<1>10. CASE T!RevokeSecret(c)
  BY <1>10 DEF T!RevokeSecret
<1>11. CASE T!RevokeAll(c)
  BY <1>11 DEF T!RevokeAll
<1>12. CASE T!DeleteAll(c)
  BY <1>12 DEF T!DeleteAll
<1> QED
  BY <1>1, <1>2, <1>3, <1>4, <1>5, <1>6, <1>7, <1>8, <1>9, <1>10, <1>11, <1>12 DEF T!TokenStep

\* A token that was issued by k stays where it is in a step of another call c.
LEMMA IssuedStepOfAnother ==
    ASSUME TokenInv, request \in Scripts, NEW c \in Calls, T!TokenStep(c), UNCHANGED request,
           ~partial', NEW k \in Calls \ {c}, Issued(k)'
    PROVE  TokenIsThere(k, request[k].token)'
<1> DEFINE t == request[k].token
<1>0. Shape(c) /\ TokensTyped /\ PlacesAreOwn
  BY StepsHaveShape DEF TokenInv
<1>1. k \notin blurred /\ ~T!Open(k)
  BY <1>0, UnblurredIsClosed DEF TokenInv, Issued
<1>2. task'[k] = task[k] /\ task[k].pc = "end" /\ task[k].ok /\ request[k].op \in Creating
  BY <1>0, <1>1 DEF Shape, T!Open, Issued
<1>3. UNCHANGED expired /\ ~partial
  BY StepsDoNotExpire
<1>4. ~Condemned(t) /\ ~Condemns(c, t) /\ t \notin expired
  BY <1>0, <1>3, CondemnedStays DEF Issued
<1>5. TokenIsThere(k, t)
  BY <1>1, <1>2, <1>3, <1>4 DEF TokenInv, CreationsHold
<1>6. Everywhere(t)
  BY <1>1, <1>2, <1>5 DEF TokenIsThere, Everywhere, T!Open
<1>7. ~Creates(c, t)
  BY <1>2, CreatorIsUnique DEF Creates
<1>8. /\ UNCHANGED tokenSecret
      /\ \A p \in tokenPuts' \ tokenPuts : t \in p.value
      /\ task'[c].pc \in {"update", "store"} => t \in task'[c].item
      /\ tokenCache' # T!NoTokens => t \in tokenCache'
  BY <1>0, <1>4, <1>6, <1>7, StepKeeps
<1>9. T!Content(tokenSecret)' = T!Content(tokenSecret) /\ T!NoTokens' = T!NoTokens
  BY <1>8 DEF T!Content, T!NoTokens
<1> QED
  BY <1>0, <1>6, <1>8, <1>9 DEF TokenIsThere, Everywhere, Shape

\* A creation that nothing overlaps puts its token where it belongs.
LEMMA IssuedStepOfItself ==
    ASSUME TokenInv, request \in Scripts, NEW c \in Calls, T!TokenStep(c), UNCHANGED request,
           ~partial', Issued(c)'
    PROVE  TokenIsThere(c, request[c].token)'
<1> DEFINE t == request[c].token
<1>0. Shape(c) /\ TokensTyped /\ PlacesAreOwn
  BY StepsHaveShape DEF TokenInv
<1>1. \A d \in Calls \ {c} : ~T!Open(d) /\ task'[d] = task[d]
  BY <1>0, UnblurredIsClosed DEF TokenInv, Shape, AloneWhileOpen, T!Open, Issued
<1>2. /\ \A d \in Calls \ {c} : task'[d].pc \in {"new", "end"}
      /\ task[c].pc \in {"new", "post"} => tokenPuts = {}
  BY <1>0, <1>1, OthersAreQuiet
<1>3. request[c].op \in Creating /\ task'[c].pc \in {"add", "end"} /\ t \in TokenIds
  BY TokenOfRequest DEF Issued, Creating
<1>4. CASE T!CreateRead(c)
  <2>1. ~T!Goto(c, "post", {})
    BY <1>0, <1>3, GotoEffect
  <2>2. T!Goto(c, "add", {}) /\ T!Put(c, T!Purge(tokenSecret) \union {t})
    BY <1>4, <2>1 DEF T!CreateRead
  <2>3. tokenPuts = {}
    BY <1>2, <1>4, BeginsEffect DEF T!CreateRead
  <2>4. (\A p \in tokenPuts' : t \in p.value) /\ \E p \in tokenPuts' : p.by = c
    BY <2>2, <2>3, PutEffect
  <2>5. task'[c].pc = "add"
    BY <1>0, <2>2, GotoEffect
  <2> QED
    BY <1>2, <2>4, <2>5 DEF TokenIsThere
<1>5. CASE T!CreatePost(c)
  <2>1. ~T!Answer(c, FALSE)
    <3>1. ASSUME T!Answer(c, FALSE)
          PROVE  FALSE
      <4>1. task'[c].pc = "end" /\ task'[c].ok = FALSE
        BY <1>0, <3>1, AnswerEffect
      <4> QED
        BY <4>1 DEF Issued
    <3> QED
      BY <3>1
  <2>2. tokenSecret' = {t} /\ T!Goto(c, "add", {}) /\ tokenPuts' = {}
    BY <1>2, <1>5, <2>1 DEF T!CreatePost
  <2>3. t \in T!Content(tokenSecret)'
    BY <1>3, <2>2, TokensAssumption DEF T!Content, T!NoTokens
  <2>4. task'[c].pc = "add"
    BY <1>0, <2>2, GotoEffect
  <2> QED
    BY <1>2, <2>2, <2>3, <2>4 DEF TokenIsThere
<1>6. CASE T!CreateAdd(c)
  <2>1. /\ task[c].pc = "add" /\ t \in tokenCache' /\ T!Answer(c, TRUE)
        /\ UNCHANGED <<tokenSecret, tokenPuts, expired, blurred>> /\ ~partial
    BY <1>6 DEF T!CreateAdd
  <2>2. Issued(c)
    BY <1>0, <2>1, CondemnedStays DEF Issued
  <2>3. TokenIsThere(c, t)
    BY <2>1, <2>2, CreationsByCall DEF TokenInv
  <2>4. task'[c].pc = "end"
    BY <1>0, <2>1, AnswerEffect
  <2>5. T!Content(tokenSecret)' = T!Content(tokenSecret)
    BY <2>1 DEF T!Content, T!NoTokens
  <2> QED
    BY <1>2, <2>1, <2>3, <2>4, <2>5 DEF TokenIsThere
<1>7. T!CreateRead(c) \/ T!CreatePost(c) \/ T!CreateAdd(c)
  <2>1. request[c].op \notin {"revoke", "revokeAll", "verify", "listTokens"} \union T!Sweeps
    BY <1>3 DEF Creating, T!Sweeps
  <2>2. task[c].pc \notin {"update", "miss", "store", "sweep", "wipe"}
    BY <1>0, <2>1, PlaceTellsOperation
  <2> QED
    BY <2>1, <2>2, BeginsEffect DEF T!TokenStep, T!VerifyCached, T!VerifyUpdate, T!VerifyLocked,
       T!Store, T!ListTokens, T!RevokeCached, T!RevokeSecret, T!RevokeAll, T!DeleteAll
<1> QED
  BY <1>4, <1>5, <1>6, <1>7

\* CreationsHold is kept by the steps of the calls.
LEMMA CreationsStep ==
    ASSUME TokenInv, request \in Scripts, NEW c \in Calls, T!TokenStep(c), UNCHANGED request
    PROVE  CreationsHold'
<1>1. ASSUME ~partial', NEW k \in Calls, Issued(k)'
      PROVE  TokenIsThere(k, request[k].token)'
  BY <1>1, IssuedStepOfAnother, IssuedStepOfItself
<1> QED
  BY <1>1 DEF CreationsHold, Issued

-----------------------------------------------------------------------------
(***************************************************************************)
(* What happens to tokens by itself.                                       *)
(***************************************************************************)
\* A PUT that lands replaces the secret: what was revoked is in no PUT, what was
\* issued is in every one.
LEMMA LandingKeeps ==
    ASSUME TokenInv, UNCHANGED request, NEW p \in tokenPuts, T!PutLands(p)
    PROVE  TokenInv'
<1> USE DEF T!PutLands
<1>1. TokensTyped'
  BY DEF TokenInv, TokensTyped
<1>2. MutexHolds'
  BY DEF TokenInv, MutexHolds
<1>3. PlacesAreOwn'
  BY DEF TokenInv, PlacesAreOwn
<1>4. \A d \in Calls : T!Open(d)' => T!Open(d)
  BY DEF T!Open
<1>5. AloneWhileOpen'
  BY <1>4 DEF TokenInv, AloneWhileOpen
<1>6. \A t : /\ Copied(t)' => Copied(t)
             /\ t \in T!Content(tokenSecret') => t \in p.value
             /\ t \in p.value => Copied(t)
  BY DEF Copied, Held, T!Content, T!NoTokens
<1>7. TokensAreCreated'
  BY <1>6 DEF TokenInv, TokensAreCreated, Creates, T!Content, T!NoTokens
<1>8. RevocationsHold'
  <2> SUFFICES ASSUME NEW r \in Calls \ blurred, request[r].op \in Revoking,
                      task[r].pc # "new", NEW t \in task[r].item
               PROVE  RevokedIsGone(r, t)'
    BY DEF RevocationsHold
  <2>1. RevokedIsGone(r, t)
    BY DEF TokenInv, RevocationsHold
  <2>2. t \notin p.value
    BY <2>1 DEF RevokedIsGone, Copied
  <2>3. T!Doomed(r)' = T!Doomed(r)
    BY DEF T!Doomed
  <2> QED
    BY <1>6, <2>1, <2>2, <2>3 DEF RevokedIsGone, Creates, T!Content, T!NoTokens
<1>9. CreationsHold'
  <2> SUFFICES ASSUME ~partial, NEW k \in Calls, Issued(k)'
               PROVE  TokenIsThere(k, request[k].token)'
    BY DEF CreationsHold, Issued
  <2>1. Condemned(request[k].token)' <=> Condemned(request[k].token)
    BY DEF Condemned, T!Doomed
  <2>2. Issued(k)
    BY <2>1 DEF Issued
  <2>3. TokenIsThere(k, request[k].token)
    BY <2>2, CreationsByCall DEF TokenInv
  <2>4. request[k].token \in p.value /\ request[k].token \in TokenIds
    BY <2>2, <2>3 DEF TokenIsThere, TokenInv, TokensTyped
  <2>5. request[k].token \in T!Content(tokenSecret)'
    BY <2>4, TokensAssumption DEF T!Content, T!NoTokens, TokenInv, TokensTyped
  <2> QED
    BY <2>3, <2>5 DEF TokenIsThere, T!NoTokens
<1> QED
  BY <1>1, <1>2, <1>3, <1>5, <1>7, <1>8, <1>9 DEF TokenInv

\* Nothing happens, but that tokens may expire: an expired one is still where it was.
LEMMA ExpiryKeeps ==
    ASSUME TokenInv, UNCHANGED request, T!TokensStay \/ \E t \in TokenIds : T!Expire(t)
    PROVE  TokenInv'
<1>0. /\ UNCHANGED <<tokenSecret, tokenCache, tokenMutex, tokenPuts, task, blurred, partial>>
      /\ expired \subseteq expired' /\ expired' \subseteq Browser
  <2>1. CASE T!TokensStay
    BY <2>1 DEF T!TokensStay, T!tokenVars, T!stores, TokenInv, TokensTyped
  <2>2. ASSUME NEW t \in TokenIds, T!Expire(t)
        PROVE  /\ UNCHANGED <<tokenSecret, tokenCache, tokenMutex, tokenPuts, task, blurred, partial>>
               /\ expired \subseteq expired' /\ expired' \subseteq Browser
    BY <2>2 DEF T!Expire, T!stores, TokenInv, TokensTyped
  <2> QED
    BY <2>1, <2>2
<1>1. TokensTyped' /\ MutexHolds' /\ PlacesAreOwn'
  BY <1>0 DEF TokenInv, TokensTyped, MutexHolds, PlacesAreOwn
<1>2. \A c \in Calls : T!Open(c)' = T!Open(c)
  BY <1>0 DEF T!Open
<1>3. T!Content(tokenSecret)' = T!Content(tokenSecret) /\ T!Content(tokenCache)' = T!Content(tokenCache)
  BY <1>0 DEF T!Content, T!NoTokens
<1>4. \A u : Copied(u)' <=> Copied(u)
  BY <1>0, <1>3 DEF Copied, Held
<1>5. \A u : (Condemned(u)' <=> Condemned(u)) /\ \A c \in Calls : T!Doomed(c)' = T!Doomed(c)
  BY <1>0 DEF Condemned, T!Doomed
<1>6. AloneWhileOpen'
  BY <1>0, <1>2 DEF TokenInv, AloneWhileOpen
<1>7. TokensAreCreated'
  BY <1>0, <1>3, <1>4 DEF TokenInv, TokensAreCreated, Creates
<1>8. RevocationsHold'
  BY <1>0, <1>2, <1>3, <1>4, <1>5 DEF TokenInv, RevocationsHold, RevokedIsGone, Creates
<1>9. CreationsHold'
  BY <1>0, <1>3, <1>5 DEF TokenInv, CreationsHold, TokenIsThere, T!NoTokens
<1> QED
  BY <1>1, <1>6, <1>7, <1>8, <1>9 DEF TokenInv

\* The process ends: what was open has ended and is blurred, and nothing is left in memory.
LEMMA EndKeeps ==
    ASSUME TokenInv, UNCHANGED request, T!ProcessEnds
    PROVE  TokenInv'
<1>0. /\ tokenCache' = T!NoTokens /\ tokenMutex' = NoCall /\ tokenPuts' = {}
      /\ \A c \in Calls : task'[c] = IF T!Open(c) THEN [task[c] EXCEPT !.pc = "end"] ELSE task[c]
      /\ blurred' = blurred \union {c \in Calls : T!Open(c)}
      /\ UNCHANGED <<expired, partial>>
      /\ TokensTyped /\ PlacesAreOwn
  BY DEF T!ProcessEnds, TokenInv
<1>1. tokenSecret' = tokenSecret \/ (tokenSecret # T!NoTokens /\ \E p \in tokenPuts : tokenSecret' = p.value)
  BY DEF T!ProcessEnds
<1>2. \A c \in Calls : /\ task'[c].pc = IF T!Open(c) THEN "end" ELSE task[c].pc
                       /\ task'[c].item = task[c].item /\ task'[c].ok = task[c].ok
                       /\ task'[c].pc \in {"new", "end"}
                       /\ (task'[c].pc = "new") <=> (task[c].pc = "new")
  <2> SUFFICES ASSUME NEW c \in Calls
               PROVE  /\ task'[c].pc = IF T!Open(c) THEN "end" ELSE task[c].pc
                      /\ task'[c].item = task[c].item /\ task'[c].ok = task[c].ok
                      /\ task'[c].pc \in {"new", "end"}
                      /\ (task'[c].pc = "new") <=> (task[c].pc = "new")
    OBVIOUS
  <2>1. task[c] \in Task
    BY <1>0 DEF TokensTyped
  <2>2. CASE T!Open(c)
    <3>1. task'[c] = [task[c] EXCEPT !.pc = "end"] /\ task[c].pc # "new"
      BY <1>0, <2>2, OpenHasBegun
    <3> QED
      BY <2>1, <2>2, <3>1 DEF Task
  <2>3. CASE ~T!Open(c)
    <3>1. task'[c] = task[c] /\ task[c].pc \in {"new", "end"}
      BY <1>0, <2>3 DEF T!Open
    <3> QED
      BY <2>3, <3>1
  <2> QED
    BY <2>2, <2>3
<1>3. \A c \in Calls : ~T!Open(c)' /\ Held(c)' = {}
  BY <1>0, <1>2 DEF T!Open, Held
<1>4. T!Content(tokenCache)' = {} /\ \A u : ~Copied(u)'
  BY <1>0, <1>3 DEF Copied, T!Content, T!NoTokens
<1>5. TokensTyped'
  <2>1. task' \in [Calls -> Task]
    BY <1>0 DEF TokensTyped, Task, TaskPcs, T!ProcessEnds
  <2> QED
    BY <1>0, <1>1, <2>1 DEF TokensTyped
<1>6. MutexHolds'
  BY <1>0, <1>2, TokensAssumption DEF MutexHolds
<1>7. PlacesAreOwn'
  <2>1. \A c \in Calls : task[c].pc # "new" => "end" \in PcsOf(request[c].op)
    BY <1>0 DEF PlacesAreOwn, PcsOf
  <2> QED
    BY <1>0, <1>2, <2>1, OpenHasBegun DEF PlacesAreOwn
<1>8. AloneWhileOpen'
  BY <1>3 DEF AloneWhileOpen
<1>9. \A u : u \in T!Content(tokenSecret)' =>
                 u \in T!Content(tokenSecret) \/ \E p \in tokenPuts : u \in p.value
  BY <1>1 DEF T!Content, T!NoTokens
<1>10. TokensAreCreated'
  BY <1>2, <1>4, <1>9 DEF TokenInv, TokensAreCreated, Copied, Creates
<1>11. RevocationsHold'
  <2> SUFFICES ASSUME NEW r \in Calls, r \notin blurred', request[r].op \in Revoking,
                      task[r].pc # "new", NEW u \in task[r].item
               PROVE  RevokedIsGone(r, u)'
    BY <1>2 DEF RevocationsHold
  <2>1. r \notin blurred /\ ~T!Open(r)
    BY <1>0
  <2>2. RevokedIsGone(r, u)
    BY <2>1 DEF TokenInv, RevocationsHold
  <2>3. task[r].pc = "end" /\ task'[r].pc = "end"
    BY <1>2, <2>1 DEF T!Open
  <2>4. u \notin T!Content(tokenSecret)'
    BY <1>9, <2>1, <2>2, <2>3 DEF RevokedIsGone, Copied
  <2>5. \E d \in Calls : Creates(d, u)' /\ task'[d].pc = "end"
    BY <1>2, <2>2 DEF RevokedIsGone, Creates
  <2> QED
    BY <1>4, <2>3, <2>4, <2>5 DEF RevokedIsGone
<1>12. CreationsHold'
  <2> SUFFICES ASSUME ~partial, NEW k \in Calls, Issued(k)'
               PROVE  TokenIsThere(k, request[k].token)'
    BY <1>0 DEF CreationsHold, Issued
  <2> DEFINE u == request[k].token
  <2>1. k \notin blurred /\ ~T!Open(k) /\ task[k].pc = "end" /\ task[k].ok
    BY <1>0, <1>2 DEF Issued, T!Open
  <2>2. ~Condemned(u)
    <3>1. \A d \in Calls : T!Doomed(d)' = T!Doomed(d)
      BY DEF T!Doomed
    <3> QED
      BY <1>2, <3>1 DEF Issued, Condemned
  <2>3. TokenIsThere(k, u)
    BY <1>0, <2>1, <2>2, CreationsByCall DEF TokenInv, Issued
  <2>4. u \in T!Content(tokenSecret)
    BY <2>1, <2>3 DEF TokenIsThere, T!Open
  <2>5. u \in T!Content(tokenSecret)'
    <3>1. CASE tokenSecret' = tokenSecret
      BY <2>4, <3>1 DEF T!Content, T!NoTokens
    <3>2. ASSUME NEW p \in tokenPuts, tokenSecret' = p.value
          PROVE  u \in T!Content(tokenSecret)'
      <4>1. u \in p.value /\ u # "no tokens"
        BY <1>0, <2>3, TokensAssumption DEF TokenIsThere, TokensTyped
      <4> QED
        BY <3>2, <4>1 DEF T!Content, T!NoTokens
    <3> QED
      BY <1>1, <3>1, <3>2
  <2> QED
    BY <1>0, <1>2, <2>5 DEF TokenIsThere, T!NoTokens
<1> QED
  BY <1>5, <1>6, <1>7, <1>8, <1>10, <1>11, <1>12 DEF TokenInv

-----------------------------------------------------------------------------
(***************************************************************************)
(* The invariant, and the theorems.                                        *)
(***************************************************************************)
\* The invariant holds at first.
LEMMA TokenInvInit ==
    ASSUME Init2
    PROVE  TokenInv /\ request \in Scripts
<1> USE DEF Init2, T!TokensInit, T!NewTask
<1>1. TokensTyped /\ request \in Scripts
  BY DEF TokensTyped, Task, TaskPcs, Init
<1>2. MutexHolds
  BY TokensAssumption DEF MutexHolds
<1>3. PlacesAreOwn
  BY DEF PlacesAreOwn, PcsOf
<1>4. AloneWhileOpen
  BY DEF AloneWhileOpen, T!Open
<1>5. TokensAreCreated
  BY DEF TokensAreCreated, Copied, Held, T!Content
<1>6. RevocationsHold
  BY DEF RevocationsHold
<1>7. CreationsHold
  BY DEF CreationsHold
<1> QED
  BY <1>1, <1>2, <1>3, <1>4, <1>5, <1>6, <1>7 DEF TokenInv

\* The invariant is inductive: every step of the server keeps it.
LEMMA TokenInvNext ==
    ASSUME TokenInv, request \in Scripts, [Next]_<<vars, T!tokenVars>>
    PROVE  TokenInv' /\ request' \in Scripts
<1>1. TokenAction /\ UNCHANGED request
  BY NextIsTokenAction
<1>2. ASSUME NEW c \in Calls, T!TokenStep(c)
      PROVE  TokenInv'
  <2>1. TokensTyped /\ MutexHolds /\ PlacesAreOwn /\ AloneWhileOpen /\ TokensAreCreated
    BY DEF TokenInv
  <2> QED
    BY <1>1, <1>2, <2>1, StepsAreTyped, MutexStep, PlacesStep, AloneStep, CreatedStep,
       RevocationsStep, CreationsStep DEF TokenInv
<1> QED
  BY <1>1, <1>2, LandingKeeps, ExpiryKeeps, EndKeeps DEF TokenAction

\* The invariant of the tokens holds in every state of the server, and the requests
\* are among those given.
THEOREM TokenInvHolds == Spec => [](TokenInv /\ request \in Scripts)
<1>1. Init2 => TokenInv /\ request \in Scripts
  BY TokenInvInit
<1>2. (TokenInv /\ request \in Scripts) /\ [Next]_<<vars, T!tokenVars>>
          => (TokenInv /\ request \in Scripts)'
  BY TokenInvNext
<1> QED
  BY <1>1, <1>2, PTL DEF Spec

\* Every variable of the tokens keeps its type, and the mutex is held by the call that is
\* about to store what it has fetched, and by no other.
THEOREM TokensAreTyped == Spec => []T!TokensTypeOK
<1>1. ASSUME TokenInv
      PROVE  T!TokensTypeOK
  <2>1. TokensTyped /\ MutexHolds
    BY <1>1 DEF TokenInv
  <2>2. \A c \in Calls : task[c].item \subseteq TokenIds /\ task[c].ok \in BOOLEAN
    BY <2>1 DEF TokensTyped, Task
  <2>3. (tokenMutex # NoCall) <=> \E c \in Calls : task[c].pc = "store"
    BY <2>1, TokensAssumption DEF TokensTyped, MutexHolds
  <2> QED
    BY <2>1, <2>2, <2>3 DEF T!TokensTypeOK, TokensTyped
<1> QED
  BY <1>1, TokenInvHolds, PTL

\* revoke, revokeAll and a password change are final: the tokens they found are gone from
\* the secret and the cache for good, whatever the other requests do afterwards.
THEOREM RevocationsAreFinal == Spec => []RevocationIsFinal
<1>1. ASSUME TokenInv
      PROVE  RevocationIsFinal
  <2> SUFFICES ASSUME NEW c \in Calls, T!Firm(c), request[c].op \in Revoking
               PROVE  task[c].item \intersect (T!Content(tokenSecret) \union T!Content(tokenCache)) = {}
    BY DEF RevocationIsFinal, T!RevocationIsFinal, Revoking
  <2>1. c \notin blurred /\ task[c].pc = "end" /\ ~T!Open(c)
    BY DEF T!Firm
  <2>2. \A t \in task[c].item : RevokedIsGone(c, t)
    BY <1>1, <2>1 DEF TokenInv, RevocationsHold
  <2> QED
    BY <2>1, <2>2 DEF RevokedIsGone, Copied
<1> QED
  BY <1>1, TokenInvHolds, PTL

\* Purges, creations and revocations of other tokens never cost the user a token that was
\* issued, as long as the cache was always filled from the whole secret.
THEOREM TokensAreKept == Spec => []TokensKept
<1>1. ASSUME TokenInv
      PROVE  TokensKept
  <2> SUFFICES ASSUME ~partial, NEW c \in Calls, T!Firm(c), request[c].op \in Creating,
                      request[c].token \notin expired, ~Condemned(request[c].token)
               PROVE  request[c].token \in T!Content(tokenSecret)
    BY DEF TokensKept, T!TokensKept, T!Kept, Creating, Condemned
  <2>1. Issued(c) /\ ~T!Open(c)
    BY DEF T!Firm, Issued
  <2>2. TokenIsThere(c, request[c].token)
    BY <1>1, <2>1, CreationsByCall DEF TokenInv
  <2> QED
    BY <2>1, <2>2 DEF TokenIsThere, T!Open
<1> QED
  BY <1>1, TokenInvHolds, PTL

-----------------------------------------------------------------------------
(***************************************************************************)
(* The users and groups, beside the tokens.                                *)
(***************************************************************************)
\* Every step of the server keeps the invariant of the users and groups: a step of the
\* tokens leaves them alone, or ends a handler, or ends the process.
LEMMA AccountInvNext ==
    ASSUME AccountInv, request \in Scripts, [Next]_<<vars, T!tokenVars>>
    PROVE  AccountInv'
<1>1. ASSUME NEW c \in Calls, TokenStep(c) \/ HandlerEnds(c)
      PROVE  AccountInv'
  <2>1. CASE TokenStep(c)
    <3>1. UNCHANGED vars
      BY <2>1 DEF TokenStep
    <3> QED
      BY <3>1, AccountsStayKeep
  <2>2. CASE HandlerEnds(c)
    <3>1. /\ call[c].pc \in {"token", "revoke"} /\ Answer(c)
          /\ UNCHANGED <<users, groups, request, history>>
      BY <2>2 DEF HandlerEnds
    <3> QED
      BY <3>1, TokenAnswerKeeps
  <2> QED
    BY <1>1, <2>1, <2>2
<1>2. CASE AccountStep
  BY <1>2, AccountStepKeeps DEF AccountStep
<1>3. CASE TokensChange
  <2>1. UNCHANGED vars
    BY <1>3 DEF TokensChange
  <2> QED
    BY <2>1, AccountsStayKeep
<1>4. CASE ProcessRestarts
  <2>1. Restarted
    BY <1>4 DEF ProcessRestarts, Restart
  <2> QED
    BY <2>1, RestartedKeeps
<1>5. CASE UNCHANGED <<vars, T!tokenVars>>
  <2>1. UNCHANGED vars
    BY <1>5
  <2> QED
    BY <2>1, AccountsStayKeep
<1> QED
  BY <1>1, <1>2, <1>3, <1>4, <1>5 DEF Next

\* The invariant of the users and groups holds in every state of the server.
THEOREM AccountInvHolds == Spec => []AccountInv
<1>1. Init2 => AccountInv
  BY AccountInit DEF Init2
<1>2. AccountInv /\ request \in Scripts /\ [Next]_<<vars, T!tokenVars>> => AccountInv'
  BY AccountInvNext
<1>3. Spec => [](request \in Scripts)
  <2>1. TokenInv /\ request \in Scripts => request \in Scripts
    OBVIOUS
  <2> QED
    BY <2>1, TokenInvHolds, PTL
<1> QED
  BY <1>1, <1>2, <1>3, PTL DEF Spec

\* Every variable of the server keeps its type: secrets, caches and PUTs under way hold
\* users and groups, a cached user is an object of its own.
THEOREM TypesAreKept == Spec => []AllTypesOK
<1>1. AccountInv => TypeOK
  BY AccountTypes
<1> QED
  BY <1>1, AccountInvHolds, TokensAreTyped, PTL DEF AllTypesOK

\* Whenever no call is under way, what the process serves from its caches is what the
\* secrets hold, deleted users and groups included; only a write that failed or was
\* given up half-way leaves a difference.
THEOREM CachesAgreeWithSecrets == Spec => []CacheAgreesWithSecrets
<1>1. AccountInv => CacheAgreesWithSecrets
  BY CachesAgree
<1> QED
  BY <1>1, AccountInvHolds, PTL

\* Every step of the server keeps the invariant of the references as well.
LEMMA ReferenceInvNext ==
    ASSUME AccountInv, ReferenceInv, request \in Scripts, [Next]_<<vars, T!tokenVars>>
    PROVE  ReferenceInv'
<1>1. ASSUME NEW c \in Calls, TokenStep(c) \/ HandlerEnds(c)
      PROVE  ReferenceInv'
  <2>1. CASE TokenStep(c)
    <3>1. UNCHANGED vars
      BY <2>1 DEF TokenStep
    <3> QED
      BY <3>1, ReferencesStay
  <2>2. CASE HandlerEnds(c)
    <3>1. /\ call[c].pc \in {"token", "revoke"} /\ Answer(c)
          /\ UNCHANGED <<users, groups, request, history>>
      BY <2>2 DEF HandlerEnds
    <3> QED
      BY <3>1, TokenAnswerKeepsReferences
  <2> QED
    BY <1>1, <2>1, <2>2
<1>2. CASE AccountStep
  BY <1>2, StepKeepsReferences DEF AccountStep
<1>3. CASE TokensChange
  <2>1. UNCHANGED vars
    BY <1>3 DEF TokensChange
  <2> QED
    BY <2>1, ReferencesStay
<1>4. CASE ProcessRestarts
  <2>1. Restarted
    BY <1>4 DEF ProcessRestarts, Restart
  <2> QED
    BY <2>1, RestartedKeepsReferences
<1>5. CASE UNCHANGED <<vars, T!tokenVars>>
  <2>1. UNCHANGED vars
    BY <1>5
  <2> QED
    BY <2>1, ReferencesStay
<1> QED
  BY <1>1, <1>2, <1>3, <1>4, <1>5 DEF Next

\* The requests that the calls serve are among those that the server gets.
LEMMA RequestsAreGiven == Spec => [](request \in Scripts)
<1>1. TokenInv /\ request \in Scripts => request \in Scripts
  OBVIOUS
<1> QED
  BY <1>1, TokenInvHolds, PTL

\* The invariant of the references holds in every state of the server.
THEOREM ReferenceInvHolds == Spec => []ReferenceInv
<1>1. Init2 => ReferenceInv
  BY ReferenceInit DEF Init2
<1>2. AccountInv /\ ReferenceInv /\ request \in Scripts /\ [Next]_<<vars, T!tokenVars>>
          => ReferenceInv'
  BY ReferenceInvNext
<1> QED
  BY <1>1, <1>2, AccountInvHolds, RequestsAreGiven, PTL DEF Spec

\* Where users come from this API only, no user belongs to a group that is gone: its
\* deletion finds every member, unless it overlaps another request or fails.
THEOREM NoReferenceDangles == Spec /\ ~OIDC => []NoDanglingReference
<1>1. ~OIDC /\ [Next]_<<vars, T!tokenVars>> => ~OIDC'
  <2> SUFFICES ASSUME ~OIDC, [Next]_<<vars, T!tokenVars>>
               PROVE  ~OIDC'
    OBVIOUS
  <2>1. request' = request
    <3>1. ASSUME NEW c \in Calls, TokenStep(c) \/ HandlerEnds(c)
          PROVE  request' = request
      BY <3>1 DEF TokenStep, HandlerEnds, vars
    <3>2. CASE AccountStep
      BY <3>2, RequestsStay DEF AccountStep
    <3>3. CASE TokensChange
      BY <3>3 DEF TokensChange, vars
    <3>4. CASE ProcessRestarts
      BY <3>4 DEF ProcessRestarts, Restart, Restarted
    <3>5. CASE UNCHANGED <<vars, T!tokenVars>>
      BY <3>5 DEF vars
    <3> QED
      BY <3>1, <3>2, <3>3, <3>4, <3>5 DEF Next
  <2> QED
    BY <2>1 DEF OIDC
<1>2. AccountInv /\ ReferenceInv /\ ~OIDC => NoDanglingReference
  BY ReferencesHold
<1> QED
  BY <1>1, <1>2, AccountInvHolds, ReferenceInvHolds, PTL DEF Spec

\* A start-up that completes, and that no request has overlapped, has repaired every
\* reference to a group that is gone.
THEOREM StartUpsRepair == Spec => RestartRepairs
<1>1. ASSUME AccountInv, ReferenceInv, [Next]_<<vars, T!tokenVars>>,
             call[Boot].pc # "up", call'[Boot].pc = "up", ~mixed, ~OIDC
      PROVE  \A u \in Users : Dangling(u)' = {}
  <2>1. Boot \notin Calls
    BY AccountsAssumption
  <2>2. ~UNCHANGED call
    BY <1>1
  <2>3. ASSUME NEW c \in Calls
        PROVE  ~TokenStep(c) /\ ~HandlerEnds(c)
    <3>1. ~TokenStep(c)
      BY <2>2 DEF TokenStep, vars
    <3>2. HandlerEnds(c) => call'[Boot] = call[Boot]
      BY <1>1, <2>1, <2>3, OneMoves DEF HandlerEnds, AccountInv, Everyone
    <3> QED
      BY <1>1, <3>1, <3>2
  <2>4. ~TokensChange /\ ~UNCHANGED <<vars, T!tokenVars>>
    BY <2>2 DEF TokensChange, vars
  <2>5. Restarted => call'[Boot].pc = "config"
    BY DEF Restarted, Fresh
  <2>6. ~ProcessRestarts
    BY <1>1, <2>5 DEF ProcessRestarts, Restart
  <2>7. Step
    BY <1>1, <2>3, <2>4, <2>6 DEF Next, AccountStep
  <2> QED
    BY <1>1, <2>7, StepRepairs
<1>2. AccountInv /\ ReferenceInv /\ [Next]_<<vars, T!tokenVars>>
          => [call[Boot].pc # "up" /\ call'[Boot].pc = "up" /\ ~mixed /\ ~OIDC
                 => \A u \in Users : Dangling(u)' = {}]_vars
  BY <1>1
<1> QED
  BY <1>2, AccountInvHolds, ReferenceInvHolds, PTL DEF Spec, RestartRepairs
=============================================================================
