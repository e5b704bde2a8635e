------------------------------- MODULE Tokens -------------------------------
(***************************************************************************)
(* The tokens of ONE user of rest-server (models/token.js): a Kubernetes   *)
(* Secret that holds them (k8s-secret.js) and the copy in the cache of the *)
(* process.  Users do not meet in this code, except in revokeAll.          *)
(*                                                                         *)
(* `replace` sends its PUT and does not wait for the answer: the PUT lands *)
(* at any later time, and when it is rejected nobody handles the rejection *)
(* and the process ends.  Tokens of jobs are checked against the database  *)
(* and never stored; they are left out, and so are reads that fail.        *)
(***************************************************************************)
EXTENDS Naturals, FiniteSets

CONSTANTS
    TokenIds,       \* the tokens that may be signed
    Browser,        \* those of a browser session, which expire; the others do not
    Calls,          \* concurrent requests
    NoCall

VARIABLES
    request,        \* the request each call serves
    budget,         \* what is left of the bounds
    tokenSecret,    \* the tokens in the secret, or NoTokens when there is no secret
    tokenCache,     \* the tokens in the cache, or NoTokens when the user is not cached
    tokenMutex,     \* the call that holds the mutex, or NoCall
    tokenPuts,      \* the PUTs under way
    task,           \* where each call is: [pc, item, ok]
    expired,        \* the tokens that have expired
    blurred,        \* history: calls that overlapped another one, or a restart
    partial         \* history: a token was cached for a user with others not cached

stores    == <<tokenSecret, tokenCache>>
tokenVars == <<stores, tokenMutex, tokenPuts, task, expired, blurred, partial>>

TokensStay == UNCHANGED tokenVars

NoTokens == {"no tokens"}

NewTask == [pc |-> "new", item |-> {}, ok |-> FALSE]

TokensInit ==
    /\ tokenSecret = NoTokens /\ tokenCache = NoTokens
    /\ tokenMutex = NoCall /\ tokenPuts = {}
    /\ task = [c \in Calls |-> NewTask]
    /\ expired = {} /\ blurred = {} /\ partial = FALSE

Content(store) == IF store = NoTokens THEN {} ELSE store

\* purge: jwt.verify throws for an expired token.
Purge(tokens) == tokens \ expired

Open(c) == task[c].pc \notin {"new", "end"} \/ \E p \in tokenPuts : p.by = c

Goto(c, pc, item) == task' = [task EXCEPT ![c].pc = pc, ![c].item = item]

Answer(c, ok) == task' = [task EXCEPT ![c].pc = "end", ![c].ok = ok]

Put(c, value) == tokenPuts' = tokenPuts \union {[by |-> c, value |-> value]}

\* A call of its own begins; sweeps begin with a step of their own.
Begins(c, ops) ==
    LET others == {d \in Calls \ {c} : Open(d)} IN
    /\ task[c].pc = "new" /\ request[c].op \in ops
    /\ blurred' = blurred \union (IF others = {} THEN {} ELSE others \union {c})

\* cleanExistingTokens: what is left replaces the secret, wherever it was read.
Clean(c, tokens) == IF Purge(tokens) = tokens THEN UNCHANGED tokenPuts ELSE Put(c, Purge(tokens))

Unlocked == tokenMutex = NoCall /\ UNCHANGED tokenMutex

(***************************************************************************)
(* create                                                                  *)
(***************************************************************************)
\* Mutant: the secret is replaced by the new token.
CreateAlone(c) ==
    /\ Begins(c, {"issue", "signIn"})
    /\ IF tokenSecret = NoTokens THEN Goto(c, "post", {}) /\ UNCHANGED tokenPuts
       ELSE Goto(c, "add", {}) /\ Put(c, {request[c].token})
    /\ UNCHANGED <<stores, tokenMutex, expired, partial>>

CreateRead(c) ==
    /\ Begins(c, {"issue", "signIn"})
    /\ IF tokenSecret = NoTokens THEN Goto(c, "post", {}) /\ UNCHANGED tokenPuts
       ELSE Goto(c, "add", {}) /\ Put(c, Purge(tokenSecret) \union {request[c].token})
    /\ UNCHANGED <<stores, tokenMutex, expired, partial>>

CreatePost(c) ==
    /\ task[c].pc = "post"
    /\ IF tokenSecret = NoTokens THEN tokenSecret' = {request[c].token} /\ Goto(c, "add", {})
       ELSE Answer(c, FALSE) /\ UNCHANGED tokenSecret
    /\ UNCHANGED <<tokenCache, tokenMutex, tokenPuts, expired, blurred, partial>>

CreateAdd(c) ==
    /\ task[c].pc = "add"
    /\ Unlocked
    /\ tokenCache' = Content(tokenCache) \union {request[c].token}
    /\ partial' = (partial \/ (tokenCache = NoTokens
                               /\ ~(Content(tokenSecret) \subseteq {request[c].token})))
    /\ Answer(c, TRUE)
    /\ UNCHANGED <<tokenSecret, tokenPuts, expired, blurred>>

(***************************************************************************)
(* verify, with and without the cache, and list                            *)
(***************************************************************************)
VerifyCached(c) ==
    LET purged == Purge(Content(tokenCache)) IN
    /\ Begins(c, {"verify"})
    /\ Clean(c, Content(tokenCache))
    /\ IF purged # Content(tokenCache) THEN Goto(c, "update", purged)
       ELSE IF request[c].token \in purged THEN Answer(c, TRUE) ELSE Goto(c, "miss", {})
    /\ UNCHANGED <<stores, tokenMutex, expired, partial>>

\* The purged copy goes back into the cache once the mutex is free.
VerifyUpdate(c) ==
    /\ task[c].pc = "update"
    /\ Unlocked
    /\ tokenCache' = task[c].item
    /\ IF request[c].token \in task[c].item THEN Answer(c, TRUE) ELSE Goto(c, "miss", {})
    /\ UNCHANGED <<tokenSecret, tokenPuts, expired, blurred, partial>>

\* Mutant: the secret is read without the mutex.
FetchUnlocked(c) == Goto(c, "store", Content(tokenSecret)) /\ UNCHANGED tokenMutex

Fetch(c) == Goto(c, "store", Content(tokenSecret)) /\ tokenMutex' = c

\* Under the mutex: the cache once more, then the secret.
VerifyLocked(c) ==
    LET purged == Purge(Content(tokenCache)) IN
    /\ task[c].pc = "miss" /\ tokenMutex = NoCall
    /\ Clean(c, Content(tokenCache))
    /\ tokenCache' = IF tokenCache = NoTokens THEN NoTokens ELSE purged
    /\ IF request[c].token \in purged THEN Answer(c, TRUE) /\ UNCHANGED tokenMutex ELSE Fetch(c)
    /\ UNCHANGED <<tokenSecret, expired, blurred, partial>>

Store(c) ==
    LET purged == Purge(task[c].item) IN
    /\ task[c].pc = "store"
    /\ Clean(c, task[c].item)
    /\ tokenCache' = purged
    /\ tokenMutex' = NoCall
    /\ Answer(c, request[c].op = "verify" => request[c].token \in purged)
    /\ UNCHANGED <<tokenSecret, expired, blurred, partial>>

ListTokens(c) ==
    /\ Begins(c, {"listTokens"})
    /\ IF tokenCache # NoTokens
       THEN /\ Clean(c, tokenCache)
            /\ tokenCache' = Purge(tokenCache)
            /\ Answer(c, TRUE)
            /\ UNCHANGED tokenMutex
       ELSE /\ tokenMutex = NoCall
            /\ IF tokenSecret = NoTokens THEN Answer(c, TRUE) /\ UNCHANGED tokenMutex ELSE Fetch(c)
            /\ UNCHANGED <<tokenCache, tokenPuts>>
    /\ UNCHANGED <<tokenSecret, expired, partial>>

(***************************************************************************)
(* revoke, batchRevoke and revokeAll.  `item` is what the call is to make  *)
(* unusable.                                                               *)
(***************************************************************************)
Sweeps == {"password", "update", "self"}     \* what ends in batchRevoke

Doomed(c) == IF request[c].op = "revoke" THEN {request[c].token} ELSE Browser

\* Mutant: the cache is left to itself.
RevokeUncached(c) ==
    /\ Begins(c, {"revoke"} \union Sweeps)
    /\ Unlocked
    /\ request[c].op = "revoke" => request[c].token \notin expired
    /\ Goto(c, "sweep", Doomed(c) \intersect (Content(tokenSecret) \union Content(tokenCache)))
    /\ UNCHANGED <<stores, tokenPuts, expired, partial>>

RevokeCached(c) ==
    /\ Begins(c, {"revoke"} \union Sweeps)
    /\ Unlocked
    /\ request[c].op = "revoke" => request[c].token \notin expired
    /\ tokenCache' = IF tokenCache = NoTokens THEN NoTokens ELSE tokenCache \ Doomed(c)
    /\ Goto(c, "sweep", Doomed(c) \intersect (Content(tokenSecret) \union Content(tokenCache)))
    /\ UNCHANGED <<tokenSecret, tokenPuts, expired, partial>>

\* revoke gives up when there is no secret, batchRevoke replaces it all the same.
RevokeSecret(c) ==
    /\ task[c].pc = "sweep"
    /\ IF request[c].op = "revoke" /\ tokenSecret = NoTokens THEN UNCHANGED tokenPuts
       ELSE Put(c, Purge(Content(tokenSecret)) \ Doomed(c))
    /\ Answer(c, TRUE)
    /\ UNCHANGED <<stores, tokenMutex, expired, blurred, partial>>

RevokeAll(c) ==
    /\ Begins(c, {"revokeAll"})
    /\ tokenCache' = NoTokens
    /\ Goto(c, "wipe", Content(tokenSecret) \union Content(tokenCache))
    /\ UNCHANGED <<tokenSecret, tokenMutex, tokenPuts, expired, partial>>

DeleteAll(c) ==
    /\ task[c].pc = "wipe"
    /\ tokenSecret' = NoTokens
    /\ Answer(c, TRUE)
    /\ UNCHANGED <<tokenCache, tokenMutex, tokenPuts, expired, blurred, partial>>

(***************************************************************************)
(* The environment.                                                        *)
(***************************************************************************)
PutLands(p) ==
    /\ p \in tokenPuts /\ tokenSecret # NoTokens
    /\ tokenSecret' = p.value
    /\ tokenPuts' = tokenPuts \ {p}
    /\ UNCHANGED <<tokenCache, tokenMutex, task, expired, blurred, partial>>

Expire(t) ==
    /\ t \in Browser \ expired
    /\ t \in Content(tokenSecret) \union Content(tokenCache)
    /\ expired' = expired \union {t}
    /\ UNCHANGED <<stores, tokenMutex, tokenPuts, task, blurred, partial>>

\* The process ends: what it holds in memory is gone, PUTs under way may have landed.
ProcessEnds ==
    /\ tokenCache' = NoTokens /\ tokenMutex' = NoCall /\ tokenPuts' = {}
    /\ task' = [c \in Calls |-> IF Open(c) THEN [task[c] EXCEPT !.pc = "end"] ELSE task[c]]
    /\ blurred' = blurred \union {c \in Calls : Open(c)}
    /\ \/ UNCHANGED tokenSecret
       \/ tokenSecret # NoTokens /\ \E p \in tokenPuts : tokenSecret' = p.value
    /\ UNCHANGED <<expired, partial>>

\* An unhandled rejection: no secret to replace (404), or the API server fails.
PutRejected(p) ==
    /\ p \in tokenPuts
    /\ tokenSecret = NoTokens \/ budget.fail > 0
    /\ ProcessEnds

TokenStep(c) ==
    \/ CreateRead(c) \/ CreatePost(c) \/ CreateAdd(c)
    \/ VerifyCached(c) \/ VerifyUpdate(c) \/ VerifyLocked(c) \/ Store(c) \/ ListTokens(c)
    \/ RevokeCached(c) \/ RevokeSecret(c) \/ RevokeAll(c) \/ DeleteAll(c)

(***************************************************************************)
(* Properties.                                                             *)
(***************************************************************************)
TokensTypeOK ==
    /\ tokenSecret \in (SUBSET TokenIds) \union {NoTokens}
    /\ tokenCache \in (SUBSET TokenIds) \union {NoTokens}
    /\ tokenMutex \in Calls \union {NoCall}
    /\ tokenMutex # NoCall <=> \E c \in Calls : task[c].pc = "store"
    /\ tokenPuts \subseteq [by : Calls, value : SUBSET TokenIds]
    /\ \A c \in Calls : task[c].item \subseteq TokenIds /\ task[c].ok \in BOOLEAN
    /\ expired \subseteq Browser

\* A call that was answered, its PUT landed, without another one meanwhile.
Firm(c) == task[c].pc = "end" /\ task[c].ok /\ ~Open(c) /\ c \notin blurred

\* What was revoked stays revoked: by revoke, revokeAll or a password change that no
\* other request overlapped, whatever runs concurrently afterwards.  No stale copy,
\* of the cache or of a PUT under way, brings the token back.
RevocationIsFinal ==
    \A c \in Calls :
        Firm(c) /\ request[c].op \in {"revoke", "revokeAll"} \union Sweeps
            => task[c].item \intersect (Content(tokenSecret) \union Content(tokenCache)) = {}

\* A token that was issued without an overlap is not lost to the purges, creations and
\* revocations of other tokens that follow, concurrent or not.
Kept(c) ==
    LET t == request[c].token IN
    /\ Firm(c) /\ request[c].op \in {"issue", "signIn"} /\ t \notin expired
    /\ \A d \in Calls : task[d].pc # "new" =>
           ~(request[d].op = "revokeAll" \/ (request[d].op \in {"revoke"} \union Sweeps /\ t \in Doomed(d)))
    => t \in Content(tokenSecret)

TokensKept == ~partial => \A c \in Calls : Kept(c)

\* token.js:67: only invalid (expired or malformed) tokens are removed.
OnlyInvalidTokensPurged == tokenPuts = {} => \A c \in Calls : Kept(c)
=============================================================================
