------------------------ MODULE RestServerSessions --------------------------
(***************************************************************************)
(* Users, groups and tokens of rest-server together: one process serves    *)
(* all their requests.  A password change goes on to revoke the browser    *)
(* tokens of the user, a sign-in to create one; when the process ends both *)
(* components lose their caches and their calls, and an unhandled          *)
(* rejection of a token PUT ends it.                                       *)
(*                                                                         *)
(* Calls of token operations stay "new" in UserAccounts, those of the      *)
(* other operations stay "new" in Tokens.                                  *)
(***************************************************************************)
EXTENDS UserAccounts

CONSTANTS TokenIds, Browser, NoCall

\* Two requests never sign the same token: a token carries the second it is signed in.
ASSUME TokensAssumption ==
    /\ Browser \subseteq TokenIds /\ NoCall \notin Calls
    /\ "no tokens" \notin TokenIds
    /\ \A s \in Scripts, c \in Calls :
           /\ s[c].op \in {"issue", "signIn", "verify", "revoke"} => s[c].token \in TokenIds
           /\ \A d \in Calls \ {c} :
                  {s[c].op, s[d].op} \subseteq {"issue", "signIn"} => s[c].token # s[d].token

VARIABLES tokenSecret, tokenCache, tokenMutex, tokenPuts, task, expired, blurred, partial

T == INSTANCE Tokens

Init2 == Init /\ T!TokensInit

AccountStep ==
    /\ Step
    /\ T!TokensStay

TokenOps == {"issue", "verify", "listTokens", "revoke", "revokeAll"}

\* A step of a token operation; those that a handler of UserAccounts calls wait for it.
TokenStep(c) ==
    /\ T!TokenStep(c)
    /\ UNCHANGED vars
    /\ \/ request[c].op \in TokenOps
       \/ call[c].pc = "token" /\ request[c].op = "signIn" /\ task'[c].pc # "end"
       \/ call[c].pc = "revoke" /\ task'[c].pc # "end"

\* The token operation of a handler ends, and with it the handler.
HandlerEnds(c) ==
    /\ \/ call[c].pc = "token" /\ (T!CreatePost(c) \/ T!CreateAdd(c))
       \/ call[c].pc = "revoke" /\ T!RevokeSecret(c)
    /\ task'[c].pc = "end"
    /\ Answer(c)
    /\ UNCHANGED <<users, groups, request, history, budget>>

\* What happens to tokens by itself.
TokensChange ==
    /\ \/ \E p \in tokenPuts : T!PutLands(p)
       \/ \E t \in TokenIds : T!Expire(t)
    /\ UNCHANGED vars

ProcessRestarts ==
    \/ Restart /\ T!ProcessEnds
    \/ \E p \in tokenPuts :
           /\ T!PutRejected(p)
           /\ Restarted
           /\ budget' = IF tokenSecret = T!NoTokens THEN budget ELSE [budget EXCEPT !.fail = @ - 1]

Next ==
    \/ AccountStep
    \/ \E c \in Calls : TokenStep(c) \/ HandlerEnds(c)
    \/ TokensChange
    \/ ProcessRestarts

Spec == Init2 /\ [][Next]_<<vars, T!tokenVars>>

\* Every variable keeps its type, and whoever holds the mutex of the tokens is about
\* to store them.
AllTypesOK == TypeOK /\ T!TokensTypeOK

\* The properties of Tokens, of the tokens as these handlers use them: a password
\* change that was answered ends the browser sessions (RevocationIsFinal).
RevocationIsFinal == T!RevocationIsFinal
TokensKept        == T!TokensKept
OnlyInvalidTokensPurged == T!OnlyInvalidTokensPurged
=============================================================================
