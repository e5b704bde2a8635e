--------------------------- MODULE MCRestServer -----------------------------
(***************************************************************************)
(* Model-checking instances of RestServerSessions: an administrator, a     *)
(* user, one that may be created, two virtual clusters, one more group.    *)
(* The scripts bring together requests that share users, groups or caches. *)
(***************************************************************************)
EXTENDS RestServerSessions

Get(u)            == [op |-> "get", user |-> u]
Email(u, e)       == [op |-> "email", user |-> u, email |-> e]
SetTo(u, gs)      == [op |-> "setGroups", user |-> u, groups |-> gs]
Join(u, g)        == [op |-> "addGroup", user |-> u, group |-> g]
Leave(u, g)       == [op |-> "removeGroup", user |-> u, group |-> g]
Password(u, o, b) == [op |-> "password", user |-> u, old |-> o, new |-> "t2", byAdmin |-> b]
Admin(u, b)       == [op |-> "admin", user |-> u, admin |-> b]
VCsOf(u, vs)      == [op |-> "setVCs", user |-> u, vcs |-> vs]
Delete(u)         == [op |-> "delete", user |-> u]
Create(u, vs)     == [op |-> "create", user |-> u, vcs |-> vs]
External(u, gs)   == [op |-> "login", user |-> u, groups |-> gs]
List              == [op |-> "list"]
NewGroup(g, vs)   == [op |-> "createGroup", group |-> g, value |-> [admin |-> FALSE, vcs |-> vs]]
ChangeTo(g, vs)   == [op |-> "updateGroup", group |-> g, value |-> [admin |-> FALSE, vcs |-> vs]]
Drop(g)           == [op |-> "deleteGroup", group |-> g]
Update(u, s, vs)  == [op |-> "update", user |-> u, sets |-> s, email |-> "e2", vcs |-> vs,
                      admin |-> TRUE, new |-> "t2"]
Self(u, s, o)     == [op |-> "self", user |-> u, sets |-> s, email |-> "e2", old |-> o, new |-> "t2"]

AccountScripts == {
    <<Get("u1"), Email("u1", "e2"), Update("u1", {"email", "vc", "admin"}, {"vc", "team"})>>,
    <<List, Create("u2", {"vc"}), Drop("vc")>>,
    <<Join("u1", "team"), NewGroup("team", {"vc"}), Drop("team")>>,
    <<Leave("u1", "vc"), SetTo("u1", {"default", "vc"}), Delete("u2")>>,
    <<ChangeTo("vc", {"team"}), SetTo("u1", {"default", "vc"}), Delete("u2")>>,
    <<Delete("u1"), Email("u1", "e2"), Create("u1", {"vc"})>>,
    <<Admin("u1", TRUE), VCsOf("u1", {"vc"}), Delete("u1")>>,
    <<Password("u1", "t1", FALSE), Self("u1", {"email", "password"}, "t1"), Get("u1")>>,
    <<Update("u1", {"admin", "password"}, {}), Self("u1", {"email"}, "t1"), List>>,
    <<Password("u1", "t2", TRUE), Update("u1", {"vc"}, {"vc"}), Get("u1")>>,
    <<Update("u1", {"vc", "admin"}, {"vc"}), Drop("vc"), Delete("u2")>>,
    <<Drop("vc"), NewGroup("vc", {"vc"}), Join("u1", "team")>>,
    <<NewGroup("team", {"vc"}), ChangeTo("team", {}), Join("u1", "team")>>,
    <<External("u2", {"default"}), External("u2", {"default", "vc"}), Email("u2", "e2")>>,
    <<Admin("a", FALSE), Delete("a"), Join("a", "team")>>,
    <<Admin("a", FALSE), Drop("admin"), Delete("u2")>> }

Issue(t)       == [op |-> "issue", token |-> t]
Verify(t)      == [op |-> "verify", token |-> t]
Revoke(t)      == [op |-> "revoke", token |-> t]
ListAll        == [op |-> "listTokens"]
RevokeEvery    == [op |-> "revokeAll"]
Basic(u, o, t) == [op |-> "signIn", user |-> u, old |-> o, token |-> t]

TokenScripts == {
    <<Issue("app"), Issue("web"), Verify("app")>>,
    <<Issue("app"), Issue("web"), ListAll>>,
    <<Issue("web"), Revoke("web"), Verify("web")>>,
    <<Issue("app"), Issue("web"), Revoke("web")>>,
    <<Issue("app"), RevokeEvery, Verify("app")>>,
    <<Issue("web"), RevokeEvery, Revoke("web")>> }

SessionScripts == {
    <<Basic("u1", "t1", "web"), Password("u1", "t1", FALSE), Verify("web")>>,
    <<Issue("app"), Self("u1", {"password"}, "t1"), Basic("u1", "t2", "web")>> }

MCScripts == AccountScripts \union TokenScripts \union SessionScripts

MCBudgets == {[fail |-> 1, restart |-> 1]}

\* A restart, and nothing fails.
RestartOnly == {[fail |-> 0, restart |-> 1]}
=============================================================================
