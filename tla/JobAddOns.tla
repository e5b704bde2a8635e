------------------------------ MODULE JobAddOns ------------------------------
(***************************************************************************)
(* The add-ons of ONE job: the secrets and the priority class that its     *)
(* pods need, whose definitions rest-server submits with the job.          *)
(*                                                                         *)
(* The write merger and the poller of database-controller create them      *)
(* before the framework and then, without waiting, make the framework the  *)
(* owner of the secrets, so that Kubernetes deletes them after it.  The    *)
(* garbage collector of the watchdog deletes what was left.  Every call on *)
(* the API server may fail, or succeed and lose its answer; every process  *)
(* may end, and is started again.                                          *)
(*                                                                         *)
(* The row of the job follows the framework as DatabaseController has it   *)
(* in detail: here it only decides what the poller does.  The token secret *)
(* is left out: rest-server never defines one.                             *)
(***************************************************************************)
EXTENDS Integers, Sequences

CONSTANTS
    Clients,        \* the synchronizations that may be under way, Poller among them
    Poller,
    Explored        \* bounds: the jobs to explore, [given, budget]

AddOns    == {"configcred", "usercred", "priority", "regcred"}
Secrets   == AddOns \ {"priority"}
Collected == AddOns \ {"usercred"}          \* the names the watchdog knows

\* How many calls fail, requests users change, frameworks others delete or the API server
\* refuses for good, restarts.
Budget == [fail : Nat, patch : Nat, delete : Nat, reject : Nat, restart : Nat]

ASSUME AddOnsAssumption ==
    /\ Poller \in Clients
    /\ Explored \subseteq [given : Seq(AddOns), budget : Budget]

VARIABLES
    given,          \* the add-ons of the job, in the order they are created
    row,            \* what the database says of the framework
    fw,             \* the framework in the API server: [uid, done], or NoFramework
    addon,          \* the owner of each add-on in the API server, NoOwner or Absent
    client,         \* each synchronization: [pc, next], next an index of given
    patches,        \* changes of owners under way: [addon, uid]
    watchdog,       \* the round of the garbage collector: [pc, exists, since, todo]
    uids,           \* the last uid given to a framework
    budget,
    raced           \* history: add-ons deleted for a framework other than the present one

vars == <<given, row, fw, addon, client, patches, watchdog, uids, budget, raced>>

NoFramework == [uid |-> 0, done |-> FALSE]
NoOwner     == 0
Absent      == -1
Ready       == [pc |-> "idle", next |-> 0]
NoRound     == [pc |-> "idle", exists |-> FALSE, since |-> 0, todo |-> {}]

Init ==
    /\ \E e \in Explored : given = e.given /\ budget = e.budget
    /\ row = "none" /\ fw = NoFramework /\ uids = 0
    /\ addon = [a \in AddOns |-> Absent]
    /\ client = [c \in Clients |-> Ready]
    /\ patches = {} /\ watchdog = NoRound /\ raced = {}

Spend(what) == budget[what] > 0 /\ budget' = [budget EXCEPT ![what] = @ - 1]

Running  == fw.uid # 0
Given    == {given[i] : i \in DOMAIN given}
Creating == \E c \in Clients : client[c].pc = "addon"

(***************************************************************************)
(* synchronizeRequest, for the write merger (at once when users make or    *)
(* change the request) and for the poller.                                 *)
(***************************************************************************)
Begin(c) == client[c] = Ready /\ client' = [client EXCEPT ![c].pc = "patch"]

Submit(c) ==
    /\ row = "none" /\ row' = "unsynced"
    /\ c # Poller /\ Begin(c)
    /\ UNCHANGED <<given, fw, addon, patches, watchdog, uids, budget, raced>>

ChangeRequest(c) ==
    /\ row \in {"unsynced", "synced"} /\ row' = "unsynced"
    /\ c # Poller /\ Begin(c)
    /\ Spend("patch")
    /\ UNCHANGED <<given, fw, addon, patches, watchdog, uids, raced>>

PollUnsynced ==
    /\ row = "unsynced" /\ Begin(Poller)
    /\ UNCHANGED <<given, row, fw, addon, patches, watchdog, uids, budget, raced>>

End(c) == client' = [client EXCEPT ![c] = Ready]

\* A call fails: the write merger ignores it, the poller tries again in a later round.
Fails(c) == Spend("fail") /\ End(c)

\* synchronizeModify: a framework that is not found is created.
PatchFramework(c) ==
    /\ client[c].pc = "patch"
    /\ \/ Running /\ End(c) /\ UNCHANGED budget
       \/ ~Running /\ client' = [client EXCEPT ![c] = [pc |-> "addon", next |-> 1]] /\ UNCHANGED budget
       \/ Fails(c)
    /\ UNCHANGED <<given, row, fw, addon, patches, watchdog, uids, raced>>

\* Mutant: an add-on that cannot be created is only logged.
CreateAddOnOrLog(c) ==
    /\ client[c].pc = "addon" /\ client[c].next <= Len(given)
    /\ LET a == given[client[c].next] IN
       /\ \/ addon' = [addon EXCEPT ![a] = IF @ = Absent THEN NoOwner ELSE @] /\ UNCHANGED budget
          \/ Spend("fail") /\ UNCHANGED addon
       /\ client' = [client EXCEPT ![c].next = @ + 1]
       /\ raced' = raced \ {a}
    /\ UNCHANGED <<given, row, fw, patches, watchdog, uids>>

\* What exists (409) is kept, whoever owns it.
CreateAddOn(c) ==
    /\ client[c].pc = "addon" /\ client[c].next <= Len(given)
    /\ LET a == given[client[c].next] IN
       \/ /\ addon' = [addon EXCEPT ![a] = IF @ = Absent THEN NoOwner ELSE @]
          /\ \/ client' = [client EXCEPT ![c].next = @ + 1] /\ UNCHANGED budget
             \/ Fails(c)
          /\ raced' = raced \ {a}
       \/ Fails(c) /\ UNCHANGED <<addon, raced>>
    /\ UNCHANGED <<given, row, fw, patches, watchdog, uids>>

\* Mutant: of the priority class too.
OwnedAlike == Given

Owned == Given \intersect Secrets

\* Then the owners are changed, unless the answer was lost.  A framework that others
\* created meanwhile (409) is an error.
CreateFramework(c) ==
    /\ client[c].pc = "addon" /\ client[c].next > Len(given)
    /\ \/ Running /\ End(c) /\ UNCHANGED <<fw, uids, patches, budget>>
       \/ /\ ~Running
          /\ uids' = uids + 1 /\ fw' = [uid |-> uids', done |-> FALSE]
          /\ \/ patches' = patches \union [addon : Owned, uid : {uids'}] /\ End(c) /\ UNCHANGED budget
             \/ Fails(c) /\ UNCHANGED patches
       \/ Fails(c) /\ UNCHANGED <<fw, uids, patches>>
    /\ UNCHANGED <<given, row, addon, watchdog, raced>>

\* The API server refuses the framework for good: the poller has it marked as failed.
RefuseFramework(c) ==
    /\ client[c].pc = "addon" /\ client[c].next > Len(given) /\ ~Running
    /\ Spend("reject") /\ End(c)
    /\ row' = IF c = Poller /\ row \in {"unsynced", "synced"} THEN "completed" ELSE row
    /\ UNCHANGED <<given, fw, addon, patches, watchdog, uids, raced>>

\* patchSecretOwnerToFramework: not found when the secret is gone.
ChangeOwner(p) ==
    /\ p \in patches /\ patches' = patches \ {p}
    /\ \/ /\ addon' = IF addon[p.addon] = Absent THEN addon ELSE [addon EXCEPT ![p.addon] = p.uid]
          /\ UNCHANGED budget
       \/ Spend("fail") /\ UNCHANGED addon
    /\ UNCHANGED <<given, row, fw, client, watchdog, uids, raced>>

\* deleteHandler of the poller: a framework that is not found is reported as deleted.
DeleteFramework ==
    /\ row = "completed" /\ client[Poller] = Ready
    /\ fw' = NoFramework
    /\ row' = IF Running THEN row ELSE "deleted"
    /\ UNCHANGED <<given, addon, client, patches, watchdog, uids, budget, raced>>

\* The write merger handles what the watcher saw.
Observe ==
    /\ \/ row = "unsynced" /\ Running /\ ~fw.done /\ row' = "synced"
       \/ row \in {"unsynced", "synced"} /\ fw.done /\ row' = "completed"
       \/ row = "synced" /\ ~Running /\ row' = "unsynced"
       \/ row = "completed" /\ ~Running /\ row' = "deleted"
    /\ UNCHANGED <<given, fw, addon, client, patches, watchdog, uids, budget, raced>>

\* A process ends in the middle, its changes of owners with it.
Restart(c) ==
    /\ client[c] # Ready \/ patches # {}
    /\ Spend("restart")
    /\ End(c) /\ patches' = {}
    /\ UNCHANGED <<given, row, fw, addon, watchdog, uids, raced>>

(***************************************************************************)
(* The garbage collector of the watchdog: it lists the frameworks, the     *)
(* priority classes, the secrets, and deletes those whose name has no      *)
(* framework, the owned ones too: the `continue` that is to skip them is   *)
(* one of the loop over the owners.                                        *)
(***************************************************************************)
Listed(exists) ==
    watchdog' = [pc |-> "priority", exists |-> exists, since |-> uids, todo |-> {}]

Found(pc, names) == watchdog' = [watchdog EXCEPT !.pc = pc, !.todo = @ \union names]

\* Mutant: a list that failed is taken for an empty one.
ListFrameworksOrNone ==
    /\ watchdog.pc = "idle"
    /\ \/ Listed(Running) /\ UNCHANGED budget
       \/ Spend("fail") /\ Listed(FALSE)
    /\ UNCHANGED <<given, row, fw, addon, client, patches, uids, raced>>

\* A failure ends the round, with nothing to delete.
ListFrameworks ==
    /\ watchdog.pc = "idle"
    /\ Listed(Running)
    /\ UNCHANGED <<given, row, fw, addon, client, patches, uids, budget, raced>>

Present(names) == {a \in names : addon[a] # Absent}

ListPriorityClasses ==
    /\ watchdog.pc = "priority"
    /\ \/ Found("secrets", Present({"priority"})) /\ UNCHANGED budget
       \/ Spend("fail") /\ Found("secrets", {})
    /\ UNCHANGED <<given, row, fw, addon, client, patches, uids, raced>>

\* Mutant: only secrets that a framework owns are looked at.
ListOwnedSecrets ==
    /\ watchdog.pc = "secrets"
    /\ Found("delete", {a \in Present(Secrets \intersect Collected) : addon[a] # NoOwner})
    /\ UNCHANGED <<given, row, fw, addon, client, patches, uids, budget, raced>>

ListSecrets ==
    /\ watchdog.pc = "secrets"
    /\ \/ Found("delete", Present(Secrets \intersect Collected))
          /\ UNCHANGED budget
       \/ Spend("fail") /\ Found("delete", {})
    /\ UNCHANGED <<given, row, fw, addon, client, patches, uids, raced>>

\* The deletion of a, by who found it to be garbage when uid was the last one.
Delete(a, uid) ==
    /\ addon' = [addon EXCEPT ![a] = Absent]
    /\ raced' = IF fw.uid > uid \/ Creating THEN raced \union {a} ELSE raced

\* removeOrphanPriorityClasses, removeOrphanSecrets.
RemoveOrphan ==
    /\ watchdog.pc = "delete" /\ ~watchdog.exists
    /\ \E a \in watchdog.todo :
           /\ "priority" \in watchdog.todo => a = "priority"
           /\ watchdog' = [watchdog EXCEPT !.todo = @ \ {a}]
           /\ \/ Delete(a, watchdog.since) /\ UNCHANGED budget
              \/ Spend("fail") /\ UNCHANGED <<addon, raced>>
    /\ UNCHANGED <<given, row, fw, client, patches, uids>>

EndRound ==
    /\ watchdog.pc = "delete"
    /\ watchdog.exists \/ watchdog.todo = {}
    /\ watchdog' = NoRound
    /\ UNCHANGED <<given, row, fw, addon, client, patches, uids, budget, raced>>

(***************************************************************************)
(* The framework controller, other users of the API server, and the        *)
(* garbage collector of Kubernetes.                                        *)
(***************************************************************************)
Complete ==
    /\ Running /\ ~fw.done
    /\ fw' = [fw EXCEPT !.done = TRUE]
    /\ UNCHANGED <<given, row, addon, client, patches, watchdog, uids, budget, raced>>

DeletedByOthers ==
    /\ Running /\ Spend("delete")
    /\ fw' = NoFramework
    /\ UNCHANGED <<given, row, addon, client, patches, watchdog, uids, raced>>

\* An object whose owner is gone.
KubernetesCollects(a) ==
    /\ addon[a] \notin {Absent, NoOwner, fw.uid}
    /\ Delete(a, addon[a])
    /\ UNCHANGED <<given, row, fw, client, patches, watchdog, uids, budget>>

(***************************************************************************)
Synchronize(c) == PatchFramework(c) \/ CreateAddOn(c) \/ CreateFramework(c) \/ RefuseFramework(c)

Watchdog ==
    \/ ListFrameworks \/ ListPriorityClasses \/ ListSecrets
    \/ RemoveOrphan \/ EndRound

Next ==
    \/ \E c \in Clients : Submit(c) \/ ChangeRequest(c) \/ Synchronize(c) \/ Restart(c)
    \/ PollUnsynced \/ DeleteFramework \/ Observe
    \/ \E p \in patches : ChangeOwner(p)
    \/ Watchdog
    \/ Complete \/ DeletedByOthers
    \/ \E a \in AddOns : KubernetesCollects(a)

\* Every process goes on, and rounds are made for ever.
Fairness ==
    /\ \A c \in Clients : WF_vars(Synchronize(c))
    /\ WF_vars(PollUnsynced) /\ WF_vars(DeleteFramework) /\ WF_vars(Observe)
    /\ WF_vars(\E p \in patches : ChangeOwner(p))
    /\ WF_vars(Watchdog)
    /\ \A a \in AddOns : WF_vars(KubernetesCollects(a))

Spec == Init /\ [][Next]_vars /\ Fairness

(***************************************************************************)
(* Properties.                                                             *)
(***************************************************************************)
\* Only the secrets of the job ever have an owner, a framework that once was there; clients
\* and the watchdog are where their code can be.
TypeOK ==
    /\ given \in Seq(AddOns) /\ uids \in Nat /\ raced \subseteq AddOns
    /\ row \in {"none", "unsynced", "synced", "completed", "deleted"}
    /\ fw \in [uid : {0, uids}, done : BOOLEAN] /\ (fw.done => Running)
    /\ addon \in [AddOns -> {Absent} \union 0..uids]
    /\ \A a \in AddOns : addon[a] > NoOwner => a \in Given \intersect Secrets
    /\ client \in [Clients -> {Ready, [Ready EXCEPT !.pc = "patch"]}
                                 \union [pc : {"addon"}, next : 1..Len(given) + 1]]
    /\ patches \subseteq [addon : Given \intersect Secrets, uid : 1..uids]
    /\ watchdog \in [pc : {"idle", "priority", "secrets", "delete"}, exists : BOOLEAN,
                     since : 0..uids, todo : SUBSET Collected]

Kept(a) == addon[a] # Absent \/ a \in raced

\* A framework is never there without the add-ons its pods need, in spite of failed and
\* unanswered calls, two synchronizations at a time, and restarts: only a deletion decided
\* before it was created takes one away, by a round of the watchdog that listed the
\* frameworks earlier, or by Kubernetes for an earlier framework of the job.
AddOnsComplete == Running => \A a \in Given : Kept(a)

\* What makes it so: a client has created the add-ons before its present one, and a round
\* that found no framework knows of none as old as it is.
CreatedInOrder ==
    \A c \in Clients : client[c].pc = "addon" => \A i \in 1..client[c].next - 1 : Kept(given[i])

RoundIsOlder == watchdog.pc # "idle" /\ ~watchdog.exists /\ Running => fw.uid > watchdog.since

IInv == AddOnsComplete /\ CreatedInOrder /\ RoundIsOlder

\* When a job is gone for good its add-ons go too, whatever was lost on the way: all that
\* the watchdog knows by name, and the others if the framework was made their owner.
AddOnsCollected ==
    <>[](fw.uid = 0) =>
        <>[](\A a \in AddOns : addon[a] = Absent \/ (a \notin Collected /\ addon[a] = NoOwner))
=============================================================================
