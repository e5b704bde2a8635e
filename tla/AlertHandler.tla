----------------------------- MODULE AlertHandler -----------------------------
(***************************************************************************)
(* alert-manager's alert-handler: the webhooks that the Alertmanager posts *)
(* firing alerts to, and what they do to the nodes: cordon, uncordon,      *)
(* drain and reboot them, or mail somebody.                                *)
(*                                                                         *)
(* The Alertmanager posts again what was not answered with a 2xx, until    *)
(* the alert is resolved.  One request works on all its nodes at once, and *)
(* what it started goes on after a failed answer.  An error that nobody    *)
(* handles ends the process: a failed uncordon (its catch refers to an     *)
(* undefined name) and a failed mail to users or groups (not awaited).     *)
(* What fails in a drain or a reboot is logged and answered as a success.  *)
(*                                                                         *)
(* A pod is on its way to a node from the decision of the scheduler to the *)
(* binding, which looks at the node no more, and still there after its     *)
(* deletion was accepted, until its containers have ended.                 *)
(*                                                                         *)
(* SyncUserLogs, which a cordon waits for, never fails it and is left out. *)
(***************************************************************************)
EXTENDS Naturals, FiniteSets

CONSTANTS
    Nodes,
    Pods,           \* pods of jobs that may be bound to a node
    Hooks,          \* groups of alerts, each for one receiver
    Outside         \* what other alerts may fire: [action, nodes] records

Actions == {"cordon", "uncordon", "drain", "reboot", "mailUser"}

Unborn == "unborn"
Gone   == "gone"
User   == "user"                \* whom a mail is for
NoHook == [action |-> "none", nodes |-> {}, status |-> "none"]

VARIABLES
    hook,           \* each group of alerts: [action, nodes, status]
    work,           \* the promise chains of the requests: [hook, node, pc, skip, pods, late, old];
                    \* late is history: the pods on their way to the node when its pods were listed
    cordoned,       \* the nodes that are unschedulable
    podNode,        \* the node each pod is scheduled to, Unborn or Gone
    bound,          \* the pods that are bound to their node
    dying,          \* those of them whose deletion was accepted
    rebooter,       \* the nodes with a reboot pod
    lifted,         \* history: nodes uncordoned since a hook was last posted, by hook
    budget

podVars   == <<podNode, bound, dying>>
nodeVars  == <<cordoned, podVars, rebooter, lifted>>
alertVars == <<hook, work, nodeVars>>

AlertsStay == UNCHANGED alertVars
WorkStays  == UNCHANGED <<work, nodeVars>>
NodesStay  == UNCHANGED nodeVars

HandlerInit ==
    /\ hook = [h \in Hooks |-> NoHook]
    /\ work = {} /\ cordoned = {} /\ rebooter = {}
    /\ podNode = [p \in Pods |-> Unborn] /\ bound = {} /\ dying = {}
    /\ lifted = [h \in Hooks |-> {}]

MayFail == budget.fail > 0 /\ budget' = [budget EXCEPT !.fail = @ - 1]

(***************************************************************************)
(* The Alertmanager.                                                       *)
(***************************************************************************)
\* Alerts of a group fire.  The group is posted with them, as soon as possible when it
\* is being posted without them: the answer to that is of no account.
Fire(h, action, nodes) ==
    LET firing == hook[h].status \in {"firing", "open", "refused"}
        group  == IF firing THEN hook[h].nodes \union nodes ELSE nodes
    IN  hook' = IF firing /\ group = hook[h].nodes THEN hook
                ELSE [hook EXCEPT ![h] = [action |-> action, nodes |-> group, status |-> "firing"]]

FireOutside(h) ==
    /\ hook[h].status = "none"
    /\ budget.alerts > 0 /\ budget' = [budget EXCEPT !.alerts = @ - 1]
    /\ \E a \in Outside : Fire(h, a.action, a.nodes)
    /\ UNCHANGED <<work, nodeVars>>

First(action) ==
    CASE action = "drain"    -> "check"
      [] action = "uncordon" -> "uncordon"
      [] action = "mailUser" -> "lookup"
      [] OTHER               -> "cordon"

Done(t) == t.pc \in {"ok", "failed"} /\ t.pods = {}

Deliver(h) ==
    /\ hook[h].status \in {"firing", "refused"}
    /\ hook' = [hook EXCEPT ![h].status = "open"]
    /\ work' = {IF t.hook = h THEN [t EXCEPT !.old = TRUE] ELSE t :
                    t \in {t \in work : ~(t.hook = h /\ Done(t))}}
                \union {[hook |-> h, node |-> n, pc |-> First(hook[h].action),
                         skip |-> FALSE, pods |-> {}, late |-> {}, old |-> FALSE] : n \in hook[h].nodes}
    /\ lifted' = [lifted EXCEPT ![h] = {}]
    /\ UNCHANGED <<cordoned, podVars, rebooter, budget>>

\* An alert that was answered with an error is resolved before it is posted again.
Resolve(h) ==
    /\ hook[h].status = "refused"
    /\ hook' = [hook EXCEPT ![h].status = "resolved"]
    /\ UNCHANGED <<work, nodeVars, budget>>

(***************************************************************************)
(* The steps of a request on one node.                                     *)
(***************************************************************************)
ActionOf(t) == hook[t.hook].action

Becomes(t, u) == work' = (work \ {t}) \union {u}

To(t, pc) == Becomes(t, [t EXCEPT !.pc = pc])

Fails(t) == MayFail /\ To(t, "failed")

\* checkNodeCordoned: the drain of a node that is cordoned is skipped.
Check(t) ==
    /\ t.pc = "check"
    /\ \/ Becomes(t, [t EXCEPT !.pc = "cordon", !.skip = t.node \in cordoned]) /\ UNCHANGED budget
       \/ Fails(t)
    /\ UNCHANGED <<hook, nodeVars>>

\* Mutant: the node stays schedulable until it is empty.
CordonLater(t) ==
    /\ t.pc = "cordon"
    /\ cordoned' = IF ActionOf(t) = "cordon" THEN cordoned \union {t.node} ELSE cordoned
    /\ To(t, IF ActionOf(t) = "cordon" \/ t.skip THEN "ok" ELSE "list")
    /\ UNCHANGED <<hook, podVars, rebooter, lifted, budget>>

\* The patch is accepted, and maybe the answer lost, or it is refused.
Cordon(t) ==
    /\ t.pc = "cordon"
    /\ \/ /\ cordoned' = cordoned \union {t.node}
          /\ To(t, IF ActionOf(t) = "cordon" \/ t.skip THEN "ok" ELSE "list")
          /\ UNCHANGED budget
       \/ Fails(t) /\ cordoned' \in {cordoned, cordoned \union {t.node}}
    /\ UNCHANGED <<hook, podVars, rebooter, lifted>>

PodsOn(n)   == {p \in bound : podNode[p] = n}
InFlight(n) == {p \in Pods \ bound : podNode[p] = n}

Evicted(t) == IF ActionOf(t) = "drain" THEN "ok" ELSE "boot"

\* Mutant: the reboot does not wait for the deletions.
ListAndGo(t) ==
    /\ t.pc = "list"
    /\ To(t, Evicted(t))
    /\ UNCHANGED <<hook, nodeVars, budget>>

List(t) ==
    /\ t.pc = "list"
    /\ \/ /\ Becomes(t, [t EXCEPT !.pods = PodsOn(t.node), !.late = InFlight(t.node),
                                  !.pc = IF PodsOn(t.node) = {} THEN Evicted(t) ELSE "evict"])
          /\ UNCHANGED budget
       \/ Fails(t)
    /\ UNCHANGED <<hook, nodeVars>>

\* One of the deletions is answered: accepted, or the pod is not found any more, or it
\* fails with or without effect.  The first to fail fails the drain, the others go on.
Evict(t) ==
    /\ t.pc \in {"evict", "failed"}
    /\ \E p \in t.pods :
           LET rest  == [t EXCEPT !.pods = @ \ {p}]
               fails == Becomes(t, [rest EXCEPT !.pc = "failed"])
           IN  \/ /\ p \in bound
                  /\ dying' = dying \union {p}
                  /\ Becomes(t, [rest EXCEPT !.pc = IF t.pc = "evict" /\ rest.pods = {} THEN Evicted(t) ELSE @])
                  /\ UNCHANGED budget
               \/ p \notin bound /\ fails /\ UNCHANGED <<dying, budget>>
               \/ MayFail /\ fails /\ dying' \in {dying, dying \union ({p} \intersect bound)}
    /\ UNCHANGED <<hook, cordoned, podNode, bound, rebooter, lifted>>

\* createNamespacedPod; the name is that of the node.
Boot(t) ==
    /\ t.pc = "boot"
    /\ \/ /\ t.node \notin rebooter
          /\ rebooter' = rebooter \union {t.node}
          /\ To(t, "ok")
          /\ UNCHANGED budget
       \/ t.node \in rebooter /\ To(t, "failed") /\ UNCHANGED <<rebooter, budget>>
       \/ Fails(t) /\ rebooter' \in {rebooter, rebooter \union {t.node}}
    /\ UNCHANGED <<hook, cordoned, podVars, lifted>>

\* The process ends, and is started again.
HandlerRestarts ==
    /\ work' = {}
    /\ hook' = [h \in Hooks |-> IF hook[h].status = "open" THEN [hook[h] EXCEPT !.status = "refused"]
                                                           ELSE hook[h]]

Lifts(n) ==
    /\ cordoned' = cordoned \ {n}
    /\ lifted' = [h \in Hooks |-> lifted[h] \union {n}]

\* The patch is accepted, and maybe the answer lost, or it is refused.
Uncordon(t) ==
    /\ t.pc = "uncordon"
    /\ \/ Lifts(t.node) /\ To(t, "ok") /\ UNCHANGED <<hook, budget>>
       \/ MayFail /\ HandlerRestarts /\ (Lifts(t.node) \/ UNCHANGED <<cordoned, lifted>>)
    /\ UNCHANGED <<podVars, rebooter>>

\* sendEmailToUsers waits for the address of the user and not for the mail.
Lookup(t) ==
    /\ t.pc = "lookup"
    /\ \/ To(t, "mail") /\ UNCHANGED budget
       \/ Fails(t)
    /\ UNCHANGED <<hook, nodeVars>>

Mail(t) ==
    /\ t.pc = "mail"
    /\ \/ To(t, "ok") /\ UNCHANGED <<hook, budget>>
       \/ MayFail /\ HandlerRestarts
    /\ UNCHANGED nodeVars

(***************************************************************************)
(* The answer to a request: cordonNodes and the mails fail at the first    *)
(* error (Promise.all).  drainNodes and rebootNodes wait for all nodes     *)
(* (Promise.allSettled) and count those whose promise was rejected; but    *)
(* the function of each node catches its error and returns, so there are   *)
(* none.                                                                   *)
(***************************************************************************)
WorkOf(h) == {t \in work : t.hook = h /\ ~t.old}

Settled(t) == t.pc \in {"ok", "failed"} \/ (ActionOf(t) = "mailUser" /\ t.pc = "mail")

\* Mutant: the answer does not wait for the nodes.
AnswerOkAtOnce(h) ==
    /\ hook[h].status = "open"
    /\ \A t \in WorkOf(h) : t.pc # "failed"
    /\ hook' = [hook EXCEPT ![h].status = "answered"]
    /\ UNCHANGED <<work, nodeVars, budget>>

\* Mutant: as for a drain, what failed on a node is only logged.
AnswerOkAnyway(h) ==
    /\ hook[h].status = "open"
    /\ \A t \in WorkOf(h) : Settled(t)
    /\ hook' = [hook EXCEPT ![h].status = "answered"]
    /\ UNCHANGED <<work, nodeVars, budget>>

Swallows(h) == hook[h].action \in {"drain", "reboot"}

AnswerOk(h) ==
    /\ hook[h].status = "open"
    /\ \A t \in WorkOf(h) : Settled(t) /\ (t.pc = "failed" => Swallows(h))
    /\ hook' = [hook EXCEPT ![h].status = "answered"]
    /\ UNCHANGED <<work, nodeVars, budget>>

AnswerFailed(h) ==
    /\ hook[h].status = "open" /\ ~Swallows(h)
    /\ \E t \in WorkOf(h) : t.pc = "failed"
    /\ hook' = [hook EXCEPT ![h].status = "refused"]
    /\ UNCHANGED <<work, nodeVars, budget>>

\* The scheduler chooses a node for a pod, and binds it whatever happened to the node
\* meanwhile; a pod is deleted before that, ends by itself, or its deletion is over.
PodMoves(p) ==
    /\ \/ /\ podNode[p] = Unborn
          /\ budget.pods > 0 /\ budget' = [budget EXCEPT !.pods = @ - 1]
          /\ \E n \in Nodes \ cordoned : podNode' = [podNode EXCEPT ![p] = n]
          /\ UNCHANGED <<bound, dying>>
       \/ /\ podNode[p] \in Nodes /\ p \notin bound
          /\ bound' = bound \union {p}
          /\ UNCHANGED <<podNode, dying, budget>>
       \/ /\ podNode[p] \in Nodes
          /\ podNode' = [podNode EXCEPT ![p] = Gone]
          /\ bound' = bound \ {p} /\ dying' = dying \ {p}
          /\ UNCHANGED budget
    /\ UNCHANGED <<hook, work, cordoned, rebooter, lifted>>

NodeStep(t) ==
    Check(t) \/ Cordon(t) \/ List(t) \/ Evict(t) \/ Boot(t) \/ Uncordon(t) \/ Lookup(t) \/ Mail(t)

(***************************************************************************)
(* Properties.                                                             *)
(***************************************************************************)
HandlerTypeOK ==
    /\ \A h \in Hooks :
           /\ hook[h].action \in Actions \union {"none"} /\ hook[h].nodes \subseteq Nodes \union {User}
           /\ hook[h].status = "none" <=> hook[h] = NoHook
           /\ hook[h].status = "open" => {t.node : t \in WorkOf(h)} = hook[h].nodes
    /\ \A t \in work : t.pods \union t.late \subseteq Pods /\ (t.pc = "evict" => t.pods # {})
    /\ cordoned \subseteq Nodes /\ rebooter \subseteq Nodes
    /\ dying \subseteq bound /\ \A p \in bound : podNode[p] \in Nodes
    /\ podNode \in [Pods -> Nodes \union {Unborn, Gone}]

\* A node stays out of service from the answer to its cordon on, and from the success of
\* its drain or reboot on (not from the answer, which comes after a failure as well),
\* unless it was uncordoned since the alert was posted.
CordonHolds ==
    \A h \in Hooks :
        /\ hook[h].status = "answered" /\ hook[h].action = "cordon"
               => hook[h].nodes \subseteq cordoned \union lifted[h]
        /\ Swallows(h) => \A t \in WorkOf(h) : t.pc = "ok" => t.node \in cordoned \union lifted[h]

\* Pods of a node that nobody told to go.
Untold(n) == PodsOn(n) \ dying

\* A drain that was not skipped and did not fail has told every pod of the node to go, and
\* none follows but those the scheduler had sent there when the pods were listed: the
\* node is cordoned before.
DrainTellsPods ==
    \A h \in Hooks : \A t \in WorkOf(h) :
        hook[h].action = "drain" /\ t.pc = "ok" /\ ~t.skip /\ t.node \notin lifted[h]
            => Untold(t.node) \subseteq t.late

\* No node is rebooted before its pods were told to go, but those the scheduler had sent
\* there when they were listed, or sends after an uncordon behind the request.
RebootTellsPods ==
    [][ \A n \in rebooter' \ rebooter :
            \E t \in work : /\ t.node = n /\ t.pc = "boot"
                            /\ Untold(n) \subseteq t.late \/ n \in lifted[t.hook] ]_alertVars
=============================================================================
