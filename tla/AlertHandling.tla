---------------------------- MODULE AlertHandling ----------------------------
(***************************************************************************)
(* The notifier and the alert-handler of alert-manager with the            *)
(* Alertmanager between them: what JobNotification posts about failed      *)
(* nodes and about a job fires a webhook of AlertHandler.  Every process   *)
(* may end at any time; they share nothing but the alerts.                 *)
(*                                                                         *)
(* The alerts about nodes that passed and the mails to the administrator   *)
(* have no effect here: the latter are only logged, the former read by     *)
(* programs outside the model.                                             *)
(***************************************************************************)
EXTENDS JobNotification

CONSTANTS Nodes, Pods, Hooks, Outside, CordonHook, MailHook, Budgets

VARIABLES hook, work, cordoned, podNode, bound, dying, rebooter, lifted

H == INSTANCE AlertHandler

ASSUME HandlingAssumption ==
    /\ {CordonHook, MailHook} \subseteq Hooks /\ CordonHook # MailHook
    /\ \A j \in DOMAIN Results :
           Results[j] \subseteq [node : Nodes, passed : BOOLEAN] /\ IsFiniteSet(Results[j])
    /\ Outside \subseteq [action : H!Actions, nodes : SUBSET Nodes]
    /\ {H!Unborn, H!Gone, H!User} \intersect Nodes = {}

vars == <<noteVars, H!alertVars>>

Init ==
    /\ budget \in Budgets
    /\ NoteInit
    /\ H!HandlerInit

\* The notifier posts; what is accepted fires.
Notifies(j) ==
    /\ \E outcome \in Outcomes :
           \/ /\ Send(j, outcome)
              /\ IF outcome = "refused" THEN UNCHANGED hook ELSE H!Fire(MailHook, "mailUser", {H!User})
           \/ ReportGood(j, outcome) /\ UNCHANGED hook
           \/ /\ ReportBad(j, outcome)
              /\ IF outcome = "refused" THEN UNCHANGED hook
                 ELSE H!Fire(CordonHook, "cordon", handler[j].bad)
    /\ H!WorkStays

NotifierStep(j) == Notifies(j) \/ (Work(j) /\ H!AlertsStay)

Polls == Poll /\ H!AlertsStay

HookStep(h) ==
    /\ \/ H!Deliver(h) \/ H!AnswerOk(h) \/ H!AnswerFailed(h)
       \/ \E t \in work : t.hook = h /\ H!NodeStep(t)
    /\ UNCHANGED <<row, handler, historyVars>>

Environment ==
    \/ /\ RowChanges \/ NotifierRestarts
       /\ H!AlertsStay
    \/ /\ \/ \E h \in Hooks \ {CordonHook, MailHook} : H!FireOutside(h)
          \/ \E h \in Hooks : H!Resolve(h)
          \/ \E p \in Pods : H!PodMoves(p)
          \/ work # {} /\ H!MayFail /\ H!HandlerRestarts /\ H!NodesStay
       /\ UNCHANGED <<row, handler, historyVars>>

Next ==
    \/ Polls
    \/ \E j \in Jobs : NotifierStep(j)
    \/ \E h \in Hooks : HookStep(h)
    \/ Environment

\* The processes go on by themselves, and are started again when they end; the
\* Alertmanager posts a group until it is answered or resolved.  The properties need
\* that of the hook for failed nodes only.
Fairness ==
    /\ WF_vars(Polls)
    /\ \A j \in Jobs : WF_vars(NotifierStep(j))
    /\ WF_vars(HookStep(CordonHook))

Spec == Init /\ [][Next]_vars /\ Fairness

(***************************************************************************)
(* Properties, those of the two parts among them.                          *)
(***************************************************************************)
TypeOK == NoteTypeOK /\ H!HandlerTypeOK

CordonHolds     == H!CordonHolds
DrainTellsPods  == H!DrainTellsPods
RebootTellsPods == H!RebootTellsPods

\* A node whose failed validation was reported is taken out of service, unless the alert
\* is resolved first or the node uncordoned meanwhile: the posts and the requests may
\* each fail, be repeated, or find the process gone.
ReportedNodeCordoned ==
    \A n \in Nodes :
        n \in hook[CordonHook].nodes
            ~> n \in cordoned \union lifted[CordonHook] \/ hook[CordonHook].status = "resolved"
=============================================================================
