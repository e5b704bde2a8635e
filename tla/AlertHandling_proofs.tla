------------------------- MODULE AlertHandling_proofs -------------------------
(***************************************************************************)
(* For any jobs, nodes, pods, groups of alerts and budgets of failures:    *)
(* what the notifier writes into the database, and what the alert-handler  *)
(* promises of the nodes, holds whatever fails, is repeated or restarts.   *)
(*                                                                         *)
(* The notifier never reads the state of the alert-handler, so the proof   *)
(* has two parts that meet only where alerts fire.                         *)
(***************************************************************************)
EXTENDS AlertHandling, FiniteSetTheorems, TLAPS

(***************************************************************************)
(* The notifier.                                                           *)
(***************************************************************************)
States == {"WAITING", "RUNNING", "STOPPING"} \union Finals
Stages == {"idle", "send", "log", "good", "bad", "mail", "save"}

Row == [state : States, retries : 0..MaxRetries, notified : SUBSET (Kinds \ {"RETRIED"}), told : 0..MaxRetries]
Handler == [pc : Stages, infos : SUBSET Kinds, retries : 0..MaxRetries, good : SUBSET Nodes, bad : SUBSET Nodes]

NoteTypes ==
    /\ row \in [Jobs -> Row]
    /\ handler \in [Jobs -> Handler]
    /\ accepted \in [Jobs -> [Kinds -> Nat]]
    /\ retriesTold \in [Jobs -> SUBSET Nat]
    /\ excuses \in [Jobs -> Nat]
    /\ reported \in [DOMAIN Results -> [good : SUBSET Nodes, bad : SUBSET Nodes]]
    /\ misread \subseteq DOMAIN Results

StageFits(j) ==
    /\ row[j].notified \subseteq Wanted[j] /\ handler[j].infos \subseteq Wanted[j]
    /\ handler[j].pc = "idle" <=> handler[j].infos = {}
    /\ handler[j].pc \in {"log", "good", "bad", "mail"} => Validates(j)

\* What the handler of j is to save was sent.
Sent(j) == handler[j].pc \in Stages \ {"idle", "send"}

\* What the row says was accepted, and so was what was sent but not saved yet.
SentMeansAccepted(j) ==
    /\ \A k \in row[j].notified : accepted[j][k] > 0
    /\ row[j].told \in retriesTold[j] /\ 0 \in retriesTold[j]
    /\ Sent(j) =>
           /\ \A k \in handler[j].infos : accepted[j][k] > 0
           /\ "RETRIED" \in handler[j].infos => handler[j].retries \in retriesTold[j]

\* A notification neither saved nor about to be was accepted only with an excuse.
UnsavedMeansExcused(j) ==
    /\ handler[j].pc = "send" => handler[j].infos \intersect row[j].notified = {}
    /\ \A k \in Kinds \ {"RETRIED"} :
           /\ accepted[j][k] <= 1 + excuses[j]
           /\ k \in row[j].notified \/ (Sent(j) /\ k \in handler[j].infos) \/ accepted[j][k] <= excuses[j]

Passed(j) == {r.node : r \in {r \in Results[j] : r.passed}}
Failed(j) == {r.node : r \in {r \in Results[j] : ~r.passed}}

AllReported(j) == Passed(j) \subseteq reported[j].good /\ Failed(j) \subseteq reported[j].bad

\* How far the report of the nodes is, at each stage of the handler.
ReportsInOrder(j) ==
    j \in DOMAIN Results \ misread =>
        /\ reported[j].bad \subseteq Failed(j)
        /\ handler[j].pc = "good" => handler[j].good = Passed(j)
        /\ handler[j].pc \in {"good", "bad"} => handler[j].bad = Failed(j)
        /\ handler[j].pc = "bad" => Passed(j) \subseteq reported[j].good
        /\ handler[j].pc = "mail" \/ (handler[j].pc = "save" /\ Checking(j)) => AllReported(j)
        /\ row[j].notified \intersect {"SUCCEEDED", "FAILED"} # {} => AllReported(j)

JobOK(j) == StageFits(j) /\ SentMeansAccepted(j) /\ UnsavedMeansExcused(j) /\ ReportsInOrder(j)

NoteIInv == NoteTypes /\ \A j \in Jobs : JobOK(j)

(***************************************************************************)
(* The alert-handler.                                                      *)
(***************************************************************************)
Statuses  == {"none", "firing", "open", "refused", "answered", "resolved"}
TaskStages == {"check", "cordon", "list", "evict", "boot", "uncordon", "lookup", "mail", "ok", "failed"}

Hook == [action : H!Actions \union {"none"}, nodes : SUBSET (Nodes \union {H!User}), status : Statuses]
Task == [hook : Hooks, node : Nodes \union {H!User}, pc : TaskStages, skip : BOOLEAN, pods : SUBSET Pods,
         late : SUBSET Pods, old : BOOLEAN]

HandlerTypes ==
    /\ hook \in [Hooks -> Hook]
    /\ work \subseteq Task
    /\ cordoned \subseteq Nodes /\ rebooter \subseteq Nodes
    /\ podNode \in [Pods -> Nodes \union {H!Unborn, H!Gone}]
    /\ dying \subseteq bound /\ bound \subseteq Pods /\ \A p \in bound : podNode[p] \in Nodes
    /\ lifted \in [Hooks -> SUBSET (Nodes \union {H!User})]

\* A group of alerts has one action for good: it fires for one receiver.
KeepsItsAction(h) ==
    /\ hook[h].status = "none" <=> hook[h] = H!NoHook
    /\ hook[h].action = "none" => hook[h].status = "none"
    /\ hook[h].action # "mailUser" => hook[h].nodes \subseteq Nodes
    /\ h = CordonHook => hook[h].action \in {"none", "cordon"}
    /\ h = MailHook => hook[h].action \in {"none", "mailUser"}

OneTaskPerNode(h) == hook[h].status = "open" => {t.node : t \in H!WorkOf(h)} = hook[h].nodes

OutOfService(h) ==
    hook[h].status = "answered" /\ hook[h].action = "cordon" => hook[h].nodes \subseteq cordoned \union lifted[h]

HookOK(h) == KeepsItsAction(h) /\ OneTaskPerNode(h) /\ OutOfService(h)

\* The stages each action goes through.
StagesOf(action) ==
    CASE action = "cordon"   -> {"cordon", "ok", "failed"}
      [] action = "uncordon" -> {"uncordon", "ok", "failed"}
      [] action = "drain"    -> {"check", "cordon", "list", "evict", "ok", "failed"}
      [] action = "reboot"   -> {"cordon", "list", "evict", "boot", "ok", "failed"}
      [] action = "mailUser" -> {"lookup", "mail", "ok", "failed"}
      [] OTHER               -> {}

Fits(t) ==
    /\ t.pc \in StagesOf(H!ActionOf(t))
    /\ H!ActionOf(t) # "mailUser" => t.node \in Nodes
    /\ t.pc = "evict" => t.pods # {}
    /\ t.skip => H!ActionOf(t) = "drain"

\* A drain or a reboot under way belongs to the request that is being answered.
Awaited(t) ==
    H!ActionOf(t) \in {"drain", "reboot"} /\ t.pc \notin {"ok", "failed"}
        => ~t.old /\ hook[t.hook].status = "open"

Lifted(t) == t.node \in lifted[t.hook]

\* The node of a task that is past its cordon is out of service.
CordonedFirst(t) ==
    ~t.old /\ H!ActionOf(t) \in {"cordon", "drain", "reboot"} /\ t.pc \in {"list", "evict", "boot", "ok"}
        => t.node \in cordoned \/ Lifted(t)

\* The pods sent to a node, bound to it or not, that were not told to go.
Unaware(n) == {p \in Pods : podNode[p] = n} \ dying

\* Those of a node that was cordoned before its pods were listed are still to be deleted,
\* or were not bound when the list was made.
TellsAll(t) ==
    ~t.old /\ H!ActionOf(t) \in {"drain", "reboot"} /\ t.pc \in {"evict", "boot", "ok"} /\ ~t.skip /\ ~Lifted(t)
        => Unaware(t.node) \subseteq (IF t.pc = "evict" THEN t.pods ELSE {}) \union t.late

TaskOK(t) == Fits(t) /\ Awaited(t) /\ CordonedFirst(t) /\ TellsAll(t)

HandlerIInv ==
    /\ HandlerTypes
    /\ \A h \in Hooks : HookOK(h)
    /\ \A t \in work : TaskOK(t)

IInv == NoteIInv /\ HandlerIInv

(***************************************************************************)
(* The steps of the notifier.                                              *)
(***************************************************************************)
NoteStays == UNCHANGED <<row, handler, historyVars>>

NoteNext ==
    \/ Poll \/ NotifierRestarts
    \/ \E j \in Jobs :
        \/ \E o \in Outcomes : Send(j, o) \/ ReportGood(j, o) \/ ReportBad(j, o) \/ Save(j, o)
        \/ ReadLog(j) \/ NoJobInfo(j) \/ MailBad(j)
        \/ \E state \in States : StatusChanges(j, state)
        \/ Retries(j) \/ RequestChanges(j) \/ StartsAnew(j)

\* A step of the system is one of the notifier, or leaves what the notifier writes alone.
LEMMA NoteSteps == ASSUME [Next]_vars PROVE NoteNext \/ NoteStays
  <1>1. CASE Polls
    BY <1>1 DEF Polls, NoteNext
  <1>2. ASSUME NEW j \in Jobs, NotifierStep(j) PROVE NoteNext
    BY <1>2 DEF NotifierStep, Notifies, Work, NoteNext, Outcomes
  <1>3. ASSUME NEW h \in Hooks, HookStep(h) PROVE NoteStays
    BY <1>3 DEF HookStep, NoteStays
  <1>4. CASE Environment
    BY <1>4 DEF Environment, RowChanges, NoteNext, NoteStays, States
  <1>5. CASE UNCHANGED vars
    BY <1>5 DEF vars, noteVars, NoteStays
  <1> QED
    BY <1>1, <1>2, <1>3, <1>4, <1>5 DEF Next

\* At the start nothing was notified, accepted or reported.
LEMMA NoteInitOK == ASSUME Init PROVE NoteIInv
  <1> USE NotificationAssumption
  <1>1. NoteTypes
    BY DEF Init, NoteInit, NoteTypes, Row, Handler, Idle, States, Stages, Kinds
  <1>2. ASSUME NEW j \in Jobs PROVE JobOK(j)
    BY DEF Init, NoteInit, JobOK, StageFits, SentMeansAccepted, UnsavedMeansExcused, ReportsInOrder, Sent, Stages,
           Idle, Kinds, Validates
  <1> QED
    BY <1>1, <1>2 DEF NoteIInv

\* What a step does for one job leaves the others as they were.
Same(i) ==
    /\ UNCHANGED <<row[i], handler[i], accepted[i], retriesTold[i], excuses[i]>>
    /\ i \in DOMAIN Results => reported'[i] = reported[i] /\ (i \in misread => i \in misread')

\* A job that a step does not touch stays in order.
LEMMA SameOK == ASSUME NEW i \in Jobs, JobOK(i), Same(i) PROVE JobOK(i)'
  <1>1. StageFits(i)'
    BY DEF Same, JobOK, StageFits, Validates
  <1>2. SentMeansAccepted(i)'
    BY DEF Same, JobOK, SentMeansAccepted, Sent
  <1>3. UnsavedMeansExcused(i)'
    BY DEF Same, JobOK, UnsavedMeansExcused, Sent
  <1>4. ReportsInOrder(i)'
    BY DEF Same, JobOK, ReportsInOrder, AllReported, Checking, Validates
  <1> QED
    BY <1>1, <1>2, <1>3, <1>4 DEF JobOK

\* The alert-handler and the pods do not touch the notifier.
LEMMA NoteStaysOK == ASSUME NoteIInv, NoteStays PROVE NoteIInv'
  <1>1. ASSUME NEW i \in Jobs PROVE JobOK(i)'
    BY SameOK DEF NoteIInv, NoteStays, historyVars, Same
  <1> QED
    BY <1>1 DEF NoteIInv, NoteStays, historyVars, NoteTypes

\* A handler goes on to another stage ...
LEMMA Moves ==
  ASSUME NoteTypes, NEW j \in Jobs, NEW pc \in Stages, Goto(j, pc)
  PROVE  /\ handler' \in [Jobs -> Handler]
         /\ handler'[j].pc = pc /\ handler'[j].infos = handler[j].infos
         /\ handler'[j].retries = handler[j].retries
         /\ handler'[j].good = handler[j].good /\ handler'[j].bad = handler[j].bad
         /\ \A i \in Jobs \ {j} : handler'[i] = handler[i]
  <1>1. handler[j] \in Handler /\ handler \in [Jobs -> Handler]
    BY DEF NoteTypes
  <1>2. [handler[j] EXCEPT !.pc = pc] \in Handler
    BY <1>1 DEF Handler
  <1> QED
    BY <1>1, <1>2 DEF Goto, Handler

\* ... or ends.
LEMMA Ends ==
  ASSUME NoteTypes, NEW j \in Jobs, handler' = [handler EXCEPT ![j] = Idle]
  PROVE  /\ handler' \in [Jobs -> Handler]
         /\ handler'[j].pc = "idle" /\ handler'[j].infos = {}
         /\ \A i \in Jobs \ {j} : handler'[i] = handler[i]
  <1>1. Idle \in Handler
    BY NotificationAssumption DEF Idle, Handler, Stages
  <1> QED
    BY <1>1 DEF NoteTypes, Idle

\* A handler that gives up has one more excuse.
LEMMA GivesUp ==
  ASSUME NoteTypes, NEW j \in Jobs, GiveUp(j)
  PROVE  /\ handler' \in [Jobs -> Handler] /\ excuses' \in [Jobs -> Nat]
         /\ handler'[j].pc = "idle" /\ handler'[j].infos = {} /\ excuses'[j] = excuses[j] + 1
         /\ \A i \in Jobs \ {j} : handler'[i] = handler[i] /\ excuses'[i] = excuses[i]
  <1>1. excuses' = [excuses EXCEPT ![j] = @ + 1] /\ excuses \in [Jobs -> Nat]
    BY DEF GiveUp, NoteTypes
  <1>2. /\ handler' \in [Jobs -> Handler]
        /\ handler'[j].pc = "idle" /\ handler'[j].infos = {}
        /\ \A i \in Jobs \ {j} : handler'[i] = handler[i]
    BY Ends DEF GiveUp
  <1>3. excuses' \in [Jobs -> Nat] /\ excuses'[j] = excuses[j] + 1
        /\ \A i \in Jobs \ {j} : excuses'[i] = excuses[i]
    BY <1>1
  <1> QED
    BY <1>2, <1>3

\* What an accepted post leaves in the history.
LEMMA Accepts ==
  ASSUME NoteTypes, NEW j \in Jobs, NEW o \in Outcomes \ {"refused"}, Send(j, o)
  PROVE  /\ accepted' \in [Jobs -> [Kinds -> Nat]] /\ retriesTold' \in [Jobs -> SUBSET Nat]
         /\ \A k \in Kinds : accepted'[j][k] = accepted[j][k] + (IF k \in handler[j].infos THEN 1 ELSE 0)
         /\ retriesTold[j] \subseteq retriesTold'[j]
         /\ "RETRIED" \in handler[j].infos => handler[j].retries \in retriesTold'[j]
         /\ \A i \in Jobs \ {j} : accepted'[i] = accepted[i] /\ retriesTold'[i] = retriesTold[i]
  <1> DEFINE A == [k \in Kinds |-> accepted[j][k] + (IF k \in handler[j].infos THEN 1 ELSE 0)]
  <1>1. accepted' = [accepted EXCEPT ![j] = A]
    BY DEF Send
  <1>2. A \in [Kinds -> Nat]
    BY DEF NoteTypes
  <1>3. retriesTold' = IF "RETRIED" \in handler[j].infos
                       THEN [retriesTold EXCEPT ![j] = @ \union {handler[j].retries}] ELSE retriesTold
    BY DEF Send
  <1>4. handler[j].retries \in Nat
    BY NotificationAssumption DEF NoteTypes, Handler
  <1> QED
    BY <1>1, <1>2, <1>3, <1>4 DEF NoteTypes

\* An answered post sends what is then to be saved; a lost answer is an excuse to send it again.
LEMMA SendOK == ASSUME NoteIInv, NEW j \in Jobs, NEW o \in Outcomes, Send(j, o) PROVE NoteIInv'
  <1>1. handler[j].pc = "send" /\ UNCHANGED <<row, reported, misread>> /\ NoteTypes /\ JobOK(j)
    BY DEF Send, NoteIInv
  <1>2. /\ handler[j].infos \subseteq Kinds /\ row[j].notified \subseteq Kinds \ {"RETRIED"}
        /\ excuses[j] \in Nat /\ \A k \in Kinds : accepted[j][k] \in Nat
    BY <1>1 DEF NoteTypes, Handler, Row
  <1>3. CASE o = "ok"
    <2>1. PICK pc \in {"log", "save"} : Goto(j, pc) /\ pc = IF Checking(j) THEN "log" ELSE "save"
      BY <1>3 DEF Send
    <2>2. UNCHANGED excuses /\ pc \in Stages \ {"idle", "send"} /\ o \in Outcomes \ {"refused"}
      BY <1>3, <2>1 DEF Send, Stages
    <2>3. NoteTypes' /\ \A i \in Jobs \ {j} : Same(i)
      BY <1>1, <2>1, <2>2, Moves, Accepts DEF NoteTypes, Same
    <2>4. handler'[j].pc = pc /\ handler'[j].infos = handler[j].infos /\ handler'[j].retries = handler[j].retries
      BY <1>1, <2>1, <2>2, Moves
    <2>5. /\ \A k \in Kinds : accepted'[j][k] = accepted[j][k] + (IF k \in handler[j].infos THEN 1 ELSE 0)
          /\ retriesTold[j] \subseteq retriesTold'[j]
          /\ "RETRIED" \in handler[j].infos => handler[j].retries \in retriesTold'[j]
      BY <1>1, <2>2, Accepts
    <2>6. StageFits(j)'
      BY <1>1, <2>1, <2>2, <2>4 DEF JobOK, StageFits, Checking, Validates
    <2>7. SentMeansAccepted(j)'
      BY <1>1, <1>2, <2>4, <2>5 DEF JobOK, SentMeansAccepted
    <2>8. UnsavedMeansExcused(j)'
      BY <1>1, <1>2, <2>2, <2>4, <2>5 DEF JobOK, UnsavedMeansExcused, Sent
    <2>9. ReportsInOrder(j)'
      BY <1>1, <2>1, <2>4 DEF JobOK, ReportsInOrder, AllReported, Checking, Validates
    <2> QED
      BY <2>3, <2>6, <2>7, <2>8, <2>9, SameOK DEF NoteIInv, JobOK
  <1>4. CASE o # "ok"
    <2>1. GiveUp(j)
      BY <1>4 DEF Send
    <2>2. handler'[j].pc = "idle" /\ handler'[j].infos = {} /\ excuses'[j] = excuses[j] + 1
      BY <1>1, <2>1, GivesUp
    <2>3. /\ \/ \A k \in Kinds : accepted'[j][k] = accepted[j][k]
             \/ \A k \in Kinds : accepted'[j][k] = accepted[j][k] + (IF k \in handler[j].infos THEN 1 ELSE 0)
          /\ retriesTold[j] \subseteq retriesTold'[j]
          /\ accepted' \in [Jobs -> [Kinds -> Nat]] /\ retriesTold' \in [Jobs -> SUBSET Nat]
          /\ \A i \in Jobs \ {j} : accepted'[i] = accepted[i] /\ retriesTold'[i] = retriesTold[i]
      <3>1. CASE o = "refused"
        BY <1>1, <3>1 DEF Send, NoteTypes
      <3>2. CASE o # "refused"
        BY <1>1, <3>2, Accepts
      <3> QED
        BY <3>1, <3>2
    <2>4. NoteTypes' /\ \A i \in Jobs \ {j} : Same(i)
      BY <1>1, <2>1, <2>3, GivesUp DEF NoteTypes, Same
    <2>5. StageFits(j)'
      BY <1>1, <2>2 DEF JobOK, StageFits
    <2>6. SentMeansAccepted(j)'
      BY <1>1, <1>2, <2>2, <2>3 DEF JobOK, SentMeansAccepted, Sent
    <2>7. UnsavedMeansExcused(j)'
      BY <1>1, <1>2, <2>2, <2>3 DEF JobOK, UnsavedMeansExcused, Sent
    <2>8. ReportsInOrder(j)'
      BY <1>1, <2>2 DEF JobOK, ReportsInOrder, AllReported
    <2> QED
      BY <2>4, <2>5, <2>6, <2>7, <2>8, SameOK DEF NoteIInv, JobOK
  <1> QED
    BY <1>3, <1>4

\* The stages after the one that sends keep what concerns the database and the posts.
LEMMA GoesOn ==
  ASSUME NEW j \in Jobs, JobOK(j), Sent(j), Sent(j)',
         handler'[j].infos = handler[j].infos, handler'[j].retries = handler[j].retries,
         UNCHANGED <<row[j], accepted[j], retriesTold[j], excuses[j]>>,
         handler'[j].pc \in {"log", "good", "bad", "mail"} => Validates(j)
  PROVE  StageFits(j)' /\ SentMeansAccepted(j)' /\ UnsavedMeansExcused(j)'
  <1>1. StageFits(j)'
    BY DEF JobOK, StageFits, Sent, Validates
  <1>2. SentMeansAccepted(j)'
    BY DEF JobOK, SentMeansAccepted
  <1>3. UnsavedMeansExcused(j)'
    BY DEF JobOK, UnsavedMeansExcused, Sent
  <1> QED
    BY <1>1, <1>2, <1>3

\* A handler that gives up is as if it had not begun, but for the excuse.
LEMMA GaveUp ==
  ASSUME NoteTypes, NEW j \in Jobs, JobOK(j), GiveUp(j),
         UNCHANGED <<row[j], accepted[j], retriesTold[j]>>
  PROVE  StageFits(j)' /\ SentMeansAccepted(j)' /\ UnsavedMeansExcused(j)'
  <1>1. handler'[j].pc = "idle" /\ handler'[j].infos = {} /\ excuses'[j] = excuses[j] + 1
    BY GivesUp
  <1>2. excuses[j] \in Nat /\ \A k \in Kinds : accepted[j][k] \in Nat
    BY DEF NoteTypes
  <1>3. StageFits(j)'
    BY <1>1 DEF JobOK, StageFits
  <1>4. SentMeansAccepted(j)'
    BY <1>1 DEF JobOK, SentMeansAccepted, Sent
  <1>5. UnsavedMeansExcused(j)'
    BY <1>1, <1>2 DEF JobOK, UnsavedMeansExcused, Sent
  <1> QED
    BY <1>3, <1>4, <1>5

\* A report of the nodes that passed goes on to those that failed, or gives the round up.
LEMMA ReportGoodOK == ASSUME NoteIInv, NEW j \in Jobs, NEW o \in Outcomes, ReportGood(j, o) PROVE NoteIInv'
  <1>1. /\ handler[j].pc = "good" /\ UNCHANGED <<row, accepted, retriesTold, misread>>
        /\ NoteTypes /\ JobOK(j) /\ Validates(j)
    BY DEF ReportGood, NoteIInv, JobOK, StageFits
  <1>2. handler[j].good \subseteq Nodes
    BY <1>1 DEF NoteTypes, Handler
  <1>3. /\ reported' \in [DOMAIN Results -> [good : SUBSET Nodes, bad : SUBSET Nodes]]
        /\ o # "refused" => handler[j].good \subseteq reported'[j].good
        /\ reported'[j].bad = reported[j].bad /\ reported[j].good \subseteq reported'[j].good
        /\ \A i \in DOMAIN Results \ {j} : reported'[i] = reported[i]
    <2>1. CASE o = "refused"
      BY <1>1, <2>1 DEF ReportGood, NoteTypes
    <2>2. CASE o # "refused"
      <3>1. reported' = [reported EXCEPT ![j].good = @ \union handler[j].good]
        BY <2>2 DEF ReportGood
      <3>2. j \in DOMAIN Results /\ reported[j] \in [good : SUBSET Nodes, bad : SUBSET Nodes]
            /\ reported \in [DOMAIN Results -> [good : SUBSET Nodes, bad : SUBSET Nodes]]
        BY <1>1 DEF Validates, NoteTypes
      <3> QED
        BY <1>2, <2>2, <3>1, <3>2
    <2> QED
      BY <2>1, <2>2
  <1>4. CASE o = "ok"
    <2>1. PICK pc \in {"bad", "save"} : Goto(j, pc) /\ pc = IF handler[j].bad # {} THEN "bad" ELSE "save"
      BY <1>4 DEF ReportGood
    <2>2. UNCHANGED excuses /\ pc \in Stages \ {"idle", "send"}
      BY <1>4, <2>1 DEF ReportGood, Stages
    <2>3. NoteTypes' /\ \A i \in Jobs \ {j} : Same(i)
      BY <1>1, <1>3, <2>1, <2>2, Moves DEF NoteTypes, Same
    <2>4. /\ handler'[j].pc = pc /\ handler'[j].infos = handler[j].infos
          /\ handler'[j].retries = handler[j].retries /\ handler'[j].bad = handler[j].bad
      BY <1>1, <2>1, <2>2, Moves
    <2>5. StageFits(j)' /\ SentMeansAccepted(j)' /\ UnsavedMeansExcused(j)'
      BY <1>1, <2>2, <2>4, GoesOn DEF Sent, Stages
    <2>6. ReportsInOrder(j)'
      BY <1>1, <1>3, <1>4, <2>1, <2>4 DEF JobOK, ReportsInOrder, AllReported, Checking, Validates
    <2> QED
      BY <2>3, <2>5, <2>6, SameOK DEF NoteIInv, JobOK
  <1>5. CASE o # "ok"
    <2>1. GiveUp(j)
      BY <1>5 DEF ReportGood
    <2>2. handler'[j].pc = "idle"
      BY <1>1, <2>1, GivesUp
    <2>3. NoteTypes' /\ \A i \in Jobs \ {j} : Same(i)
      BY <1>1, <1>3, <2>1, GivesUp DEF NoteTypes, Same
    <2>4. StageFits(j)' /\ SentMeansAccepted(j)' /\ UnsavedMeansExcused(j)'
      BY <1>1, <2>1, GaveUp
    <2>5. ReportsInOrder(j)'
      BY <1>1, <1>3, <2>2 DEF JobOK, ReportsInOrder, AllReported
    <2> QED
      BY <2>3, <2>4, <2>5, SameOK DEF NoteIInv, JobOK
  <1> QED
    BY <1>4, <1>5

\* A report of the nodes that failed completes the report, or the job counts as misread.
LEMMA ReportBadOK == ASSUME NoteIInv, NEW j \in Jobs, NEW o \in Outcomes, ReportBad(j, o) PROVE NoteIInv'
  <1>1. /\ handler[j].pc = "bad" /\ UNCHANGED <<row, accepted, retriesTold, excuses>>
        /\ NoteTypes /\ JobOK(j) /\ Validates(j)
    BY DEF ReportBad, NoteIInv, JobOK, StageFits
  <1>2. PICK pc \in {"mail", "save"} : Goto(j, pc) /\ pc = IF o = "ok" THEN "mail" ELSE "save"
    BY DEF ReportBad
  <1>3. pc \in Stages \ {"idle", "send"}
    BY <1>2 DEF Stages
  <1>4. misread' = IF o = "ok" THEN misread ELSE misread \union {j}
    BY DEF ReportBad
  <1>5. handler[j].bad \subseteq Nodes
    BY <1>1 DEF NoteTypes, Handler
  <1>6. /\ reported' \in [DOMAIN Results -> [good : SUBSET Nodes, bad : SUBSET Nodes]]
        /\ o = "ok" => reported'[j].bad = reported[j].bad \union handler[j].bad
        /\ reported'[j].good = reported[j].good
        /\ \A i \in DOMAIN Results \ {j} : reported'[i] = reported[i]
    <2>1. CASE o = "refused"
      BY <1>1, <2>1 DEF ReportBad, NoteTypes
    <2>2. CASE o # "refused"
      <3>1. reported' = [reported EXCEPT ![j].bad = @ \union handler[j].bad]
        BY <2>2 DEF ReportBad
      <3>2. j \in DOMAIN Results /\ reported[j] \in [good : SUBSET Nodes, bad : SUBSET Nodes]
            /\ reported \in [DOMAIN Results -> [good : SUBSET Nodes, bad : SUBSET Nodes]]
        BY <1>1 DEF Validates, NoteTypes
      <3> QED
        BY <1>5, <2>2, <3>1, <3>2
    <2> QED
      BY <2>1, <2>2
  <1>7. NoteTypes' /\ \A i \in Jobs \ {j} : Same(i)
    BY <1>1, <1>2, <1>3, <1>4, <1>6, Moves DEF NoteTypes, Same, Validates
  <1>8. /\ handler'[j].pc = pc /\ handler'[j].infos = handler[j].infos
        /\ handler'[j].retries = handler[j].retries
    BY <1>1, <1>2, <1>3, Moves
  <1>9. StageFits(j)' /\ SentMeansAccepted(j)' /\ UnsavedMeansExcused(j)'
    BY <1>1, <1>3, <1>8, GoesOn DEF Sent, Stages
  <1>10. ReportsInOrder(j)'
    BY <1>1, <1>2, <1>4, <1>6, <1>8 DEF JobOK, ReportsInOrder, AllReported, Checking, Validates
  <1> QED
    BY <1>7, <1>9, <1>10, SameOK DEF NoteIInv, JobOK

\* A save moves what was sent into the row; a failed one is an excuse to send it again.
LEMMA SaveOK == ASSUME NoteIInv, NEW j \in Jobs, NEW o \in Outcomes, Save(j, o) PROVE NoteIInv'
  <1>1. /\ handler[j].pc = "save" /\ UNCHANGED <<accepted, retriesTold, reported, misread>>
        /\ NoteTypes /\ JobOK(j)
    BY DEF Save, NoteIInv
  <1>2. CASE o = "refused"
    <2>1. UNCHANGED row /\ GiveUp(j)
      BY <1>2 DEF Save
    <2>2. handler'[j].pc = "idle"
      BY <1>1, <2>1, GivesUp
    <2>3. NoteTypes' /\ \A i \in Jobs \ {j} : Same(i)
      BY <1>1, <2>1, GivesUp DEF NoteTypes, Same
    <2>4. StageFits(j)' /\ SentMeansAccepted(j)' /\ UnsavedMeansExcused(j)'
      BY <1>1, <2>1, GaveUp
    <2>5. ReportsInOrder(j)'
      BY <1>1, <2>1, <2>2 DEF JobOK, ReportsInOrder, AllReported
    <2> QED
      BY <2>3, <2>4, <2>5, SameOK DEF NoteIInv, JobOK
  <1>3. CASE o # "refused"
    <2> DEFINE h == handler[j]
               told == IF "RETRIED" \in h.infos THEN h.retries ELSE row[j].told
    <2>1. handler' = [handler EXCEPT ![j] = Idle] /\ UNCHANGED excuses
      BY <1>3 DEF Save
    <2>2. /\ row[j] \in Row /\ row \in [Jobs -> Row] /\ h.infos \subseteq Kinds /\ h.infos \subseteq Wanted[j]
          /\ h.retries \in 0..MaxRetries /\ row[j].notified \subseteq Kinds \ {"RETRIED"}
          /\ excuses[j] \in Nat /\ \A k \in Kinds : accepted[j][k] \in Nat
      BY <1>1 DEF NoteTypes, Handler, Row, JobOK, StageFits
    <2>3. row' = [row EXCEPT ![j].notified = @ \union (h.infos \ {"RETRIED"}), ![j].told = told]
      BY <1>3 DEF Save
    <2>4. told \in 0..MaxRetries /\ row[j].notified \union (h.infos \ {"RETRIED"}) \subseteq Kinds \ {"RETRIED"}
      BY <2>2 DEF Row
    <2> HIDE DEF told
    <2>5. /\ row'[j].notified = row[j].notified \union (h.infos \ {"RETRIED"}) /\ row'[j].told = told
          /\ \A i \in Jobs \ {j} : row'[i] = row[i]
      BY <2>2, <2>3 DEF Row
    <2>6. row' \in [Jobs -> Row]
      <3>1. [row[j] EXCEPT !.notified = @ \union (h.infos \ {"RETRIED"}), !.told = told] \in Row
        BY <2>2, <2>4 DEF Row
      <3> QED
        BY <2>2, <2>3, <3>1
    <2>7. /\ handler' \in [Jobs -> Handler] /\ handler'[j].pc = "idle" /\ handler'[j].infos = {}
          /\ \A i \in Jobs \ {j} : handler'[i] = handler[i]
      BY <1>1, <2>1, Ends
    <2>8. NoteTypes' /\ \A i \in Jobs \ {j} : Same(i)
      BY <1>1, <2>1, <2>5, <2>6, <2>7 DEF NoteTypes, Same
    <2>9. Sent(j)
      BY <1>1 DEF Sent, Stages
    <2>10. StageFits(j)'
      BY <1>1, <2>2, <2>5, <2>7 DEF JobOK, StageFits
    <2>11. SentMeansAccepted(j)'
      BY <1>1, <2>5, <2>7, <2>9 DEF JobOK, SentMeansAccepted, Sent, told
    <2>12. UnsavedMeansExcused(j)'
      BY <1>1, <2>1, <2>2, <2>5, <2>7 DEF JobOK, UnsavedMeansExcused, Sent
    <2>13. ReportsInOrder(j)'
      BY <1>1, <2>5, <2>7 DEF JobOK, ReportsInOrder, AllReported, Checking, Validates
    <2> QED
      BY <2>8, <2>10, <2>11, <2>12, <2>13, SameOK DEF NoteIInv, JobOK
  <1> QED
    BY <1>2, <1>3

\* When every log could be read, the readings are the results.
LEMMA ReadLogOK == ASSUME NoteIInv, NEW j \in Jobs, ReadLog(j) PROVE NoteIInv'
  <1>1. /\ handler[j].pc = "log" /\ UNCHANGED <<row, accepted, retriesTold, excuses, reported>>
        /\ NoteTypes /\ JobOK(j) /\ Validates(j)
    BY DEF ReadLog, NoteIInv, JobOK, StageFits
  <1>2. PICK x \in Readings(j) :
            LET failed == Cardinality({r \in Results[j] : ~x.read[r]}) IN
            /\ misread' = IF failed > 0 THEN misread \union {j} ELSE misread
            /\ handler' = [handler EXCEPT ![j].good = x.good, ![j].bad = x.bad,
                                          ![j].pc = IF x.good # {} THEN "good"
                                                    ELSE IF x.bad # {} THEN "bad" ELSE "save"]
    BY DEF ReadLog
  <1>3. PICK read \in [Results[j] -> BOOLEAN] :
            x = [read |-> read,
                 good |-> {r.node : r \in {r \in Results[j] : read[r] /\ r.passed}},
                 bad  |-> {r.node : r \in {r \in Results[j] : ~(read[r] /\ r.passed)}}]
    BY DEF Readings
  <1> DEFINE unread == {r \in Results[j] : ~read[r]}
             good == {r.node : r \in {r \in Results[j] : read[r] /\ r.passed}}
             bad  == {r.node : r \in {r \in Results[j] : ~(read[r] /\ r.passed)}}
             pc   == IF good # {} THEN "good" ELSE IF bad # {} THEN "bad" ELSE "save"
  <1>4. misread' \in {misread, misread \union {j}} /\ (Cardinality(unread) > 0 => j \in misread')
    BY <1>2, <1>3
  <1>5. handler' = [handler EXCEPT ![j].good = good, ![j].bad = bad, ![j].pc = pc]
    BY <1>2, <1>3
  <1>6. Results[j] \subseteq [node : Nodes, passed : BOOLEAN] /\ IsFiniteSet(Results[j])
    BY <1>1, HandlingAssumption DEF Validates
  <1>7. good \subseteq Nodes /\ bad \subseteq Nodes
    BY <1>6
  <1>8. j \notin misread' => good = Passed(j) /\ bad = Failed(j)
    <2> SUFFICES ASSUME j \notin misread' PROVE good = Passed(j) /\ bad = Failed(j)
      OBVIOUS
    <2>1. IsFiniteSet(unread) /\ ~(Cardinality(unread) > 0)
      BY <1>4, <1>6, FS_Subset
    <2>2. unread = {}
      BY <2>1, FS_CardinalityType, FS_EmptySet
    <2>3. \A r \in Results[j] : read[r]
      BY <2>2
    <2> QED
      BY <2>3 DEF Passed, Failed
  <1> HIDE DEF unread, good, bad
  <1>9. pc \in Stages \ {"idle", "send"}
    BY DEF Stages
  <1>10. /\ handler' \in [Jobs -> Handler] /\ handler'[j].pc = pc
        /\ handler'[j].good = good /\ handler'[j].bad = bad
        /\ handler'[j].infos = handler[j].infos /\ handler'[j].retries = handler[j].retries
        /\ \A i \in Jobs \ {j} : handler'[i] = handler[i]
    <2> HIDE DEF pc
    <2>1. handler[j] \in Handler /\ handler \in [Jobs -> Handler]
      BY <1>1 DEF NoteTypes
    <2>2. [handler[j] EXCEPT !.good = good, !.bad = bad, !.pc = pc] \in Handler
      BY <1>7, <1>9, <2>1 DEF Handler
    <2> QED
      BY <1>5, <2>1, <2>2 DEF Handler
  <1>11. NoteTypes' /\ \A i \in Jobs \ {j} : Same(i)
    BY <1>1, <1>4, <1>10 DEF NoteTypes, Same, Validates
  <1>12. StageFits(j)' /\ SentMeansAccepted(j)' /\ UnsavedMeansExcused(j)'
    <2> HIDE DEF pc
    <2> QED
      BY <1>1, <1>9, <1>10, GoesOn DEF Sent, Stages
  <1>13. ReportsInOrder(j)'
    BY <1>1, <1>4, <1>8, <1>10 DEF JobOK, ReportsInOrder, AllReported, Checking, Validates
  <1> QED
    BY <1>11, <1>12, <1>13, SameOK DEF NoteIInv, JobOK

\* A validation job without information, and the mail about failed nodes, go on to the save.
LEMMA SkipOK == ASSUME NoteIInv, NEW j \in Jobs, NoJobInfo(j) \/ MailBad(j) PROVE NoteIInv'
  <1>1. /\ handler[j].pc \in {"log", "mail"} /\ UNCHANGED <<row, accepted, retriesTold, excuses, reported>>
        /\ NoteTypes /\ JobOK(j) /\ Validates(j) /\ Goto(j, "save")
        /\ misread' = IF handler[j].pc = "log" THEN misread \union {j} ELSE misread
    BY DEF NoJobInfo, MailBad, NoteIInv, JobOK, StageFits, historyVars
  <1>2. /\ handler' \in [Jobs -> Handler] /\ handler'[j].pc = "save"
        /\ handler'[j].infos = handler[j].infos /\ handler'[j].retries = handler[j].retries
        /\ \A i \in Jobs \ {j} : handler'[i] = handler[i]
    BY <1>1, Moves DEF Stages
  <1>3. NoteTypes' /\ \A i \in Jobs \ {j} : Same(i)
    BY <1>1, <1>2 DEF NoteTypes, Same, Validates
  <1>4. StageFits(j)' /\ SentMeansAccepted(j)' /\ UnsavedMeansExcused(j)'
    BY <1>1, <1>2, GoesOn DEF Sent, Stages
  <1>5. ReportsInOrder(j)'
    BY <1>1, <1>2 DEF JobOK, ReportsInOrder, AllReported, Checking, Validates
  <1> QED
    BY <1>3, <1>4, <1>5, SameOK DEF NoteIInv, JobOK

\* What database-controller writes clears notifications only, each with an excuse.
LEMMA RowChangesOK ==
  ASSUME NoteIInv, NEW j \in Jobs, \/ \E state \in States : StatusChanges(j, state)
                                   \/ Retries(j) \/ RequestChanges(j) \/ StartsAnew(j)
  PROVE  NoteIInv'
  <1>1. /\ UNCHANGED <<handler, accepted, retriesTold, reported, misread>> /\ NoteTypes /\ JobOK(j)
        /\ row[j] \in Row /\ row \in [Jobs -> Row] /\ excuses \in [Jobs -> Nat]
    BY DEF NoteIInv, NoteTypes, StatusChanges, Retries, RequestChanges, StartsAnew, historyVars
  <1>2. PICK r \in Row :
            /\ row' = [row EXCEPT ![j] = r]
            /\ \/ r.notified = row[j].notified /\ r.told = row[j].told /\ UNCHANGED excuses
               \/ r.notified = {} /\ r.told = 0 /\ excuses' = [excuses EXCEPT ![j] = @ + 1]
    <2> USE <1>1, NotificationAssumption DEF Row, States
    <2>1. ASSUME NEW state \in States, StatusChanges(j, state)
          PROVE  /\ row' = [row EXCEPT ![j] = [row[j] EXCEPT !.state = state]] /\ UNCHANGED excuses
                 /\ [row[j] EXCEPT !.state = state] \in Row
      BY <2>1 DEF StatusChanges, historyVars
    <2>2. ASSUME NEW state \in States, NEW n \in 0..MaxRetries,
                 row' = [row EXCEPT ![j].state = state, ![j].retries = n]
          PROVE  \E r \in Row : /\ row' = [row EXCEPT ![j] = r]
                                /\ r.notified = row[j].notified /\ r.told = row[j].told
      <3> DEFINE r == [row[j] EXCEPT !.state = state, !.retries = n]
      <3>1. r \in Row /\ r.notified = row[j].notified /\ r.told = row[j].told
        OBVIOUS
      <3>2. row' = [row EXCEPT ![j] = r]
        BY <2>2
      <3> QED
        BY <3>1, <3>2
    <2>3. ASSUME Retries(j)
          PROVE  /\ row[j].retries + 1 \in 0..MaxRetries /\ UNCHANGED excuses
                 /\ \E state \in States :
                        row' = [row EXCEPT ![j].state = state, ![j].retries = row[j].retries + 1]
      <3>1. row[j].retries \in 0..MaxRetries /\ row[j].retries < MaxRetries
        BY <2>3 DEF Retries
      <3>2. row[j].retries + 1 \in 0..MaxRetries
        BY <3>1
      <3>3. /\ UNCHANGED excuses
            /\ \E state \in {"RUNNING", "WAITING"} :
                   row' = [row EXCEPT ![j].state = state, ![j].retries = @ + 1]
        BY <2>3 DEF Retries, historyVars
      <3> QED
        BY <3>2, <3>3
    <2>4. ASSUME StartsAnew(j)
          PROVE  row' = [row EXCEPT ![j].state = "WAITING", ![j].retries = 0] /\ UNCHANGED excuses
      BY <2>4 DEF StartsAnew, historyVars
    <2>5. ASSUME RequestChanges(j)
          PROVE  \E r \in Row : /\ row' = [row EXCEPT ![j] = r]
                                /\ r.notified = {} /\ r.told = 0 /\ excuses' = [excuses EXCEPT ![j] = @ + 1]
      <3> DEFINE r == [row[j] EXCEPT !.notified = {}, !.told = 0]
      <3>1. r \in Row /\ r.notified = {} /\ r.told = 0
        <4>1. 0 \in 0..MaxRetries /\ {} \in SUBSET (Kinds \ {"RETRIED"})
          OBVIOUS
        <4> QED
          BY <4>1
      <3>2. row' = [row EXCEPT ![j] = r] /\ excuses' = [excuses EXCEPT ![j] = @ + 1]
        BY <2>5 DEF RequestChanges
      <3> QED
        BY <3>1, <3>2
    <2>6. "WAITING" \in States /\ 0 \in 0..MaxRetries
      OBVIOUS
    <2>7. CASE Retries(j) \/ StartsAnew(j)
      BY <2>2, <2>3, <2>4, <2>6, <2>7
    <2>8. CASE \E state \in States : StatusChanges(j, state)
      BY <2>1, <2>8
    <2>9. CASE RequestChanges(j)
      BY <2>5, <2>9
    <2> QED
      BY <2>7, <2>8, <2>9
  <1>3. /\ row' \in [Jobs -> Row] /\ excuses' \in [Jobs -> Nat]
        /\ row'[j] = r /\ \A i \in Jobs \ {j} : row'[i] = row[i] /\ excuses'[i] = excuses[i]
        /\ excuses'[j] \in {excuses[j], excuses[j] + 1} /\ (r.notified # row[j].notified => excuses'[j] = excuses[j] + 1)
    BY <1>1, <1>2
  <1>4. NoteTypes' /\ \A i \in Jobs \ {j} : Same(i)
    BY <1>1, <1>3 DEF NoteTypes, Same
  <1>5. StageFits(j)'
    BY <1>1, <1>2, <1>3 DEF JobOK, StageFits, Validates
  <1>6. SentMeansAccepted(j)'
    BY <1>1, <1>2, <1>3 DEF JobOK, SentMeansAccepted, Sent
  <1>7. UnsavedMeansExcused(j)'
    <2>1. excuses[j] \in Nat /\ \A k \in Kinds : accepted[j][k] \in Nat
      BY <1>1 DEF NoteTypes
    <2> QED
      BY <1>1, <1>2, <1>3, <2>1 DEF JobOK, UnsavedMeansExcused, Sent
  <1>8. ReportsInOrder(j)'
    BY <1>1, <1>2, <1>3 DEF JobOK, ReportsInOrder, AllReported, Checking, Validates
  <1> QED
    BY <1>4, <1>5, <1>6, <1>7, <1>8, SameOK DEF NoteIInv, JobOK

\* A round begins when no handler of the one before is left.
LEMMA PollOK == ASSUME NoteIInv, Poll PROVE NoteIInv'
  <1>1. NoteTypes /\ UNCHANGED <<row, historyVars>> /\ \A j \in Jobs : JobOK(j)
    BY DEF Poll, NoteIInv
  <1>2. ASSUME NEW j \in Jobs
        PROVE  handler'[j] \in Handler /\ JobOK(j)'
    <2>1. CASE j \notin DueJobs
      <3>1. handler'[j] = Idle
        BY <2>1 DEF Poll
      <3>2. Idle \in Handler
        BY NotificationAssumption DEF Idle, Handler, Stages
      <3> QED
        BY <1>1, <3>1, <3>2
        DEF JobOK, StageFits, SentMeansAccepted, UnsavedMeansExcused, ReportsInOrder, AllReported, Sent, historyVars,
            Idle, Poll
    <2>2. CASE j \in DueJobs
      <3>1. handler'[j] = Begin(j) /\ handler[j].pc = "idle"
        BY <2>2 DEF Poll
      <3>2. /\ Begin(j).pc = "send" /\ Begin(j).infos = Due(row[j], Wanted[j])
            /\ Due(row[j], Wanted[j]) \subseteq Wanted[j] \ row[j].notified /\ Due(row[j], Wanted[j]) # {}
        BY <2>2 DEF Begin, Idle, Due, DueJobs
      <3>3. Begin(j) \in Handler
        <4>1. row[j].retries \in 0..MaxRetries /\ Wanted[j] \subseteq Kinds
          BY <1>1, NotificationAssumption DEF NoteTypes, Row
        <4> QED
          BY <3>2, <4>1 DEF Begin, Idle, Handler, Stages
      <3>4. JobOK(j)' 
        BY <1>1, <3>1, <3>2
        DEF JobOK, StageFits, SentMeansAccepted, UnsavedMeansExcused, ReportsInOrder, AllReported, Sent, historyVars
      <3> QED
        BY <3>1, <3>3, <3>4
    <2> QED
      BY <2>1, <2>2
  <1>3. handler' \in [Jobs -> Handler]
    BY <1>2 DEF Poll
  <1> QED
    BY <1>1, <1>2, <1>3 DEF NoteIInv, NoteTypes, historyVars

\* A restart of the notifier forgets what was sent and not saved, with an excuse for it.
LEMMA RestartOK == ASSUME NoteIInv, NotifierRestarts PROVE NoteIInv'
  <1>1. NoteTypes /\ UNCHANGED <<row, accepted, retriesTold, reported, misread>>
    BY DEF NotifierRestarts, NoteIInv
  <1>2. Idle \in Handler
    BY NotificationAssumption DEF Idle, Handler, Stages
  <1>3. handler' = [j \in Jobs |-> Idle]
        /\ excuses' = [j \in Jobs |-> excuses[j] + IF handler[j].pc = "idle" THEN 0 ELSE 1]
    BY DEF NotifierRestarts
  <1>4. handler' \in [Jobs -> Handler] /\ excuses' \in [Jobs -> Nat]
    BY <1>1, <1>2, <1>3 DEF NoteTypes
  <1>5. ASSUME NEW j \in Jobs PROVE JobOK(j)'
    <2>1. /\ handler'[j].pc = "idle" /\ handler'[j].infos = {}
          /\ excuses[j] \in Nat /\ \A k \in Kinds : accepted[j][k] \in Nat
          /\ excuses'[j] = excuses[j] + IF handler[j].pc = "idle" THEN 0 ELSE 1
          /\ JobOK(j)
      BY <1>1, <1>3 DEF NoteTypes, Idle, NoteIInv
    <2>2. StageFits(j)'
      BY <1>1, <2>1 DEF JobOK, StageFits
    <2>3. SentMeansAccepted(j)'
      BY <1>1, <2>1 DEF JobOK, SentMeansAccepted, Sent
    <2>4. UnsavedMeansExcused(j)'
      BY <1>1, <2>1 DEF JobOK, UnsavedMeansExcused, Sent
    <2>5. ReportsInOrder(j)'
      BY <1>1, <2>1 DEF JobOK, ReportsInOrder, AllReported
    <2> QED
      BY <2>2, <2>3, <2>4, <2>5 DEF JobOK
  <1> QED
    BY <1>1, <1>4, <1>5 DEF NoteIInv, NoteTypes

\* No step breaks the invariant of the notifier.
LEMMA NoteNextOK == ASSUME NoteIInv, [Next]_vars PROVE NoteIInv'
  <1>1. CASE NoteStays
    BY <1>1, NoteStaysOK
  <1>2. CASE NoteNext
    BY <1>2, PollOK, RestartOK, SendOK, ReportGoodOK, ReportBadOK, SaveOK, ReadLogOK, SkipOK, RowChangesOK
    DEF NoteNext
  <1> QED
    BY <1>1, <1>2, NoteSteps

\* What the properties say of the notifier is part of its invariant.
LEMMA NoteIInvImplies ==
  ASSUME NoteIInv
  PROVE  NoteTypeOK /\ NotifiedMeansAccepted /\ ToldOnce /\ ResultsReported
  <1>1. NoteTypeOK
    BY DEF NoteIInv, NoteTypes, JobOK, StageFits, NoteTypeOK, Row, Handler, States
  <1>2. NotifiedMeansAccepted
    BY DEF NoteIInv, JobOK, SentMeansAccepted, NotifiedMeansAccepted
  <1>3. ToldOnce
    BY DEF NoteIInv, JobOK, UnsavedMeansExcused, ToldOnce
  <1>4. ResultsReported
    BY NotificationAssumption
    DEF NoteIInv, JobOK, ReportsInOrder, ResultsReported, AllReported, Passed, Failed
  <1> QED
    BY <1>1, <1>2, <1>3, <1>4

(***************************************************************************)
(* The steps of the alert-handler.                                         *)
(***************************************************************************)
HandlerNext ==
    \/ \E h \in Hooks :
        \/ /\ \E action \in H!Actions, nodes \in SUBSET (Nodes \union {H!User}) :
                  /\ hook[h].status = "none" \/ hook[h].action \in {"none", action}
                  /\ h = CordonHook => action = "cordon"
                  /\ h = MailHook => action = "mailUser"
                  /\ action # "mailUser" => nodes \subseteq Nodes
                  /\ hook[h].status # "none" => action \notin {"drain", "reboot"}
                  /\ H!Fire(h, action, nodes)
           /\ H!WorkStays
        \/ H!Deliver(h) \/ H!AnswerOk(h) \/ H!AnswerFailed(h) \/ H!Resolve(h)
    \/ \E t \in work : H!NodeStep(t)
    \/ \E p \in Pods : H!PodMoves(p)
    \/ H!HandlerRestarts /\ H!NodesStay

\* The notifier fires what its two receivers are for.
LEMMA HandlerSteps ==
  ASSUME NoteIInv, HandlerIInv, [Next]_vars
  PROVE  HandlerNext \/ H!AlertsStay
  <1> USE HandlingAssumption
  <1>1. CASE Polls
    BY <1>1 DEF Polls
  <1>2. ASSUME NEW j \in Jobs, NotifierStep(j) PROVE HandlerNext \/ H!AlertsStay
    <2>1. HookOK(MailHook) /\ HookOK(CordonHook)
      BY DEF HandlerIInv
    <2>2. handler[j].bad \subseteq Nodes
      BY DEF NoteIInv, NoteTypes, Handler
    <2>3. CASE H!Fire(MailHook, "mailUser", {H!User}) /\ H!WorkStays
      <3>1. "mailUser" \in H!Actions /\ {H!User} \in SUBSET (Nodes \union {H!User})
        BY DEF H!Actions
      <3> QED
        BY <2>1, <2>3, <3>1 DEF HandlerNext, HookOK, KeepsItsAction
    <2>4. CASE H!Fire(CordonHook, "cordon", handler[j].bad) /\ H!WorkStays
      <3>1. "cordon" \in H!Actions /\ handler[j].bad \in SUBSET (Nodes \union {H!User})
        BY <2>2 DEF H!Actions
      <3> QED
        BY <2>1, <2>2, <2>4, <3>1 DEF HandlerNext, HookOK, KeepsItsAction
    <2>5. CASE UNCHANGED hook /\ H!WorkStays
      BY <2>5 DEF H!WorkStays, H!AlertsStay, H!alertVars
    <2> QED
      BY <1>2, <2>3, <2>4, <2>5 DEF NotifierStep, Notifies
  <1>3. ASSUME NEW h \in Hooks, HookStep(h) PROVE HandlerNext
    BY <1>3 DEF HookStep, HandlerNext
  <1>4. ASSUME NEW h \in Hooks \ {CordonHook, MailHook}, H!FireOutside(h) PROVE HandlerNext
    <2>1. PICK a \in Outside : H!Fire(h, a.action, a.nodes)
      BY <1>4 DEF H!FireOutside
    <2>2. a.action \in H!Actions /\ a.nodes \in SUBSET (Nodes \union {H!User}) /\ a.nodes \subseteq Nodes
      OBVIOUS
    <2>3. hook[h].status = "none" /\ H!WorkStays
      BY <1>4 DEF H!FireOutside, H!WorkStays, H!nodeVars
    <2> QED
      BY <2>1, <2>2, <2>3 DEF HandlerNext
  <1>5. CASE Environment
    BY <1>4, <1>5 DEF Environment, HandlerNext
  <1>6. CASE UNCHANGED vars
    BY <1>6 DEF vars, H!AlertsStay
  <1> QED
    BY <1>1, <1>2, <1>3, <1>5, <1>6 DEF Next

\* At the start no alert fires and no request is under way.
LEMMA HandlerInitOK == ASSUME Init PROVE HandlerIInv
  <1> USE HandlingAssumption DEF Init, H!HandlerInit
  <1>1. HandlerTypes
    BY DEF HandlerTypes, Hook, H!NoHook, Statuses
  <1>2. ASSUME NEW h \in Hooks PROVE HookOK(h)
    BY DEF HookOK, KeepsItsAction, OneTaskPerNode, OutOfService, H!NoHook
  <1> QED
    BY <1>1, <1>2 DEF HandlerIInv

\* The alerts stay, no node returns to service but by an uncordon, no pod is sent to a node
\* that is out of service, and a pod that was told to go does not stay.
Harmless ==
    /\ UNCHANGED hook
    /\ \A h \in Hooks : lifted[h] \subseteq lifted'[h] /\ cordoned \subseteq cordoned' \union lifted'[h]
    /\ \A p \in Pods : podNode'[p] \in Nodes =>
           /\ podNode'[p] = podNode[p] \/ podNode'[p] \notin cordoned
           /\ p \in dying => p \in dying'

\* A task keeps its part of the invariant under a harmless step.
LEMMA HarmlessTask ==
  ASSUME HandlerTypes, NEW t \in Task, TaskOK(t), Harmless
  PROVE  TaskOK(t)'
  <1>1. t.hook \in Hooks /\ H!ActionOf(t)' = H!ActionOf(t) /\ hook'[t.hook] = hook[t.hook]
    BY DEF Task, Harmless, H!ActionOf
  <1>2. Lifted(t) => Lifted(t)'
    BY <1>1 DEF Harmless, Lifted
  <1>3. t.node \in cordoned => t.node \in cordoned' \/ Lifted(t)'
    BY <1>1 DEF Harmless, Lifted
  <1>4. Fits(t)'
    BY <1>1 DEF TaskOK, Fits
  <1>5. Awaited(t)'
    BY <1>1 DEF TaskOK, Awaited
  <1>6. CordonedFirst(t)'
    BY <1>1, <1>2, <1>3 DEF TaskOK, CordonedFirst
  <1>7. TellsAll(t)'
    <2> SUFFICES ASSUME ~t.old, H!ActionOf(t) \in {"drain", "reboot"}, t.pc \in {"evict", "boot", "ok"}, ~t.skip,
                        ~Lifted(t)', NEW p \in Pods, podNode'[p] = t.node, p \notin dying'
                 PROVE  p \in (IF t.pc = "evict" THEN t.pods ELSE {}) \union t.late
      BY <1>1 DEF TellsAll, Unaware
    <2>1. t.node \in cordoned /\ t.node \in Nodes
      BY <1>2 DEF TaskOK, CordonedFirst, Fits
    <2>2. podNode[p] = t.node /\ p \notin dying
      BY <2>1 DEF Harmless
    <2> QED
      BY <1>2, <2>2 DEF TaskOK, TellsAll, Unaware
  <1> QED
    BY <1>4, <1>5, <1>6, <1>7 DEF TaskOK

\* So does a group of alerts whose tasks are for the nodes they were for.
LEMMA HarmlessHook ==
  ASSUME NEW h \in Hooks, HookOK(h), Harmless,
         {t.node : t \in H!WorkOf(h)'} = {t.node : t \in H!WorkOf(h)}
  PROVE  HookOK(h)'
  <1>1. KeepsItsAction(h)'
    BY DEF Harmless, HookOK, KeepsItsAction
  <1>2. OneTaskPerNode(h)'
    BY DEF Harmless, HookOK, OneTaskPerNode
  <1>3. OutOfService(h)'
    BY DEF Harmless, HookOK, OutOfService
  <1> QED
    BY <1>1, <1>2, <1>3 DEF HookOK

\* A task moves on, and does no harm to the others.
LEMMA TaskMoves ==
  ASSUME HandlerIInv, Harmless, NEW t \in work, NEW u \in Task,
         u.hook = t.hook, u.node = t.node, u.old = t.old, H!Becomes(t, u), TaskOK(u)'
  PROVE  /\ \A h \in Hooks : HookOK(h)'
         /\ \A s \in work' : TaskOK(s)'
         /\ work' \subseteq Task
  <1>1. work' = (work \ {t}) \union {u} /\ work \subseteq Task
    BY DEF H!Becomes, HandlerIInv, HandlerTypes
  <1>2. ASSUME NEW h \in Hooks PROVE HookOK(h)'
    <2>1. {s.node : s \in H!WorkOf(h)'} = {s.node : s \in H!WorkOf(h)}
      BY <1>1 DEF H!WorkOf
    <2> QED
      BY <2>1, HarmlessHook DEF HandlerIInv
  <1>3. ASSUME NEW s \in work' PROVE TaskOK(s)'
    BY <1>1, <1>3, HarmlessTask DEF HandlerIInv
  <1> QED
    BY <1>1, <1>2, <1>3

\* A task that is at another stage is a task; so is one with other pods, or skipped.
LEMMA AtStage ==
  ASSUME NEW t \in Task, NEW pc \in TaskStages
  PROVE  \E u \in Task :
             /\ u = [t EXCEPT !.pc = pc] /\ u.pc = pc /\ u.hook = t.hook /\ u.node = t.node
             /\ u.old = t.old /\ u.skip = t.skip /\ u.pods = t.pods /\ u.late = t.late
  <1> DEFINE u == [t EXCEPT !.pc = pc]
  <1>1. /\ u \in Task /\ u.pc = pc /\ u.hook = t.hook /\ u.node = t.node
        /\ u.old = t.old /\ u.skip = t.skip /\ u.pods = t.pods /\ u.late = t.late
    BY DEF Task
  <1> QED
    BY <1>1

WithPods(t, pods, late, pc) == [t EXCEPT !.pods = pods, !.late = late, !.pc = pc]
WithSkip(t, skip, pc) == [t EXCEPT !.pc = pc, !.skip = skip]

\* A task that goes to a stage with the pods it listed is a task.
LEMMA AtStageWithPods ==
  ASSUME NEW t \in Task, NEW pc \in TaskStages, NEW pods \in SUBSET Pods, NEW late \in SUBSET Pods
  PROVE  \E u \in Task :
             /\ u = WithPods(t, pods, late, pc) /\ u.pc = pc /\ u.hook = t.hook /\ u.node = t.node
             /\ u.old = t.old /\ u.skip = t.skip /\ u.pods = pods /\ u.late = late
  <1> DEFINE v == [t EXCEPT !.pods = pods]
             w == [v EXCEPT !.late = late]
  <1>1. /\ v \in Task /\ v.pods = pods /\ v.hook = t.hook /\ v.node = t.node
        /\ v.old = t.old /\ v.skip = t.skip
    BY DEF Task
  <1>2. [t EXCEPT !.pods = pods, !.late = late] = w
    BY <1>1 DEF Task
  <1> HIDE DEF v
  <1>3. /\ w \in Task /\ w.pods = v.pods /\ w.late = late /\ w.hook = v.hook /\ w.node = v.node
        /\ w.old = v.old /\ w.skip = v.skip
    BY <1>1 DEF Task
  <1>4. WithPods(t, pods, late, pc) = [w EXCEPT !.pc = pc]
    BY <1>2 DEF WithPods
  <1> HIDE DEF w
  <1>5. PICK u \in Task :
            /\ u = [w EXCEPT !.pc = pc] /\ u.pc = pc /\ u.hook = w.hook /\ u.node = w.node
            /\ u.old = w.old /\ u.skip = w.skip /\ u.pods = w.pods /\ u.late = w.late
    BY <1>3, AtStage
  <1> QED
    BY <1>1, <1>3, <1>4, <1>5

\* A task that goes to a stage and skips the eviction or not is a task.
LEMMA AtStageWithSkip ==
  ASSUME NEW t \in Task, NEW pc \in TaskStages, NEW skip \in {TRUE, FALSE}
  PROVE  \E u \in Task :
             /\ u = WithSkip(t, skip, pc) /\ u.pc = pc /\ u.hook = t.hook /\ u.node = t.node
             /\ u.old = t.old
  <1>1. PICK v \in Task :
            /\ v = [t EXCEPT !.pc = pc] /\ v.pc = pc /\ v.hook = t.hook /\ v.node = t.node
            /\ v.old = t.old /\ v.skip = t.skip /\ v.pods = t.pods
    BY AtStage
  <1>2. WithSkip(t, skip, pc) = [v EXCEPT !.skip = skip]
    BY <1>1 DEF WithSkip
  <1>3. [v EXCEPT !.skip = skip] \in Task
    <2>1. CASE skip = TRUE
      BY <2>1 DEF Task
    <2>2. CASE skip = FALSE
      BY <2>2 DEF Task
    <2> QED
      BY <2>1, <2>2
  <1>4. LET u == [v EXCEPT !.skip = skip] IN
        u.pc = v.pc /\ u.hook = v.hook /\ u.node = v.node /\ u.old = v.old
    BY DEF Task
  <1> QED
    BY <1>1, <1>2, <1>3, <1>4

\* Where a task that goes through its stages is right.
LEMMA StageOK ==
  ASSUME NEW t \in Task, TaskOK(t), t.pc \notin {"ok", "failed"}, NEW u \in Task,
         u.hook = t.hook, u.node = t.node, u.old = t.old, u.skip => H!ActionOf(t) = "drain",
         Harmless, u.pc \in StagesOf(H!ActionOf(t)),
         u.pc = "evict" => u.pods # {},
         u.pc \in {"list", "evict", "boot", "ok"} =>
             \/ t.pc \in {"list", "evict", "boot", "ok"}
             \/ t.node \in cordoned' \/ H!ActionOf(t) \notin {"cordon", "drain", "reboot"},
         u.pc \in {"evict", "boot", "ok"} /\ ~u.skip /\ H!ActionOf(t) \in {"drain", "reboot"} /\ ~Lifted(t)' =>
             Unaware(t.node)' \subseteq (IF u.pc = "evict" THEN u.pods ELSE {}) \union u.late
  PROVE  TaskOK(u)'
  <1>1. t.hook \in Hooks /\ H!ActionOf(u)' = H!ActionOf(t) /\ hook'[u.hook] = hook[t.hook]
    BY DEF Task, Harmless, H!ActionOf
  <1>2. Lifted(t) => Lifted(t)'
    BY <1>1 DEF Harmless, Lifted
  <1>3. t.node \in cordoned => t.node \in cordoned' \/ Lifted(t)'
    BY <1>1 DEF Harmless, Lifted
  <1>4. Lifted(u)' <=> Lifted(t)'
    BY DEF Lifted
  <1>5. Fits(u)'
    BY <1>1 DEF TaskOK, Fits
  <1>6. Awaited(u)'
    BY <1>1 DEF TaskOK, Awaited
  <1>7. CordonedFirst(u)'
    BY <1>1, <1>2, <1>3, <1>4 DEF TaskOK, CordonedFirst
  <1>8. TellsAll(u)'
    BY <1>1, <1>4 DEF TellsAll, Unaware
  <1> QED
    BY <1>5, <1>6, <1>7, <1>8 DEF TaskOK

\* A task that failed only has to go on with its evictions.
LEMMA FailedOK ==
  ASSUME NEW t \in Task, TaskOK(t), NEW u \in Task, u.pc = "failed", Harmless,
         u.hook = t.hook, u.node = t.node, u.skip = t.skip
  PROVE  TaskOK(u)'
  <1>1. t.hook \in Hooks /\ H!ActionOf(u)' = H!ActionOf(t)
    BY DEF Task, Harmless, H!ActionOf
  <1>2. "failed" \in StagesOf(H!ActionOf(t))
    BY DEF TaskOK, Fits, StagesOf
  <1>3. Fits(u)'
    BY <1>1, <1>2 DEF TaskOK, Fits
  <1> QED
    BY <1>3 DEF TaskOK, Awaited, CordonedFirst, TellsAll

\* A call that fails ends its task, which promises nothing then.
LEMMA FailsOK ==
  ASSUME HandlerIInv, NEW t \in work, Harmless, H!Fails(t)
  PROVE  /\ \A h \in Hooks : HookOK(h)'
         /\ \A s \in work' : TaskOK(s)'
         /\ work' \subseteq Task
  <1>1. t \in Task /\ TaskOK(t) /\ "failed" \in TaskStages
    BY DEF HandlerIInv, HandlerTypes, TaskStages
  <1>2. H!Becomes(t, [t EXCEPT !.pc = "failed"])
    BY DEF H!Fails, H!To
  <1>3. PICK u \in Task : /\ u = [t EXCEPT !.pc = "failed"] /\ u.pc = "failed"
                          /\ u.hook = t.hook /\ u.node = t.node /\ u.old = t.old /\ u.skip = t.skip
    BY <1>1, AtStage
  <1>4. TaskOK(u)'
    BY <1>1, <1>3, FailedOK
  <1> QED
    BY <1>2, <1>3, <1>4, TaskMoves

\* A step that leaves the nodes alone does no harm.
LEMMA QuietIsHarmless ==
  ASSUME UNCHANGED hook, UNCHANGED lifted, UNCHANGED <<podNode, dying>>, cordoned \subseteq cordoned'
  PROVE  Harmless
  BY DEF Harmless

\* The check of a drain decides whether it evicts at all, and goes on to the cordon.
LEMMA CheckOK == ASSUME HandlerIInv, NEW t \in work, H!Check(t) PROVE HandlerIInv'
  <1>1. t \in Task /\ TaskOK(t) /\ HandlerTypes
    BY DEF HandlerIInv, HandlerTypes
  <1>2. t.pc = "check" /\ UNCHANGED <<hook, cordoned, podNode, bound, dying, rebooter, lifted>>
    BY DEF H!Check, H!nodeVars, H!podVars
  <1>3. Harmless /\ (work' \subseteq Task => HandlerTypes')
    BY <1>1, <1>2, QuietIsHarmless DEF HandlerTypes
  <1>4. CASE H!Fails(t)
    BY <1>3, <1>4, FailsOK DEF HandlerIInv
  <1>5. CASE H!Becomes(t, [t EXCEPT !.pc = "cordon", !.skip = t.node \in cordoned])
    <2>1. PICK skip \in {TRUE, FALSE} : H!Becomes(t, WithSkip(t, skip, "cordon"))
      <3>1. CASE t.node \in cordoned
        <4>1. TRUE = (t.node \in cordoned)
          BY <3>1
        <4> QED
          BY <1>5, <4>1 DEF WithSkip
      <3>2. CASE t.node \notin cordoned
        <4>1. FALSE = (t.node \in cordoned)
          BY <3>2
        <4>2. H!Becomes(t, WithSkip(t, FALSE, "cordon"))
          BY <1>5, <4>1, Zenon DEF WithSkip
        <4> QED
          BY <4>2
      <3> QED
        BY <3>1, <3>2
    <2>2. PICK u \in Task :
              /\ u = WithSkip(t, skip, "cordon") /\ u.pc = "cordon" /\ u.hook = t.hook /\ u.node = t.node
              /\ u.old = t.old
      <3>1. "cordon" \in TaskStages
        BY DEF TaskStages
      <3> QED
        BY <1>1, <3>1, AtStageWithSkip
    <2>3. H!ActionOf(t) = "drain" /\ u.pc \in StagesOf(H!ActionOf(t))
      BY <1>1, <1>2, <2>2 DEF TaskOK, Fits, StagesOf
    <2>4. TaskOK(u)'
      <3>1. u.pc \notin {"list", "evict", "boot", "ok"} /\ t.pc \notin {"ok", "failed"}
        BY <1>2, <2>2
      <3> QED
        BY <1>1, <1>3, <2>2, <2>3, <3>1, StageOK
    <2>5. H!Becomes(t, u)
      BY <2>1, <2>2
    <2> QED
      BY <1>3, <2>2, <2>4, <2>5, TaskMoves DEF HandlerIInv
  <1> QED
    BY <1>4, <1>5 DEF H!Check

\* After its cordon the node of a task is out of service.
LEMMA CordonOK == ASSUME HandlerIInv, NEW t \in work, H!Cordon(t) PROVE HandlerIInv'
  <1>1. t \in Task /\ TaskOK(t) /\ HandlerTypes
    BY DEF HandlerIInv, HandlerTypes
  <1>2. /\ t.pc = "cordon" /\ UNCHANGED <<hook, podNode, bound, dying, rebooter, lifted>>
        /\ cordoned' \in {cordoned, cordoned \union {t.node}}
    BY DEF H!Cordon, H!podVars
  <1>3. H!ActionOf(t) \in {"cordon", "drain", "reboot"} /\ t.node \in Nodes
    BY <1>1, <1>2 DEF TaskOK, Fits, StagesOf
  <1>4. Harmless /\ (work' \subseteq Task => HandlerTypes')
    BY <1>1, <1>2, <1>3, QuietIsHarmless DEF HandlerTypes
  <1>5. CASE H!Fails(t)
    BY <1>4, <1>5, FailsOK DEF HandlerIInv
  <1>6. CASE ~H!Fails(t)
    <2>1. PICK pc \in {"ok", "list"} : /\ pc = IF H!ActionOf(t) = "cordon" \/ t.skip THEN "ok" ELSE "list"
                                       /\ H!Becomes(t, [t EXCEPT !.pc = pc]) /\ t.node \in cordoned'
      BY <1>6 DEF H!Cordon, H!To
    <2>2. pc \in StagesOf(H!ActionOf(t)) /\ pc \in TaskStages
      BY <1>1, <1>3, <2>1 DEF StagesOf, TaskStages, TaskOK, Fits
    <2>3. PICK u \in Task : /\ u = [t EXCEPT !.pc = pc] /\ u.pc = pc
                            /\ u.hook = t.hook /\ u.node = t.node /\ u.old = t.old /\ u.skip = t.skip
      BY <1>1, <2>2, AtStage
    <2>4. TaskOK(u)'
      <3>1. ~(u.pc \in {"evict", "boot", "ok"} /\ ~u.skip /\ H!ActionOf(t) \in {"drain", "reboot"})
        BY <2>1, <2>3
      <3>2. u.skip => H!ActionOf(t) = "drain"
        BY <1>1, <2>3 DEF TaskOK, Fits
      <3>3. u.pc \in StagesOf(H!ActionOf(t)) /\ u.pc # "evict" /\ t.pc \notin {"ok", "failed"}
        BY <1>2, <2>1, <2>2, <2>3
      <3> QED
        BY <1>1, <1>4, <2>1, <2>3, <3>1, <3>2, <3>3, StageOK
    <2> QED
      BY <1>4, <2>1, <2>3, <2>4, TaskMoves DEF HandlerIInv
  <1> QED
    BY <1>5, <1>6

\* The pods that are listed, and those on their way, are all that a cordoned node may have.
LEMMA ListOK == ASSUME HandlerIInv, NEW t \in work, H!List(t) PROVE HandlerIInv'
  <1>1. t \in Task /\ TaskOK(t) /\ HandlerTypes
    BY DEF HandlerIInv, HandlerTypes
  <1>2. t.pc = "list" /\ UNCHANGED <<hook, cordoned, podNode, bound, dying, rebooter, lifted>>
    BY DEF H!List, H!nodeVars, H!podVars
  <1>3. Harmless /\ (work' \subseteq Task => HandlerTypes')
    BY <1>1, <1>2, QuietIsHarmless DEF HandlerTypes
  <1>4. CASE H!Fails(t)
    BY <1>3, <1>4, FailsOK DEF HandlerIInv
  <1>5. CASE ~H!Fails(t)
    <2>1. PICK pc \in {"evict", "ok", "boot"}, pods \in SUBSET Pods, late \in SUBSET Pods :
              /\ pc = IF pods = {} THEN H!Evicted(t) ELSE "evict"
              /\ pods = H!PodsOn(t.node) /\ late = H!InFlight(t.node)
              /\ H!Becomes(t, WithPods(t, pods, late, pc))
      <3>1. H!Becomes(t, [t EXCEPT !.pods = H!PodsOn(t.node), !.late = H!InFlight(t.node),
                                   !.pc = IF H!PodsOn(t.node) = {} THEN H!Evicted(t) ELSE "evict"])
        BY <1>5 DEF H!List
      <3>2. /\ H!PodsOn(t.node) \subseteq Pods /\ H!InFlight(t.node) \subseteq Pods
            /\ H!Evicted(t) \in {"ok", "boot"}
        BY <1>1 DEF H!PodsOn, H!InFlight, H!Evicted, HandlerTypes
      <3> QED
        BY <3>1, <3>2 DEF WithPods
    <2>2. PICK u \in Task :
              /\ u = WithPods(t, pods, late, pc) /\ u.pc = pc /\ u.hook = t.hook /\ u.node = t.node
              /\ u.old = t.old /\ u.skip = t.skip /\ u.pods = pods /\ u.late = late
      <3>1. pc \in TaskStages
        BY DEF TaskStages
      <3> QED
        BY <1>1, <3>1, AtStageWithPods
    <2>3. TaskOK(u)'
      <3>1. Unaware(t.node)' \subseteq (IF u.pc = "evict" THEN u.pods ELSE {}) \union u.late
        <4>1. Unaware(t.node)' \subseteq pods \union late
          BY <1>2, <2>1 DEF Unaware, H!PodsOn, H!InFlight
        <4>2. u.pc = "evict" \/ pods = {}
          BY <2>1, <2>2
        <4> QED
          BY <2>2, <4>1, <4>2
      <3>2. (u.skip => H!ActionOf(t) = "drain") /\ (u.pc = "evict" => u.pods # {})
        BY <1>1, <2>1, <2>2 DEF TaskOK, Fits, H!Evicted
      <3>3. u.pc \in StagesOf(H!ActionOf(t))
        BY <1>1, <1>2, <2>1, <2>2 DEF TaskOK, Fits, StagesOf, H!Evicted
      <3>4. t.pc \in {"list", "evict", "boot", "ok"} /\ t.pc \notin {"ok", "failed"}
        BY <1>2
      <3> QED
        BY <1>1, <1>3, <2>2, <3>1, <3>2, <3>3, <3>4, StageOK
    <2> QED
      BY <1>3, <2>1, <2>2, <2>3, TaskMoves DEF HandlerIInv
  <1> QED
    BY <1>4, <1>5

\* Every pod whose deletion a task got accepted is told to go.
LEMMA EvictOK == ASSUME HandlerIInv, NEW t \in work, H!Evict(t) PROVE HandlerIInv'
  <1>1. t \in Task /\ TaskOK(t) /\ HandlerTypes
    BY DEF HandlerIInv, HandlerTypes
  <1>2. /\ t.pc \in {"evict", "failed"} /\ UNCHANGED <<hook, cordoned, podNode, bound, rebooter, lifted>>
        /\ t.pods \subseteq Pods /\ t.late \subseteq Pods
    BY <1>1 DEF H!Evict, Task
  <1>3. PICK p \in t.pods :
            \/ /\ p \in bound /\ dying' = dying \union {p}
               /\ H!Becomes(t, [[t EXCEPT !.pods = @ \ {p}] EXCEPT
                                    !.pc = IF t.pc = "evict" /\ t.pods \ {p} = {} THEN H!Evicted(t) ELSE t.pc])
            \/ /\ dying' \in {dying, dying \union ({p} \intersect bound)}
               /\ H!Becomes(t, [[t EXCEPT !.pods = @ \ {p}] EXCEPT !.pc = "failed"])
    BY <1>1 DEF H!Evict, Task
  <1>4. dying \subseteq dying' /\ dying' \subseteq bound
    BY <1>1, <1>3 DEF HandlerTypes
  <1>5. Harmless /\ (work' \subseteq Task => HandlerTypes')
    BY <1>1, <1>2, <1>4 DEF Harmless, HandlerTypes
  <1>6. PICK pc \in {"evict", "ok", "boot", "failed"} :
            /\ H!Becomes(t, WithPods(t, t.pods \ {p}, t.late, pc))
            /\ \/ pc = "failed"
               \/ /\ dying' = dying \union {p} /\ t.pc = "evict"
                  /\ pc = IF t.pods \ {p} = {} THEN H!Evicted(t) ELSE "evict"
    <2>1. ASSUME NEW pc
          PROVE  [[t EXCEPT !.pods = @ \ {p}] EXCEPT !.pc = pc] = WithPods(t, t.pods \ {p}, t.late, pc)
      BY <1>1 DEF WithPods, Task
    <2>2. H!Evicted(t) \in {"ok", "boot"}
      BY DEF H!Evicted
    <2> QED
      BY <1>2, <1>3, <2>1, <2>2
  <1>7. PICK u \in Task :
            /\ u = WithPods(t, t.pods \ {p}, t.late, pc) /\ u.pc = pc /\ u.hook = t.hook /\ u.node = t.node
            /\ u.old = t.old /\ u.skip = t.skip /\ u.pods = t.pods \ {p} /\ u.late = t.late
    <2>1. pc \in TaskStages /\ t.pods \ {p} \in SUBSET Pods
      BY <1>2 DEF TaskStages
    <2> QED
      BY <1>1, <1>2, <2>1, AtStageWithPods
  <1>8. TaskOK(u)'
    <2>1. CASE pc = "failed"
      BY <1>1, <1>5, <1>7, <2>1, FailedOK
    <2>2. CASE pc # "failed"
      <3>1. u.pc \in StagesOf(H!ActionOf(t))
        BY <1>1, <1>6, <1>7, <2>2 DEF TaskOK, Fits, StagesOf, H!Evicted
      <3>2. u.pc \in {"evict", "boot", "ok"} /\ ~u.skip /\ H!ActionOf(t) \in {"drain", "reboot"} /\ ~Lifted(t)'
                => Unaware(t.node)' \subseteq (IF u.pc = "evict" THEN u.pods ELSE {}) \union u.late
        <4> SUFFICES ASSUME ~u.skip, H!ActionOf(t) \in {"drain", "reboot"}, ~Lifted(t)',
                            NEW q \in Pods, podNode'[q] = t.node, q \notin dying', q \notin u.late
                     PROVE  q \in u.pods /\ u.pc = "evict"
          BY DEF Unaware
        <4>1. ~t.old /\ t.pc = "evict" /\ ~Lifted(t)
          BY <1>1, <1>2, <1>6, <1>7, <2>2 DEF TaskOK, Awaited, Lifted
        <4>2. podNode[q] = t.node /\ q # p /\ q \notin dying
          BY <1>2, <1>6, <2>2
        <4>3. q \in t.pods
          BY <1>1, <1>7, <4>1, <4>2 DEF TaskOK, TellsAll, Unaware
        <4> QED
          BY <1>6, <1>7, <2>2, <4>2, <4>3
      <3>3. (u.skip => H!ActionOf(t) = "drain") /\ (u.pc = "evict" => u.pods # {})
        BY <1>1, <1>6, <1>7, <2>2 DEF TaskOK, Fits, H!Evicted
      <3>4. t.pc \in {"list", "evict", "boot", "ok"} /\ t.pc \notin {"ok", "failed"}
        BY <1>6, <2>2
      <3> QED
        BY <1>1, <1>5, <1>7, <3>1, <3>2, <3>3, <3>4, StageOK
    <2> QED
      BY <2>1, <2>2
  <1> QED
    BY <1>5, <1>6, <1>7, <1>8, TaskMoves DEF HandlerIInv

\* A step that only takes a task to its next stage.
LEMMA StepOK ==
  ASSUME HandlerIInv, NEW t \in work, Harmless, t.pc \notin {"ok", "failed"}, NEW pc \in TaskStages, H!To(t, pc),
         pc \in StagesOf(H!ActionOf(t)), pc # "evict",
         \/ t.pc \in {"list", "evict", "boot", "ok"} /\ (~t.skip /\ ~Lifted(t)' => Unaware(t.node)' \subseteq t.late)
         \/ H!ActionOf(t) \notin {"cordon", "drain", "reboot"}
  PROVE  /\ \A h \in Hooks : HookOK(h)'
         /\ \A s \in work' : TaskOK(s)'
         /\ work' \subseteq Task
  <1>1. t \in Task /\ TaskOK(t)
    BY DEF HandlerIInv, HandlerTypes
  <1>2. PICK u \in Task :
            /\ u = [t EXCEPT !.pc = pc] /\ u.pc = pc /\ u.hook = t.hook /\ u.node = t.node
            /\ u.old = t.old /\ u.skip = t.skip /\ u.pods = t.pods /\ u.late = t.late
    BY <1>1, AtStage
  <1>3. TaskOK(u)'
    <2>1. u.skip => H!ActionOf(t) = "drain"
      BY <1>1, <1>2 DEF TaskOK, Fits
    <2> QED
      BY <1>1, <1>2, <2>1, StageOK
  <1> QED
    BY <1>2, <1>3, TaskMoves DEF H!To

\* A node is booted after its last deletion was accepted.
LEMMA BootOK == ASSUME HandlerIInv, NEW t \in work, H!Boot(t) PROVE HandlerIInv'
  <1>1. t \in Task /\ TaskOK(t) /\ HandlerTypes
    BY DEF HandlerIInv, HandlerTypes
  <1>2. /\ t.pc = "boot" /\ UNCHANGED <<hook, cordoned, podNode, bound, dying, lifted>>
        /\ rebooter' \in {rebooter, rebooter \union {t.node}}
    BY DEF H!Boot, H!podVars
  <1>3. H!ActionOf(t) = "reboot" /\ t.node \in Nodes /\ ~t.skip /\ ~t.old
    BY <1>1, <1>2 DEF TaskOK, Fits, StagesOf, Awaited
  <1>4. Harmless /\ (work' \subseteq Task => HandlerTypes')
    BY <1>1, <1>2, <1>3, QuietIsHarmless DEF HandlerTypes
  <1>5. CASE H!Fails(t) \/ H!To(t, "failed")
    <2>1. H!To(t, "failed")
      BY <1>5 DEF H!Fails
    <2>2. "failed" \in TaskStages /\ "failed" \in StagesOf(H!ActionOf(t))
      BY <1>3 DEF TaskStages, StagesOf
    <2>3. ~Lifted(t)' => Unaware(t.node)' \subseteq t.late
      BY <1>1, <1>2, <1>3 DEF TaskOK, TellsAll, Lifted, Unaware
    <2> QED
      BY <1>2, <1>4, <2>1, <2>2, <2>3, StepOK DEF HandlerIInv
  <1>6. CASE H!To(t, "ok")
    <2>1. "ok" \in TaskStages /\ "ok" \in StagesOf(H!ActionOf(t))
      BY <1>3 DEF TaskStages, StagesOf
    <2>2. ~Lifted(t)' => Unaware(t.node)' \subseteq t.late
      BY <1>1, <1>2, <1>3 DEF TaskOK, TellsAll, Lifted, Unaware
    <2> QED
      BY <1>2, <1>4, <1>6, <2>1, <2>2, StepOK DEF HandlerIInv
  <1> QED
    BY <1>5, <1>6 DEF H!Boot

\* The process ends: no task is left, and no answer comes.  Nodes may have been uncordoned.
LEMMA RestartsOK ==
  ASSUME HandlerIInv, H!HandlerRestarts, UNCHANGED <<podNode, bound, dying, rebooter>>,
         (\E n \in Nodes : H!Lifts(n)) \/ UNCHANGED <<cordoned, lifted>>
  PROVE  HandlerIInv'
  <1>1. /\ work' = {} /\ HandlerTypes
        /\ hook' = [h \in Hooks |-> IF hook[h].status = "open" THEN [hook[h] EXCEPT !.status = "refused"]
                                                              ELSE hook[h]]
    BY DEF H!HandlerRestarts, HandlerIInv
  <1>2. /\ cordoned' \subseteq Nodes /\ lifted' \in [Hooks -> SUBSET (Nodes \union {H!User})]
        /\ \A h \in Hooks : cordoned \union lifted[h] \subseteq cordoned' \union lifted'[h]
    BY <1>1 DEF H!Lifts, HandlerTypes
  <1>3. ASSUME NEW h \in Hooks PROVE hook'[h] \in Hook /\ HookOK(h)'
    <2>1. hook[h] \in Hook /\ HookOK(h)
      BY <1>1 DEF HandlerTypes, HandlerIInv
    <2>2. CASE hook[h].status = "open"
      <3>1. hook'[h] = [hook[h] EXCEPT !.status = "refused"]
        BY <1>1, <2>2
      <3>2. /\ hook'[h] \in Hook /\ hook'[h].status = "refused" /\ hook'[h].action = hook[h].action
            /\ hook'[h].nodes = hook[h].nodes
        BY <2>1, <3>1 DEF Hook, Statuses
      <3>3. hook'[h] # H!NoHook
        BY <3>2 DEF H!NoHook
      <3> QED
        BY <2>1, <2>2, <3>2, <3>3 DEF HookOK, KeepsItsAction, OneTaskPerNode, OutOfService
    <2>3. CASE hook[h].status # "open"
      <3>1. hook'[h] = hook[h]
        BY <1>1, <2>3
      <3>2. KeepsItsAction(h)' /\ OneTaskPerNode(h)'
        BY <2>1, <2>3, <3>1 DEF HookOK, KeepsItsAction, OneTaskPerNode
      <3>3. OutOfService(h)'
        BY <1>2, <2>1, <3>1 DEF HookOK, OutOfService
      <3> QED
        BY <2>1, <3>1, <3>2, <3>3 DEF HookOK
    <2> QED
      BY <2>2, <2>3
  <1>4. hook' \in [Hooks -> Hook]
    BY <1>1, <1>3
  <1> QED
    BY <1>1, <1>2, <1>3, <1>4 DEF HandlerIInv, HandlerTypes

\* An uncordon notes for each request on the node that it was lifted behind its back.
LEMMA UncordonOK == ASSUME HandlerIInv, NEW t \in work, H!Uncordon(t) PROVE HandlerIInv'
  <1>1. t \in Task /\ TaskOK(t) /\ HandlerTypes
    BY DEF HandlerIInv, HandlerTypes
  <1>2. t.pc = "uncordon" /\ UNCHANGED <<podNode, bound, dying, rebooter>>
    BY DEF H!Uncordon, H!podVars
  <1>3. H!ActionOf(t) = "uncordon" /\ t.node \in Nodes /\ "ok" \in StagesOf("uncordon") /\ "ok" \in TaskStages
    BY <1>1, <1>2 DEF TaskOK, Fits, StagesOf, TaskStages
  <1>4. CASE H!HandlerRestarts /\ (H!Lifts(t.node) \/ UNCHANGED <<cordoned, lifted>>)
    BY <1>2, <1>3, <1>4, RestartsOK
  <1>5. CASE H!Lifts(t.node) /\ H!To(t, "ok") /\ UNCHANGED hook
    <2>1. Harmless /\ (work' \subseteq Task => HandlerTypes')
      BY <1>1, <1>2, <1>3, <1>5 DEF Harmless, HandlerTypes, H!Lifts
    <2> QED
      BY <1>2, <1>3, <1>5, <2>1, StepOK DEF HandlerIInv
  <1> QED
    BY <1>4, <1>5 DEF H!Uncordon

\* The calls for a mail touch no node.
LEMMA MailsOK == ASSUME HandlerIInv, NEW t \in work, H!Lookup(t) \/ H!Mail(t) PROVE HandlerIInv'
  <1>1. t \in Task /\ TaskOK(t) /\ HandlerTypes
    BY DEF HandlerIInv, HandlerTypes
  <1>2. t.pc \in {"lookup", "mail"} /\ UNCHANGED <<cordoned, podNode, bound, dying, rebooter, lifted>>
    BY DEF H!Lookup, H!Mail, H!nodeVars, H!podVars
  <1>3. CASE H!HandlerRestarts
    BY <1>2, <1>3, RestartsOK
  <1>4. CASE ~H!HandlerRestarts
    <2>1. UNCHANGED hook
      BY <1>4 DEF H!Lookup, H!Mail
    <2>2. Harmless /\ (work' \subseteq Task => HandlerTypes')
      BY <1>1, <1>2, <2>1, QuietIsHarmless DEF HandlerTypes
    <2>3. H!ActionOf(t) = "mailUser"
      BY <1>1, <1>2 DEF TaskOK, Fits, StagesOf
    <2>4. CASE H!Fails(t)
      BY <2>2, <2>4, FailsOK DEF HandlerIInv
    <2>5. CASE ~H!Fails(t)
      <3>1. PICK pc \in {"mail", "ok"} : H!To(t, pc)
        BY <1>4, <2>5 DEF H!Lookup, H!Mail
      <3>2. pc \in TaskStages /\ pc \in StagesOf(H!ActionOf(t)) /\ pc # "evict"
        BY <2>3 DEF TaskStages, StagesOf
      <3> QED
        BY <1>2, <2>2, <2>3, <3>1, <3>2, StepOK DEF HandlerIInv
    <2> QED
      BY <2>4, <2>5
  <1> QED
    BY <1>3, <1>4

\* No pod is sent to a node that is out of service; one that was told to go leaves.
LEMMA PodMovesOK == ASSUME HandlerIInv, NEW p \in Pods, H!PodMoves(p) PROVE HandlerIInv'
  <1>1. HandlerTypes /\ UNCHANGED <<hook, work, cordoned, rebooter, lifted>>
    BY DEF H!PodMoves, HandlerIInv
  <1>2. H!Gone \notin Nodes /\ H!Unborn \notin Nodes
    BY HandlingAssumption
  <1>3. Harmless /\ HandlerTypes'
    <2>1. CASE /\ podNode[p] = H!Unborn /\ UNCHANGED <<bound, dying>>
               /\ \E n \in Nodes \ cordoned : podNode' = [podNode EXCEPT ![p] = n]
      <3>1. p \notin bound
        BY <1>1, <1>2, <2>1 DEF HandlerTypes
      <3> QED
        BY <1>1, <2>1, <3>1 DEF Harmless, HandlerTypes
    <2>2. CASE podNode[p] \in Nodes /\ bound' = bound \union {p} /\ UNCHANGED <<podNode, dying>>
      BY <1>1, <2>2 DEF Harmless, HandlerTypes
    <2>3. CASE podNode' = [podNode EXCEPT ![p] = H!Gone] /\ bound' = bound \ {p} /\ dying' = dying \ {p}
      BY <1>1, <1>2, <2>3 DEF Harmless, HandlerTypes
    <2> QED
      BY <2>1, <2>2, <2>3 DEF H!PodMoves
  <1>4. ASSUME NEW h \in Hooks PROVE HookOK(h)'
    BY <1>1, <1>3, HarmlessHook DEF HandlerIInv, H!WorkOf
  <1>5. ASSUME NEW t \in work' PROVE TaskOK(t)'
    BY <1>1, <1>3, <1>5, HarmlessTask DEF HandlerIInv, HandlerTypes
  <1> QED
    BY <1>3, <1>4, <1>5 DEF HandlerIInv

(***************************************************************************)
(* The steps of the groups of alerts.                                      *)
(***************************************************************************)
\* A group of alerts that changes leaves the others, and the tasks they have, as they were.
LEMMA OtherHooks ==
  ASSUME HandlerIInv, NEW h \in Hooks, NEW r \in Hook, hook' = [hook EXCEPT ![h] = r], UNCHANGED <<cordoned, podNode, dying>>,
         \A i \in Hooks \ {h} : lifted'[i] = lifted[i] /\ H!WorkOf(i)' = H!WorkOf(i)
  PROVE  /\ hook' \in [Hooks -> Hook] /\ hook'[h] = r
         /\ \A i \in Hooks \ {h} : HookOK(i)'
         /\ \A t \in work : t.hook # h => TaskOK(t)'
  <1>1. hook \in [Hooks -> Hook] /\ work \subseteq Task
    BY DEF HandlerIInv, HandlerTypes
  <1>2. hook' \in [Hooks -> Hook] /\ hook'[h] = r /\ \A i \in Hooks \ {h} : hook'[i] = hook[i]
    BY <1>1
  <1>3. ASSUME NEW i \in Hooks \ {h} PROVE HookOK(i)'
    <2>1. HookOK(i)
      BY DEF HandlerIInv
    <2> QED
      BY <1>2, <2>1 DEF HookOK, KeepsItsAction, OneTaskPerNode, OutOfService
  <1>4. ASSUME NEW t \in work, t.hook # h PROVE TaskOK(t)'
    <2>1. TaskOK(t) /\ t.hook \in Hooks
      BY <1>1 DEF HandlerIInv, Task
    <2>2. hook'[t.hook] = hook[t.hook] /\ lifted'[t.hook] = lifted[t.hook]
      BY <1>2, <1>4, <2>1
    <2>3. H!ActionOf(t)' = H!ActionOf(t) /\ Unaware(t.node)' = Unaware(t.node)
      BY <2>2 DEF H!ActionOf, Unaware
    <2> QED
      BY <2>1, <2>2, <2>3 DEF TaskOK, Fits, Awaited, CordonedFirst, TellsAll, Lifted
  <1> QED
    BY <1>2, <1>3, <1>4

\* A group of which no request is open, or whose request is done, keeps its tasks.
LEMMA SameHook ==
  ASSUME HandlerIInv, NEW h \in Hooks, NEW r \in Hook, hook' = [hook EXCEPT ![h] = r],
         UNCHANGED <<work, cordoned, podNode, bound, dying, rebooter, lifted>>,
         r.action = hook[h].action \/ hook[h].action = "none",
         \A t \in H!WorkOf(h) : r.action \in {"drain", "reboot"} /\ hook[h].status = "open" => t.pc \in {"ok", "failed"},
         HookOK(h)'
  PROVE  HandlerIInv'
  <1>1. HandlerTypes /\ \A i \in Hooks : H!WorkOf(i)' = H!WorkOf(i)
    BY DEF HandlerIInv, H!WorkOf
  <1>2. /\ hook' \in [Hooks -> Hook] /\ hook'[h] = r
        /\ \A i \in Hooks \ {h} : HookOK(i)'
        /\ \A t \in work : t.hook # h => TaskOK(t)'
    BY <1>1, OtherHooks
  <1>3. ASSUME NEW t \in work, t.hook = h PROVE TaskOK(t)'
    <2>1. TaskOK(t)
      BY DEF HandlerIInv
    <2>2. H!ActionOf(t) = hook[h].action /\ H!ActionOf(t)' = r.action
      BY <1>2, <1>3 DEF H!ActionOf
    <2>3. H!ActionOf(t) # "none"
      BY <2>1 DEF TaskOK, Fits, StagesOf
    <2>4. H!ActionOf(t)' = H!ActionOf(t) /\ Unaware(t.node)' = Unaware(t.node) /\ Lifted(t)' = Lifted(t)
      BY <2>2, <2>3 DEF Unaware, Lifted
    <2>5. Awaited(t)'
      BY <1>3, <2>1, <2>2, <2>4 DEF TaskOK, Awaited, H!WorkOf
    <2>6. Fits(t)' /\ CordonedFirst(t)' /\ TellsAll(t)'
      BY <2>1, <2>4 DEF TaskOK, Fits, CordonedFirst, TellsAll
    <2> QED
      BY <2>5, <2>6 DEF TaskOK
  <1> QED
    BY <1>1, <1>2, <1>3 DEF HandlerIInv, HandlerTypes

\* Alerts that fire for the action their group has wait for the post of the Alertmanager.
LEMMA FireOK ==
  ASSUME HandlerIInv, NEW h \in Hooks, NEW action \in H!Actions, NEW nodes \in SUBSET (Nodes \union {H!User}),
         hook[h].status = "none" \/ hook[h].action \in {"none", action},
         h = CordonHook => action = "cordon",
         h = MailHook => action = "mailUser",
         action # "mailUser" => nodes \subseteq Nodes,
         hook[h].status # "none" => action \notin {"drain", "reboot"},
         H!Fire(h, action, nodes), H!WorkStays
  PROVE  HandlerIInv'
  <1>1. HandlerTypes /\ hook[h] \in Hook /\ HookOK(h) /\ UNCHANGED <<work, cordoned, podNode, bound, dying, rebooter, lifted>>
    BY DEF HandlerIInv, HandlerTypes, H!WorkStays, H!nodeVars, H!podVars
  <1>2. CASE UNCHANGED hook
    <2>1. Harmless
      BY <1>1, <1>2, QuietIsHarmless
    <2>2. \A i \in Hooks : HookOK(i)'
      BY <1>1, <2>1, HarmlessHook DEF HandlerIInv, H!WorkOf
    <2>3. \A t \in work' : TaskOK(t)'
      BY <1>1, <2>1, HarmlessTask DEF HandlerIInv, HandlerTypes
    <2> QED
      BY <1>1, <1>2, <2>2, <2>3 DEF HandlerIInv, HandlerTypes
  <1>3. CASE hook' # hook
    <2>1. PICK group \in {nodes, hook[h].nodes \union nodes} :
              /\ group = hook[h].nodes \union nodes => hook[h].status # "none" \/ group = nodes
              /\ hook' = [hook EXCEPT ![h] = [action |-> action, nodes |-> group, status |-> "firing"]]
      BY <1>3 DEF H!Fire
    <2> DEFINE r == [action |-> action, nodes |-> group, status |-> "firing"]
    <2>2. hook' = [hook EXCEPT ![h] = r]
      BY <2>1
    <2>3. r \in Hook
      BY <1>1, <2>1 DEF Hook, Statuses
    <2>4. r.action = hook[h].action \/ hook[h].action = "none"
      BY <1>1 DEF HookOK, KeepsItsAction, H!NoHook
    <2>5. HookOK(h)'
      <3>1. hook'[h] = r
        BY <1>1, <2>2 DEF HandlerTypes
      <3>2. action # "mailUser" => group \subseteq Nodes
        BY <1>1, <2>1, <2>4 DEF HookOK, KeepsItsAction, H!NoHook
      <3>3. action # "none" /\ r # H!NoHook
        BY DEF H!Actions, H!NoHook
      <3> QED
        BY <3>1, <3>2, <3>3 DEF HookOK, KeepsItsAction, OneTaskPerNode, OutOfService
    <2>6. r.action \in {"drain", "reboot"} => hook[h].status # "open"
      OBVIOUS
    <2> HIDE DEF r
    <2> QED
      BY <1>1, <2>2, <2>3, <2>4, <2>5, <2>6, SameHook
  <1> QED
    BY <1>2, <1>3

\* The answer, or the end of the alerts, waits for the tasks of a drain or a reboot.
LEMMA AnswersOK ==
  ASSUME HandlerIInv, NEW h \in Hooks, H!AnswerOk(h) \/ H!AnswerFailed(h) \/ H!Resolve(h)
  PROVE  HandlerIInv'
  <1>1. /\ HandlerTypes /\ hook[h] \in Hook /\ HookOK(h) /\ UNCHANGED <<work, cordoned, podNode, bound, dying, rebooter, lifted>>
        /\ hook[h].status # "none"
    BY DEF HandlerIInv, HandlerTypes, H!AnswerOk, H!AnswerFailed, H!Resolve, H!nodeVars, H!podVars
  <1>2. PICK status \in {"answered", "refused", "resolved"} :
            /\ hook' = [hook EXCEPT ![h].status = status]
            /\ status = "answered" => H!AnswerOk(h)
    BY DEF H!AnswerOk, H!AnswerFailed, H!Resolve
  <1> DEFINE r == [hook[h] EXCEPT !.status = status]
  <1>3. r \in Hook /\ r.action = hook[h].action /\ r.nodes = hook[h].nodes /\ r.status = status
    BY <1>1 DEF Hook, Statuses
  <1>4. hook' = [hook EXCEPT ![h] = r] /\ hook'[h] = r
    BY <1>1, <1>2 DEF HandlerTypes
  <1>5. ASSUME NEW t \in H!WorkOf(h), r.action \in {"drain", "reboot"}, hook[h].status = "open"
        PROVE  t.pc \in {"ok", "failed"}
    BY <1>3, <1>5 DEF H!AnswerOk, H!AnswerFailed, H!Resolve, H!Settled, H!Swallows, H!ActionOf, H!WorkOf
  <1>6. OutOfService(h)'
    <2> SUFFICES ASSUME status = "answered", r.action = "cordon", NEW n \in hook[h].nodes
                 PROVE  n \in cordoned \union lifted[h]
      BY <1>1, <1>3, <1>4 DEF OutOfService
    <2>1. H!AnswerOk(h)
      BY <1>2
    <2>2. PICK t \in H!WorkOf(h) : t.node = n
      BY <1>1, <2>1 DEF HookOK, OneTaskPerNode, H!AnswerOk
    <2>3. t.pc = "ok" /\ t \in work /\ t.hook = h /\ ~t.old
      BY <1>3, <2>1, <2>2 DEF H!AnswerOk, H!Settled, H!Swallows, H!ActionOf, H!WorkOf
    <2> QED
      BY <1>3, <2>2, <2>3 DEF HandlerIInv, TaskOK, CordonedFirst, Lifted, H!ActionOf
  <1>7. HookOK(h)'
    <2>1. r # H!NoHook
      BY <1>3 DEF H!NoHook
    <2> QED
      BY <1>1, <1>3, <1>4, <1>6, <2>1 DEF HookOK, KeepsItsAction, OneTaskPerNode
  <1> HIDE DEF r
  <1> QED
    BY <1>1, <1>3, <1>4, <1>5, <1>7, SameHook

\* A group is posted: the tasks of its earlier requests are answered for no more.
LEMMA DeliverOK == ASSUME HandlerIInv, NEW h \in Hooks, H!Deliver(h) PROVE HandlerIInv'
  <1>1. /\ HandlerTypes /\ hook[h] \in Hook /\ HookOK(h) /\ UNCHANGED <<cordoned, podNode, bound, dying, rebooter>>
        /\ hook[h].status \in {"firing", "refused"} /\ lifted' = [lifted EXCEPT ![h] = {}]
        /\ hook' = [hook EXCEPT ![h].status = "open"]
    BY DEF HandlerIInv, HandlerTypes, H!Deliver, H!podVars
  <1>2. PICK r \in Hook : /\ hook' = [hook EXCEPT ![h] = r] /\ hook'[h] = r
                          /\ r.action = hook[h].action /\ r.nodes = hook[h].nodes /\ r.status = "open"
    <2> DEFINE r == [hook[h] EXCEPT !.status = "open"]
    <2>1. r \in Hook /\ r.action = hook[h].action /\ r.nodes = hook[h].nodes /\ r.status = "open"
      BY <1>1 DEF Hook, Statuses
    <2>2. hook' = [hook EXCEPT ![h] = r] /\ hook'[h] = r
      BY <1>1 DEF HandlerTypes
    <2> QED
      BY <2>1, <2>2
  <1>3. r.action \in H!Actions
    BY <1>1, <1>2 DEF HookOK, KeepsItsAction, Hook, H!Actions
  <1> DEFINE T(n) == [hook |-> h, node |-> n, pc |-> H!First(r.action), skip |-> FALSE, pods |-> {}, late |-> {}, old |-> FALSE]
             O(t) == [t EXCEPT !.old = TRUE]
  <1>4. /\ \A u \in work' : \/ \E n \in r.nodes : u = T(n)
                            \/ \E t \in work : u = IF t.hook = h THEN O(t) ELSE t
        /\ \A n \in r.nodes : T(n) \in work'
        /\ \A t \in work : t.hook # h => t \in work'
    BY <1>2 DEF H!Deliver
  <1>5. ASSUME NEW n \in r.nodes
        PROVE  /\ T(n) \in Task /\ T(n).hook = h /\ T(n).node = n /\ ~T(n).old /\ ~T(n).skip
               /\ T(n).pc \in StagesOf(r.action) \ {"list", "evict", "boot", "ok", "failed"}
    <2>1. n \in Nodes \union {H!User}
      BY DEF Hook
    <2>2. H!First(r.action) \in TaskStages
          /\ H!First(r.action) \in StagesOf(r.action) \ {"list", "evict", "boot", "ok", "failed"}
      BY <1>3 DEF H!Actions, H!First, StagesOf, TaskStages
    <2> QED
      BY <2>1, <2>2 DEF Task
  <1>6. ASSUME NEW t \in work
        PROVE  /\ t \in Task /\ O(t) \in Task /\ O(t).old /\ O(t).hook = t.hook /\ O(t).node = t.node /\ O(t).pc = t.pc
               /\ O(t).skip = t.skip /\ O(t).pods = t.pods /\ O(t).late = t.late
    <2>1. t \in Task
      BY <1>1 DEF HandlerTypes
    <2> QED
      BY <2>1 DEF Task
  <1> HIDE DEF T, O
  <1>7. HandlerTypes'
    <2>1. work' \subseteq Task
      BY <1>4, <1>5, <1>6
    <2>2. hook' \in [Hooks -> Hook]
      BY <1>1, <1>2 DEF HandlerTypes
    <2> QED
      BY <1>1, <2>1, <2>2 DEF HandlerTypes
  <1>8. H!WorkOf(h)' = {T(n) : n \in r.nodes}
    BY <1>4, <1>5, <1>6 DEF H!WorkOf
  <1>9. ASSUME NEW i \in Hooks \ {h} PROVE H!WorkOf(i)' = H!WorkOf(i) /\ lifted'[i] = lifted[i]
    BY <1>1, <1>4, <1>5, <1>6 DEF H!WorkOf, HandlerTypes
  <1>10. /\ \A i \in Hooks \ {h} : HookOK(i)'
         /\ \A t \in work : t.hook # h => TaskOK(t)'
    <2>1. UNCHANGED <<cordoned, podNode, dying>> /\ hook' = [hook EXCEPT ![h] = r]
      BY <1>1, <1>2
    <2>2. \A i \in Hooks \ {h} : lifted'[i] = lifted[i] /\ H!WorkOf(i)' = H!WorkOf(i)
      BY <1>9
    <2> QED
      BY <2>1, <2>2, OtherHooks
  <1>11. HookOK(h)'
    <2>1. {t.node : t \in H!WorkOf(h)'} = r.nodes
      BY <1>5, <1>8
    <2>2. r # H!NoHook
      BY <1>2 DEF H!NoHook
    <2> QED
      BY <1>1, <1>2, <2>1, <2>2 DEF HookOK, KeepsItsAction, OneTaskPerNode, OutOfService
  <1>12. ASSUME NEW n \in r.nodes PROVE TaskOK(T(n))'
    <2>1. H!ActionOf(T(n))' = r.action /\ hook'[T(n).hook].status = "open"
      BY <1>2, <1>5 DEF H!ActionOf
    <2>2. r.action # "mailUser" => T(n).node \in Nodes
      BY <1>1, <1>2, <1>5 DEF HookOK, KeepsItsAction
    <2> QED
      BY <1>5, <2>1, <2>2 DEF TaskOK, Fits, Awaited, CordonedFirst, TellsAll
  <1>13. ASSUME NEW t \in work, t.hook = h PROVE TaskOK(O(t))'
    <2>1. TaskOK(t)
      BY DEF HandlerIInv
    <2>2. H!ActionOf(t) = r.action /\ H!ActionOf(O(t))' = r.action
      BY <1>2, <1>6, <1>13 DEF H!ActionOf
    <2>3. O(t).old /\ O(t).node = t.node /\ O(t).pc = t.pc /\ O(t).skip = t.skip /\ O(t).pods = t.pods /\ O(t).late = t.late
      BY <1>6
    <2>4. H!ActionOf(t) \in {"drain", "reboot"} => t.pc \in {"ok", "failed"}
      BY <1>1, <1>13, <2>1 DEF TaskOK, Awaited
    <2> QED
      BY <2>1, <2>2, <2>3, <2>4 DEF TaskOK, Fits, Awaited, CordonedFirst, TellsAll
  <1>14. ASSUME NEW u \in work' PROVE TaskOK(u)'
    <2>1. CASE \E n \in r.nodes : u = T(n)
      BY <1>12, <2>1
    <2>2. CASE \E t \in work : u = IF t.hook = h THEN O(t) ELSE t
      BY <1>10, <1>13, <2>2
    <2> QED
      BY <1>4, <2>1, <2>2
  <1> QED
    BY <1>2, <1>7, <1>10, <1>11, <1>14 DEF HandlerIInv

\* No step breaks the invariant of the alert-handler.
LEMMA HandlerNextOK == ASSUME NoteIInv, HandlerIInv, [Next]_vars PROVE HandlerIInv'
  <1>1. CASE H!AlertsStay
    <2>1. Harmless /\ UNCHANGED <<work, rebooter, cordoned, podNode, bound, dying, lifted>> /\ HandlerTypes
      BY <1>1 DEF H!AlertsStay, H!alertVars, H!nodeVars, H!podVars, Harmless, HandlerIInv
    <2>2. \A h \in Hooks : HookOK(h)'
      BY <2>1, HarmlessHook DEF HandlerIInv, H!WorkOf
    <2>3. \A t \in work' : TaskOK(t)'
      BY <2>1, HarmlessTask DEF HandlerIInv, HandlerTypes
    <2>4. HandlerTypes'
      BY <2>1 DEF Harmless, HandlerTypes
    <2> QED
      BY <2>2, <2>3, <2>4 DEF HandlerIInv
  <1>2. ASSUME NEW t \in work, H!NodeStep(t) PROVE HandlerIInv'
    BY <1>2, CheckOK, CordonOK, ListOK, EvictOK, BootOK, UncordonOK, MailsOK DEF H!NodeStep
  <1>3. CASE H!HandlerRestarts /\ H!NodesStay
    BY <1>3, RestartsOK DEF H!NodesStay, H!nodeVars, H!podVars
  <1>4. CASE HandlerNext
    BY <1>2, <1>3, <1>4, FireOK, DeliverOK, AnswersOK, PodMovesOK DEF HandlerNext
  <1> QED
    BY <1>1, <1>4, HandlerSteps

\* The pods that are bound to a node and were not told to go were sent there.
LEMMA UntoldIsUnaware == ASSUME HandlerIInv, NEW n PROVE H!Untold(n) \subseteq Unaware(n)
  BY DEF HandlerIInv, HandlerTypes, H!Untold, H!PodsOn, Unaware

\* The types, and what an answer or a success promises, are part of the invariant.
LEMMA HandlerIInvImplies ==
  ASSUME HandlerIInv
  PROVE  H!HandlerTypeOK /\ H!CordonHolds /\ H!DrainTellsPods
  <1> USE DEF HandlerIInv
  <1>1. H!HandlerTypeOK
    <2>1. ASSUME NEW h \in Hooks
          PROVE  /\ hook[h].action \in H!Actions \union {"none"} /\ hook[h].nodes \subseteq Nodes \union {H!User}
                 /\ hook[h].status = "none" <=> hook[h] = H!NoHook
                 /\ hook[h].status = "open" => {t.node : t \in H!WorkOf(h)} = hook[h].nodes
      BY DEF HandlerTypes, Hook, HookOK, KeepsItsAction, OneTaskPerNode
    <2>2. ASSUME NEW t \in work PROVE t.pods \union t.late \subseteq Pods /\ (t.pc = "evict" => t.pods # {})
      BY DEF HandlerTypes, Task, TaskOK, Fits
    <2> QED
      BY <2>1, <2>2 DEF H!HandlerTypeOK, HandlerTypes
  <1>2. H!CordonHolds
    <2>1. ASSUME NEW h \in Hooks, H!Swallows(h), NEW t \in H!WorkOf(h), t.pc = "ok"
          PROVE  t.node \in cordoned \union lifted[h]
      BY <2>1 DEF H!Swallows, H!WorkOf, TaskOK, CordonedFirst, Lifted, H!ActionOf
    <2> QED
      BY <2>1 DEF H!CordonHolds, HookOK, OutOfService
  <1>3. H!DrainTellsPods
    <2>1. ASSUME NEW h \in Hooks, NEW t \in H!WorkOf(h), hook[h].action = "drain", t.pc = "ok", ~t.skip,
                 t.node \notin lifted[h]
          PROVE  H!Untold(t.node) \subseteq t.late
      <3>1. Unaware(t.node) \subseteq t.late
        BY <2>1 DEF TaskOK, TellsAll, H!WorkOf, H!ActionOf, Lifted
      <3> QED
        BY <3>1, UntoldIsUnaware
    <2> QED
      BY <2>1 DEF H!DrainTellsPods
  <1> QED
    BY <1>1, <1>2, <1>3

\* Only a task at its boot adds a reboot pod, and it has told the pods of the node to go.
LEMMA BootsToldNodes ==
  ASSUME NoteIInv, HandlerIInv, [Next]_vars, NEW n \in rebooter' \ rebooter
  PROVE  \E t \in work : /\ t.node = n /\ t.pc = "boot"
                         /\ H!Untold(n) \subseteq t.late \/ n \in lifted[t.hook]
  <1>1. PICK t \in work : H!Boot(t)
    <2>1. H!AlertsStay => UNCHANGED rebooter
      BY DEF H!AlertsStay, H!alertVars, H!nodeVars
    <2>2. ASSUME NEW t \in work, H!NodeStep(t) PROVE H!Boot(t) \/ UNCHANGED rebooter
      BY <2>2 DEF H!NodeStep, H!Check, H!Cordon, H!List, H!Evict, H!Uncordon, H!Lookup, H!Mail, H!nodeVars
    <2>3. (H!HandlerRestarts /\ H!NodesStay) \/ H!WorkStays => UNCHANGED rebooter
      BY DEF H!NodesStay, H!WorkStays, H!nodeVars
    <2>4. ASSUME NEW h \in Hooks, H!Deliver(h) \/ H!AnswerOk(h) \/ H!AnswerFailed(h) \/ H!Resolve(h)
          PROVE  UNCHANGED rebooter
      BY <2>4 DEF H!Deliver, H!AnswerOk, H!AnswerFailed, H!Resolve, H!nodeVars
    <2>5. ASSUME NEW p \in Pods, H!PodMoves(p) PROVE UNCHANGED rebooter
      BY <2>5 DEF H!PodMoves
    <2> QED
      BY <2>1, <2>2, <2>3, <2>4, <2>5, HandlerSteps DEF HandlerNext
  <1>2. t.pc = "boot" /\ t.node = n /\ TaskOK(t)
    BY <1>1 DEF H!Boot, HandlerIInv
  <1>3. H!ActionOf(t) = "reboot" /\ ~t.skip /\ ~t.old
    BY <1>2 DEF TaskOK, Fits, StagesOf, Awaited
  <1>4. Unaware(n) \subseteq t.late \/ n \in lifted[t.hook]
    BY <1>2, <1>3 DEF TaskOK, TellsAll, Lifted
  <1> QED
    BY <1>2, <1>4, UntoldIsUnaware

(***************************************************************************)
(* The theorems.                                                           *)
(***************************************************************************)
\* The invariant holds in every reachable state; the theorems below read off its parts.
THEOREM Invariance == Spec => []IInv
  <1>1. Init => IInv
    BY NoteInitOK, HandlerInitOK DEF IInv
  <1>2. IInv /\ [Next]_vars => IInv'
    BY NoteNextOK, HandlerNextOK DEF IInv
  <1> QED
    BY <1>1, <1>2, PTL DEF Spec

\* Everything is of its type: a handler is idle when it has nothing to send, a request
\* has a task for each node of its alerts, an eviction has pods to evict.
THEOREM TypeCorrect == Spec => []TypeOK
  <1>1. IInv => TypeOK
    BY NoteIInvImplies, HandlerIInvImplies DEF IInv, TypeOK
  <1> QED
    BY <1>1, Invariance, PTL

\* What a row says was notified has been accepted by the Alertmanager.
THEOREM NotifiedIsAccepted == Spec => []NotifiedMeansAccepted
  <1>1. IInv => NotifiedMeansAccepted
    BY NoteIInvImplies DEF IInv
  <1> QED
    BY <1>1, Invariance, PTL

\* A notification is repeated at most once for each failure or change of the request.
THEOREM NotificationsAreNotRepeated == Spec => []ToldOnce
  <1>1. IInv => ToldOnce
    BY NoteIInvImplies DEF IInv
  <1> QED
    BY <1>1, Invariance, PTL

\* A validation job that is saved as notified has reported every node it tested.
THEOREM EveryNodeIsReported == Spec => []ResultsReported
  <1>1. IInv => ResultsReported
    BY NoteIInvImplies DEF IInv
  <1> QED
    BY <1>1, Invariance, PTL

\* The nodes of an answered cordon are out of service, and so is each node whose drain or
\* reboot succeeded, unless it was uncordoned since.
THEOREM OutOfServiceForGood == Spec => []CordonHolds
  <1>1. IInv => CordonHolds
    BY HandlerIInvImplies DEF IInv, CordonHolds
  <1> QED
    BY <1>1, Invariance, PTL

\* A drain that succeeded has told every pod on the node to go, but those on their way
\* there when it listed them.
THEOREM DrainsTellPods == Spec => []DrainTellsPods
  <1>1. IInv => DrainTellsPods
    BY HandlerIInvImplies DEF IInv, DrainTellsPods
  <1> QED
    BY <1>1, Invariance, PTL

\* So has a reboot, before it creates the pod that reboots the node.
THEOREM RebootsTellPods == Spec => RebootTellsPods
  <1>1. IInv /\ [Next]_vars =>
            [\A n \in rebooter' \ rebooter :
                 \E t \in work : /\ t.node = n /\ t.pc = "boot"
                                 /\ H!Untold(n) \subseteq t.late \/ n \in lifted[t.hook]]_(H!alertVars)
    BY BootsToldNodes DEF IInv
  <1> QED
    BY <1>1, Invariance, PTL DEF Spec, RebootTellsPods, H!RebootTellsPods
=============================================================================
