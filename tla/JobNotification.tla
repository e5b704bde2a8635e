--------------------------- MODULE JobNotification ---------------------------
(***************************************************************************)
(* alert-manager's job-status-change-notification: rounds that read the    *)
(* frameworks with a status change to notify, post the alerts of each, and *)
(* then save in the framework's row what was notified.  For a validation   *)
(* job ("superbench") that ended, the handler of the job also reads the    *)
(* logs and reports the nodes that passed and those that failed.           *)
(*                                                                         *)
(* The rows are written by database-controller meanwhile: its status       *)
(* updates move the state and the retries, and every change of the request *)
(* (a stop, say) resets what was notified.  A framework that is deleted    *)
(* from the API server before it completed starts anew: WAITING, with no   *)
(* retry.                                                                  *)
(*                                                                         *)
(* A round whose read of the database fails does nothing.                  *)
(***************************************************************************)
EXTENDS Naturals, FiniteSets

CONSTANTS
    Jobs,
    Wanted,         \* the notifications each job asked for
    Results,        \* validation jobs: what each of its tasks found, a set of [node, passed]
    MaxRetries

Kinds == {"RUNNING", "SUCCEEDED", "FAILED", "STOPPED", "RETRIED"}

ASSUME NotificationAssumption ==
    /\ Wanted \in [Jobs -> SUBSET Kinds]
    /\ DOMAIN Results \subseteq Jobs
    /\ MaxRetries \in Nat

VARIABLES
    row,            \* the framework of each job in the database
    handler,        \* what handles each job in this round
    budget,         \* how many posts or saves may still fail, requests change, ...
    accepted,       \* history: how often each notification was accepted, by kind
    retriesTold,    \* history: the numbers of retries in accepted RETRIED alerts
    excuses,        \* history: what may have a notification of a job repeated
    reported,       \* history: the nodes reported as passed, and as failed, by job
    misread         \* history: the jobs with a log that could not be read

historyVars == <<accepted, retriesTold, excuses, reported, misread>>
noteVars    == <<row, handler, budget, historyVars>>

Validates(j) == j \in DOMAIN Results

Failing(n) == budget.fail >= n

Spend(n) == budget' = [budget EXCEPT !.fail = @ - n]

Idle == [pc |-> "idle", infos |-> {}, retries |-> 0, good |-> {}, bad |-> {}]

NoteInit ==
    /\ row = [j \in Jobs |-> [state |-> "WAITING", retries |-> 0, notified |-> {}, told |-> 0]]
    /\ handler = [j \in Jobs |-> Idle]
    /\ accepted = [j \in Jobs |-> [k \in Kinds |-> 0]]
    /\ retriesTold = [j \in Jobs |-> {0}]
    /\ excuses = [j \in Jobs |-> 0]
    /\ reported = [j \in DOMAIN Results |-> [good |-> {}, bad |-> {}]]
    /\ misread = {}

(***************************************************************************)
(* database-controller writes the row.                                     *)
(***************************************************************************)
Finals == {"SUCCEEDED", "FAILED", "STOPPED"}

Follows(old, new) ==
    \/ old = "WAITING" /\ new \in {"RUNNING", "STOPPING"} \union Finals
    \/ old = "RUNNING" /\ new \in {"STOPPING"} \union Finals
    \/ old = "STOPPING" /\ new = "STOPPED"

StatusChanges(j, state) ==
    /\ Follows(row[j].state, state)
    /\ budget.status > 0 /\ budget' = [budget EXCEPT !.status = @ - 1]
    /\ row' = [row EXCEPT ![j].state = state]
    /\ UNCHANGED <<handler, historyVars>>

Retries(j) ==
    /\ row[j].state = "RUNNING" /\ row[j].retries < MaxRetries
    /\ budget.retry > 0 /\ budget' = [budget EXCEPT !.retry = @ - 1]
    /\ \E state \in {"RUNNING", "WAITING"} :
           row' = [row EXCEPT ![j].state = state, ![j].retries = @ + 1]
    /\ UNCHANGED <<handler, historyVars>>

\* getRequestUpdate.
RequestChanges(j) ==
    /\ budget.reset > 0 /\ budget' = [budget EXCEPT !.reset = @ - 1]
    /\ row' = [row EXCEPT ![j].notified = {}, ![j].told = 0]
    /\ excuses' = [excuses EXCEPT ![j] = @ + 1]
    /\ UNCHANGED <<handler, accepted, retriesTold, reported, misread>>

StartsAnew(j) ==
    /\ row[j].state \notin {"WAITING"} \union Finals
    /\ budget.anew > 0 /\ budget' = [budget EXCEPT !.anew = @ - 1]
    /\ row' = [row EXCEPT ![j].state = "WAITING", ![j].retries = 0]
    /\ UNCHANGED <<handler, historyVars>>

(***************************************************************************)
(* A round, and what it does for one job.                                  *)
(***************************************************************************)
\* Mutant: a job that was notified once is not looked at again.
DueOnce(r, wanted) ==
    IF r.notified # {} THEN {}
    ELSE {k \in wanted : k = r.state \/ (k = "RETRIED" /\ r.told < r.retries)}

\* The conditions of getFrameworks, which handleJobStatusChange repeats.
Due(r, wanted) ==
    {k \in wanted \ r.notified :
        \/ k = "RUNNING" /\ r.state \in {"RUNNING", "SUCCEEDED"}
        \/ k \in Finals /\ r.state = k
        \/ k = "RETRIED" /\ r.told < r.retries}

Begin(j) == [Idle EXCEPT !.pc = "send", !.infos = Due(row[j], Wanted[j]), !.retries = row[j].retries]

DueJobs == {j \in Jobs : Due(row[j], Wanted[j]) # {}}

\* Mutant: a round does not wait for the handlers of the one before.
PollAlways ==
    /\ DueJobs # {}
    /\ handler' = [j \in Jobs |-> IF j \in DueJobs THEN Begin(j) ELSE handler[j]]
    /\ UNCHANGED <<row, budget, historyVars>>

Poll ==
    /\ \A j \in Jobs : handler[j].pc = "idle"
    /\ DueJobs # {}
    /\ handler' = [j \in Jobs |-> IF j \in DueJobs THEN Begin(j) ELSE Idle]
    /\ UNCHANGED <<row, budget, historyVars>>

Goto(j, pc) == handler' = [handler EXCEPT ![j].pc = pc]

\* Mutant: the next round finds what this one was to send.
GiveUpHalf(j) ==
    /\ handler' = [handler EXCEPT ![j].pc = "idle"]
    /\ excuses' = [excuses EXCEPT ![j] = @ + 1]

GiveUp(j) ==
    /\ handler' = [handler EXCEPT ![j] = Idle]
    /\ excuses' = [excuses EXCEPT ![j] = @ + 1]

Checking(j) == Validates(j) /\ handler[j].infos \intersect {"SUCCEEDED", "FAILED"} # {}

\* A post of alerts: accepted and answered, accepted but the answer lost, or refused.
Send(j, outcome) ==
    /\ handler[j].pc = "send"
    /\ IF outcome = "refused" THEN UNCHANGED <<accepted, retriesTold>>
       ELSE /\ accepted' = [accepted EXCEPT ![j] =
                               [k \in Kinds |-> @[k] + (IF k \in handler[j].infos THEN 1 ELSE 0)]]
            /\ retriesTold' = IF "RETRIED" \in handler[j].infos
                              THEN [retriesTold EXCEPT ![j] = @ \union {handler[j].retries}]
                              ELSE retriesTold
    /\ IF outcome = "ok"
       THEN Goto(j, IF Checking(j) THEN "log" ELSE "save") /\ UNCHANGED <<budget, excuses>>
       ELSE Failing(1) /\ Spend(1) /\ GiveUp(j)
    /\ UNCHANGED <<row, reported, misread>>

\* getJobStatusFromLog: a task whose log cannot be read counts as failed.
Readings(j) ==
    {[read |-> read,
      good |-> {r.node : r \in {r \in Results[j] : read[r] /\ r.passed}},
      bad  |-> {r.node : r \in {r \in Results[j] : ~(read[r] /\ r.passed)}}] :
        read \in [Results[j] -> BOOLEAN]}

ReadLog(j) ==
    /\ handler[j].pc = "log"
    /\ \E x \in Readings(j) :
           LET failed == Cardinality({r \in Results[j] : ~x.read[r]}) IN
           /\ Failing(failed) /\ Spend(failed)
           /\ misread' = IF failed > 0 THEN misread \union {j} ELSE misread
           /\ handler' = [handler EXCEPT ![j].good = x.good, ![j].bad = x.bad,
                                         ![j].pc = IF x.good # {} THEN "good"
                                                   ELSE IF x.bad # {} THEN "bad" ELSE "save"]
    /\ UNCHANGED <<row, accepted, retriesTold, excuses, reported>>

\* The job itself cannot be read: no node is reported, and the job is saved as notified.
NoJobInfo(j) ==
    /\ handler[j].pc = "log"
    /\ Failing(1) /\ Spend(1)
    /\ misread' = misread \union {j}
    /\ Goto(j, "save")
    /\ UNCHANGED <<row, accepted, retriesTold, excuses, reported>>

\* Mutant: nodes that failed are not reported once others passed.
ReportGoodOnly(j, outcome) ==
    /\ handler[j].pc = "good"
    /\ reported' = [reported EXCEPT ![j].good = @ \union handler[j].good]
    /\ Goto(j, "save")
    /\ outcome = "ok"
    /\ UNCHANGED <<row, budget, accepted, retriesTold, excuses, misread>>

\* uncordonNodes: RecoverValidatedNodes alerts.  A failure leaves the handler.
ReportGood(j, outcome) ==
    /\ handler[j].pc = "good"
    /\ reported' = IF outcome = "refused" THEN reported
                   ELSE [reported EXCEPT ![j].good = @ \union handler[j].good]
    /\ IF outcome = "ok"
       THEN Goto(j, IF handler[j].bad # {} THEN "bad" ELSE "save") /\ UNCHANGED <<budget, excuses>>
       ELSE Failing(1) /\ Spend(1) /\ GiveUp(j)
    /\ UNCHANGED <<row, accepted, retriesTold, misread>>

\* cordonNodes: CordonValidationFailedNodes alerts, then the mail to the
\* administrator.  A failure is logged, and the job saved as notified.
ReportBad(j, outcome) ==
    /\ handler[j].pc = "bad"
    /\ reported' = IF outcome = "refused" THEN reported
                   ELSE [reported EXCEPT ![j].bad = @ \union handler[j].bad]
    /\ Goto(j, IF outcome = "ok" THEN "mail" ELSE "save")
    /\ IF outcome = "ok" THEN UNCHANGED <<budget, misread>>
       ELSE Failing(1) /\ Spend(1) /\ misread' = misread \union {j}
    /\ UNCHANGED <<row, accepted, retriesTold, excuses>>

MailBad(j) ==
    /\ handler[j].pc = "mail"
    /\ Goto(j, "save")
    /\ UNCHANGED <<row, budget, historyVars>>

\* Mutant: everything the job asked for is marked.
SaveWanted(j, outcome) ==
    /\ handler[j].pc = "save" /\ outcome = "ok"
    /\ row' = [row EXCEPT ![j].notified = Wanted[j] \ {"RETRIED"}]
    /\ handler' = [handler EXCEPT ![j] = Idle]
    /\ UNCHANGED <<budget, historyVars>>

\* updateFrameworkTable: the columns of what was sent, and no others.
Save(j, outcome) ==
    LET h == handler[j] IN
    /\ h.pc = "save"
    /\ row' = IF outcome = "refused" THEN row
              ELSE [row EXCEPT ![j].notified = @ \union (h.infos \ {"RETRIED"}),
                               ![j].told = IF "RETRIED" \in h.infos THEN h.retries ELSE @]
    /\ IF outcome = "refused" THEN Failing(1) /\ Spend(1) /\ GiveUp(j)
       ELSE handler' = [handler EXCEPT ![j] = Idle] /\ UNCHANGED <<budget, excuses>>
    /\ UNCHANGED <<accepted, retriesTold, reported, misread>>

\* The process ends and is started again.
NotifierRestarts ==
    /\ \E j \in Jobs : handler[j].pc # "idle"
    /\ Failing(1) /\ Spend(1)
    /\ handler' = [j \in Jobs |-> Idle]
    /\ excuses' = [j \in Jobs |-> excuses[j] + IF handler[j].pc = "idle" THEN 0 ELSE 1]
    /\ UNCHANGED <<row, accepted, retriesTold, reported, misread>>

Outcomes == {"ok", "lost", "refused"}

\* The steps of the handler of j, but for the posts.
Work(j) == ReadLog(j) \/ NoJobInfo(j) \/ MailBad(j) \/ \E o \in {"ok", "refused"} : Save(j, o)

RowChanges ==
    \E j \in Jobs : \/ \E state \in {"RUNNING", "STOPPING"} \union Finals : StatusChanges(j, state)
                    \/ Retries(j) \/ RequestChanges(j) \/ StartsAnew(j)

(***************************************************************************)
(* Properties.                                                             *)
(***************************************************************************)
NoteTypeOK ==
    /\ \A j \in Jobs :
           /\ row[j].state \in {"WAITING", "RUNNING", "STOPPING"} \union Finals
           /\ row[j].notified \subseteq Wanted[j] \ {"RETRIED"}
           /\ row[j].retries \in 0..MaxRetries /\ row[j].told \in 0..MaxRetries
           /\ handler[j].infos \subseteq Wanted[j]
           /\ handler[j].pc = "idle" <=> handler[j].infos = {}
    /\ misread \subseteq DOMAIN Results

\* Whatever fails, is lost or restarts: a notification that the row says was sent has
\* been accepted by the Alertmanager, the number of retries included.
NotifiedMeansAccepted ==
    \A j \in Jobs :
        /\ \A k \in row[j].notified : accepted[j][k] > 0
        /\ row[j].told \in retriesTold[j]

\* A job's owner is told once: rounds do not overlap, so a notification is sent again
\* only after a failure between the post and the save, or a change of the request.
ToldOnce ==
    \A j \in Jobs, k \in Kinds \ {"RETRIED"} : accepted[j][k] <= 1 + excuses[j]

\* A validation job that was saved as notified has reported every node, the failed ones
\* as failed and no other node so, unless its logs could not be read or the post failed.
ResultsReported ==
    \A j \in DOMAIN Results \ misread :
        /\ reported[j].bad \subseteq {r.node : r \in {r \in Results[j] : ~r.passed}}
        /\ row[j].notified \intersect {"SUCCEEDED", "FAILED"} # {} =>
               \A r \in Results[j] : r.node \in (IF r.passed THEN reported[j].good ELSE reported[j].bad)

\* The end of a job that asked for it is notified in the end, whatever the rest of
\* the round runs into.
EndNotified ==
    \A j \in Jobs : \A k \in Wanted[j] \intersect Finals :
        row[j].state = k ~> accepted[j][k] > 0
=============================================================================
