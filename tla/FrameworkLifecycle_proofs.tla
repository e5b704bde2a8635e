--------------------- MODULE FrameworkLifecycle_proofs ----------------------
(***************************************************************************)
(* FrameworkController implements AttemptLifecycle, for any framework and  *)
(* any number of failures, lost answers, late timeouts, restarts, orders   *)
(* and deletions of pods, as long as nobody else deletes its ConfigMap;    *)
(* and, whoever deletes what, it retries no more than the policy allows.   *)
(***************************************************************************)
EXTENDS FrameworkController_proofs

(***************************************************************************)
(* The invariant: what one sync makes of a status is one move of the       *)
(* attempt, and a status is written before the next sync decides.          *)
(***************************************************************************)
\* What a sync may make of a task attempt.
TaskWritten(n, a) ==
    \/ Life!Advances(View(n), View(a))
    \/ Life!Retried(View(n), View(a), "task")
    \/ Life!Finished(View(n), View(a), "task")

\* A task to which nothing has happened, but that its attempt may end with that of the
\* framework.
Coded(n, a) ==
    /\ n.state = a.state /\ n.retried = a.retried /\ n.accounted = a.accounted
    /\ n.code = a.code \/ (a.code = NoCode /\ n.code = "FrameworkAttemptCompletion")

\* Half way through the tasks: those that are left have not moved.
Going(new, old, todo) ==
    /\ new \in Status /\ old \in Status
    /\ {Phase(new.state), Phase(old.state)} \subseteq Life!Underway
    /\ Life!Advances(FullView(new), FullView(old))
    /\ \A t \in Tasks \ todo : TaskWritten(new.tasks[t], old.tasks[t])
    /\ \A t \in todo : Coded(new.tasks[t], old.tasks[t])

\* What may be written over a status that is persisted: nothing that clients of
\* AttemptLifecycle see, or one of its moves.
Written(new, old) ==
    \/ new = old
    \/ old = NoStatus /\ new # NoStatus /\ FullView(new) = Life!New(0, 0)
    \/ /\ old # NoStatus /\ new # NoStatus
       /\ \/ FullView(new) = FullView(old)
          \/ Life!Proceeds(FullView(new), FullView(old))
          \/ Life!Completes(FullView(new), FullView(old))
          \/ Life!Retries(FullView(new), FullView(old))
          \/ Life!Finishes(FullView(new), FullView(old))

\* A delayed retry is still due when it is looked at again.
Due(s) == s.delayed => s.state = "AttemptCompleted" /\ RetryDecision(s, "framework").retry

\* The invariant of the moves: the expected status is one move ahead of the persisted one
\* at most, and so is the status that a sync is about to write.
MoveInv ==
    /\ expected # NoInfo => Written(expected.status, remote)
    /\ worker # Idle =>
          /\ worker.stage = "update" => Written(worker.status, expected.status)
          /\ worker.stage = "tasks" => Going(worker.status, expected.status, worker.todo)
    /\ \A s \in Held : Due(s)

(***************************************************************************)
(* What clients see of a status.                                           *)
(***************************************************************************)
\* The phases of the states.
LEMMA Phased ==
    ASSUME NEW st \in States
    PROVE  /\ Phase(st) \in Life!Phases
           /\ Phase(st) = "closing" <=> st \in Completing
           /\ Phase(st) = "over" <=> st = "AttemptCompleted"
           /\ Phase(st) = "done" <=> st = "Completed"
           /\ Phase(st) \in Life!Underway <=> st \notin Ended
           /\ Phase(st) = "open" <=> st \notin Completing \union Ended
           /\ Phase(st) = "open" <=> Rank(st) <= 4
           /\ Phase(st) = "closing" <=> Rank(st) \in 5..7
           /\ Phase(st) = "over" <=> Rank(st) = 8
           /\ Phase(st) = "done" <=> Rank(st) = 9
<1>1. Phase(st) = IF st \in Completing THEN "closing"
                  ELSE IF st = "AttemptCompleted" THEN "over"
                  ELSE IF st = "Completed" THEN "done" ELSE "open"
  BY DEF Phase, Completing
<1>2. /\ Phase(st) \in Life!Phases
      /\ Phase(st) = "closing" <=> st \in Completing
      /\ Phase(st) = "over" <=> st = "AttemptCompleted"
      /\ Phase(st) = "done" <=> st = "Completed"
      /\ Phase(st) \in Life!Underway <=> st \notin Ended
      /\ Phase(st) = "open" <=> st \notin Completing \union Ended
  BY <1>1 DEF Completing, Ended, Life!Phases, Life!Underway
<1>3. /\ st \in Completing <=> Rank(st) \in 5..7
      /\ st \notin Completing \union Ended <=> Rank(st) <= 4
      /\ st = "AttemptCompleted" <=> Rank(st) = 8
      /\ st = "Completed" <=> Rank(st) = 9
  BY Ranks, StatesListed DEF Completing, Ended
<1> QED BY <1>2, <1>3

\* What is seen of a task.
LEMMA Viewed ==
    ASSUME NEW ts \in TaskStatus
    PROVE  /\ View(ts) \in Life!Attempt
           /\ View(ts).number = ts.retried /\ View(ts).counted = ts.accounted
           /\ View(ts).phase = Phase(ts.state) /\ View(ts).code = ts.code
<1>1. Phase(ts.state) \in Life!Phases
  BY Phased DEF TaskStatus
<1> QED BY <1>1 DEF View, TaskStatus, Life!Attempt

\* What is seen of the framework.
LEMMA FullyViewed ==
    ASSUME NEW s \in Status
    PROVE  /\ s # NoStatus /\ FullView(s) # NoStatus /\ FullView(s) \in Life!Shown
           /\ FullView(s).number = s.retried /\ FullView(s).counted = s.accounted
           /\ FullView(s).phase = Phase(s.state) /\ FullView(s).code = s.code
           /\ FullView(s).tasks = [t \in Tasks |-> View(s.tasks[t])]
           /\ \A t \in Tasks : FullView(s).tasks[t] = View(s.tasks[t])
<1> DEFINE seen == [t \in Tasks |-> View(s.tasks[t])]
           v == [number |-> s.retried, counted |-> s.accounted, phase |-> Phase(s.state),
                 code |-> s.code, tasks |-> seen]
<1>1. s # NoStatus
  BY NotNothing
<1>2. \A t \in Tasks : View(s.tasks[t]) \in Life!Attempt
  BY Viewed DEF Status
<1>3. seen \in [Life!Tasks -> Life!Attempt]
  BY <1>2 DEF Life!Tasks, Tasks
<1>4. Phase(s.state) \in Life!Phases /\ s.retried \in Nat /\ s.accounted \in Nat
      /\ s.code \in Codes \union {NoCode}
  BY Phased DEF Status
<1>5. FullView(s) = v
  BY <1>1 DEF FullView
<1>6. seen = [t \in Tasks |-> View(s.tasks[t])] /\ \A t \in Tasks : seen[t] = View(s.tasks[t])
  OBVIOUS
<1> HIDE DEF seen
<1>7. v \in Life!Shown
  BY <1>3, <1>4 DEF Life!Shown
<1>8. DOMAIN v = {"number", "counted", "phase", "code", "tasks"}
  OBVIOUS
<1>9. DOMAIN NoStatus = {"status"}
  BY DEF NoStatus
<1>10. v # NoStatus
  <2>1. "number" \notin {"status"}
    OBVIOUS
  <2> QED BY <1>8, <1>9, <2>1
<1> QED BY <1>1, <1>5, <1>6, <1>7, <1>10

\* A status that differs only in what clients do not see.
LEMMA SeenAlike ==
    ASSUME NEW s \in Status, NEW n \in Status, n.tasks = s.tasks, n.retried = s.retried,
           n.accounted = s.accounted, n.code = s.code, Phase(n.state) = Phase(s.state)
    PROVE  FullView(n) = FullView(s)
BY NotNothing DEF FullView

\* What the completion of an attempt leaves as it is: what it counts.
LEMMA CompletionCounts ==
    /\ \A ts \in TaskStatus : \A force \in BOOLEAN, c \in Codes :
          CompleteTaskAttempt(ts, force, c).accounted = ts.accounted
    /\ \A s \in Status : \A force \in BOOLEAN, c \in Codes :
          LET n == CompleteFrameworkAttempt(s, force, c)
          IN  /\ n.accounted = s.accounted /\ n.delayed = s.delayed
              /\ \A t \in Tasks : n.tasks[t].accounted = s.tasks[t].accounted
<1>1. ASSUME NEW ts \in TaskStatus, NEW force \in BOOLEAN, NEW c \in Codes
      PROVE  CompleteTaskAttempt(ts, force, c).accounted = ts.accounted
  BY DEF CompleteTaskAttempt, WithCode, TaskStatus
<1>2. ASSUME NEW s \in Status, NEW force \in BOOLEAN, NEW c \in Codes
      PROVE  LET n == CompleteFrameworkAttempt(s, force, c)
             IN  /\ n.accounted = s.accounted /\ n.delayed = s.delayed
                 /\ \A t \in Tasks : n.tasks[t].accounted = s.tasks[t].accounted
  <2> DEFINE ended(ts) == LET coded == WithCode(ts, "FrameworkAttemptCompletion")
                          IN  IF force THEN [coded EXCEPT !.state = "Completed"] ELSE coded
             w == WithCode(s, c)
             m == IF force THEN "AttemptCompleted" ELSE "AttemptDeletionPending"
             all == [t \in Tasks |-> ended(s.tasks[t])]
             n == CompleteFrameworkAttempt(s, force, c)
  <2>1. w \in Status /\ w.accounted = s.accounted /\ w.delayed = s.delayed
    BY DEF WithCode, Status
  <2>2. \A ts \in TaskStatus : ended(ts).accounted = ts.accounted
    BY DEF WithCode, TaskStatus
  <2>3. \A t \in Tasks : s.tasks[t] \in TaskStatus
    BY DEF Status
  <2> HIDE DEF ended, w, m
  <2>4. n = [w EXCEPT !.state = m, !.tasks = all]
    BY DEF CompleteFrameworkAttempt, ended, w, m
  <2>5. \A t \in Tasks : all[t].accounted = s.tasks[t].accounted
    BY <2>2, <2>3
  <2> HIDE DEF n, all
  <2>6. n.accounted = s.accounted /\ n.delayed = s.delayed /\ n.tasks = all
    BY <2>1, <2>4 DEF Status
  <2> QED BY <2>5, <2>6 DEF n
<1> QED BY <1>1, <1>2

(***************************************************************************)
(* The moves of a task attempt.                                            *)
(***************************************************************************)
\* A task attempt that goes forward, or stays where it is.
LEMMA GoesForward ==
    ASSUME NEW a \in TaskStatus, NEW n \in TaskStatus,
           n.retried = a.retried, n.accounted = a.accounted,
           a.code # NoCode => n.code = a.code,
           n.state \in Ended => n.code # NoCode,
           Rank(n.state) >= Rank(a.state),
           a.state \in Ended \/ n.state = "Completed" => n.state = a.state
    PROVE  TaskWritten(n, a)
<1>1. a.state \in States /\ n.state \in States
  BY DEF TaskStatus
<1>2. Rank(a.state) \in 1..9 /\ Rank(n.state) \in 1..9
  BY <1>1, RankTyped
<1>3. \/ Phase(a.state) = "open" /\ Phase(n.state) \in {"open", "closing", "over"}
      \/ Phase(a.state) = "closing" /\ Phase(n.state) \in {"closing", "over"}
      \/ Phase(a.state) = "over" /\ Phase(n.state) = "over"
      \/ Phase(a.state) = "done" /\ Phase(n.state) = "done"
  <2>1. CASE a.state \in Ended
    BY <1>1, <2>1, Phased DEF Ended
  <2>2. CASE a.state \notin Ended
    <3>1. n.state # "Completed" /\ Rank(n.state) <= 8 /\ Rank(a.state) <= 7
      BY <1>1, <1>2, <2>2, Ranks, StatesListed DEF Ended
    <3> HIDE DEF Ended
    <3> QED BY <1>1, <1>2, <3>1, Phased
  <2> QED BY <2>1, <2>2
<1>4. Phase(n.state) \in {"over", "done"} => n.code # NoCode
  BY <1>1, Phased DEF Ended
<1>5. Life!Same(View(n), View(a))
  BY <1>4, Viewed DEF Life!Same
<1>6. Life!Advances(View(n), View(a))
  BY <1>3, <1>5, Viewed DEF Life!Advances
<1> QED BY <1>6 DEF TaskWritten

\* A task to which nothing has happened has not gone back.
LEMMA CodedIsWritten ==
    ASSUME NEW a \in TaskStatus, NEW n \in TaskStatus, Coded(n, a),
           a.state \in Ended => a.code # NoCode
    PROVE  TaskWritten(n, a)
<1>1. a.code # NoCode => n.code = a.code
  BY DEF Coded
<1>2. n.state \in Ended => n.code # NoCode
  BY <1>1 DEF Coded
<1>3. Rank(n.state) >= Rank(a.state)
  BY RankTyped DEF Coded, TaskStatus
<1> QED BY <1>1, <1>2, <1>3, GoesForward DEF Coded

\* Nor has one when its attempt ends with that of the framework.
LEMMA CodedAgain ==
    ASSUME NEW a \in TaskStatus, NEW m \in TaskStatus, NEW n \in TaskStatus, Coded(n, m)
    PROVE  /\ Coded(m, a) => Coded(n, a)
           /\ TaskWritten(m, a) => TaskWritten(n, a)
<1>1. Coded(m, a) => Coded(n, a)
  BY DEF Coded
<1>2. /\ n.state = m.state /\ n.retried = m.retried /\ n.accounted = m.accounted
      /\ n.code \in {m.code, "FrameworkAttemptCompletion"}
      /\ m.code # NoCode => n.code = m.code
  BY DEF Coded
<1>3. "FrameworkAttemptCompletion" # NoCode
  BY DEF NoCode
<1>4. /\ View(n).number = View(m).number /\ View(n).counted = View(m).counted
      /\ View(n).phase = View(m).phase
      /\ View(n).code \in {View(m).code, "FrameworkAttemptCompletion"}
      /\ View(m).code # NoCode => View(n).code = View(m).code
  <2>1. /\ View(n).number = n.retried /\ View(n).counted = n.accounted
        /\ View(n).phase = Phase(n.state) /\ View(n).code = n.code
        /\ View(m).number = m.retried /\ View(m).counted = m.accounted
        /\ View(m).phase = Phase(m.state) /\ View(m).code = m.code
    BY Viewed
  <2> QED BY <1>2, <2>1
<1>5. Life!Same(View(m), View(a)) => Life!Same(View(n), View(a))
  BY <1>3, <1>4 DEF Life!Same
<1>6. Life!Advances(View(m), View(a)) => Life!Advances(View(n), View(a))
  BY <1>4, <1>5 DEF Life!Advances
<1>7. Life!Retried(View(m), View(a), "task") => Life!Retried(View(n), View(a), "task")
  BY <1>4 DEF Life!Retried
<1>8. Life!Finished(View(m), View(a), "task") => Life!Finished(View(n), View(a), "task")
  BY <1>4, <1>5 DEF Life!Finished
<1> QED BY <1>1, <1>6, <1>7, <1>8 DEF TaskWritten

\* The decision of the controller is that of the policy.
LEMMA PolicyDecides ==
    ASSUME job \in Frameworks, NEW s, NEW v, NEW of \in {"framework", "task"},
           s.code \in Codes \union {NoCode}, s.accounted \in Nat, s.code # NoCode,
           v.code = s.code, v.counted = s.accounted
    PROVE  /\ RetryDecision(s, of).retry <=> ~Life!GivenUp(v, of)
           /\ RetryDecision(s, of).counted <=> ~Life!Free(v, of)
<1>1. /\ MaxRetryCount[of] \in {-2, -1} \union Nat /\ Fancy[of] \in BOOLEAN
  BY JobFacts DEF Framework, MaxRetryCount, Fancy
<1> DEFINE free == Fancy[of] /\ s.code \in Transient
           max == MaxRetryCount[of]
<1>2. /\ RetryDecision(s, of).counted <=> ~free
      /\ RetryDecision(s, of).retry <=>
            /\ s.code \notin {"StopFrameworkRequested", "FrameworkAttemptCompletion"}
            /\ ~(Fancy[of] /\ s.code \in Permanent)
            /\ \/ free \/ max = -2
               \/ s.code # "Succeeded" /\ (max = -1 \/ s.accounted < max)
  BY DEF RetryDecision
<1>3. Life!Free(v, of) <=> free
  BY DEF Life!Free, Fancy
<1>4. Life!GivenUp(v, of) <=>
        \/ s.code \in {"StopFrameworkRequested", "FrameworkAttemptCompletion"}
        \/ Fancy[of] /\ s.code \in Permanent
        \/ ~free /\ max # -2 /\ (s.code = "Succeeded" \/ max \in 0..s.accounted)
  BY <1>3 DEF Life!GivenUp, Fancy, MaxRetryCount
<1> HIDE DEF free, max
<1>5. max \in {-2, -1} \union Nat
  BY <1>1 DEF max
<1>6. max # -2 => (max \in 0..s.accounted <=> ~(max = -1 \/ s.accounted < max))
  BY <1>5
<1> QED BY <1>2, <1>3, <1>4, <1>6

\* The next attempt of a task.
LEMMA NewTaskWritten ==
    ASSUME job \in Frameworks, NEW a \in TaskStatus, NEW n \in TaskStatus,
           a.state = "AttemptCompleted", a.code # NoCode, RetryDecision(a, "task").retry,
           n = NewTaskStatus(a.retried + 1,
                             a.accounted + IF RetryDecision(a, "task").counted THEN 1 ELSE 0)
    PROVE  TaskWritten(n, a)
<1>1. a.code \in Codes \union {NoCode} /\ a.accounted \in Nat /\ a.state \in States
  BY DEF TaskStatus
<1>2. /\ ~Life!GivenUp(View(a), "task")
      /\ RetryDecision(a, "task").counted <=> ~Life!Free(View(a), "task")
  BY <1>1, Viewed, PolicyDecides
<1>3. /\ n.retried = a.retried + 1 /\ n.state = "AttemptCreationPending" /\ n.code = NoCode
      /\ n.accounted = a.accounted + IF RetryDecision(a, "task").counted THEN 1 ELSE 0
  BY DEF NewTaskStatus
<1>4. Phase(n.state) = "open" /\ Phase(a.state) = "over"
  BY <1>3 DEF Phase, Completing
<1>5. Life!Retried(View(n), View(a), "task")
  BY <1>2, <1>3, <1>4, Viewed DEF Life!Retried
<1> QED BY <1>5 DEF TaskWritten

\* The last attempt of a task.
LEMMA LastTaskWritten ==
    ASSUME job \in Frameworks, NEW a \in TaskStatus, NEW n \in TaskStatus,
           a.state = "AttemptCompleted", a.code # NoCode, ~RetryDecision(a, "task").retry,
           n.state = "Completed", n.retried = a.retried, n.accounted = a.accounted, n.code = a.code
    PROVE  TaskWritten(n, a)
<1>1. a.code \in Codes \union {NoCode} /\ a.accounted \in Nat /\ a.state \in States
  BY DEF TaskStatus
<1>2. Life!GivenUp(View(a), "task")
  BY <1>1, Viewed, PolicyDecides
<1>3. Phase(n.state) = "done" /\ Phase(a.state) = "over"
  BY DEF Phase, Completing
<1>4. Life!Same(View(n), View(a))
  BY Viewed DEF Life!Same
<1>5. Life!Finished(View(n), View(a), "task")
  BY <1>2, <1>3, <1>4, Viewed DEF Life!Finished
<1> QED BY <1>5 DEF TaskWritten

(***************************************************************************)
(* The moves of the framework.                                             *)
(***************************************************************************)
\* A new status, as clients see it.
LEMMA NewIsSeenNew ==
    ASSUME NEW retried \in Nat, NEW accounted \in Nat
    PROVE  /\ FullView(NewStatus(retried, accounted)) = Life!New(retried, accounted)
           /\ ~NewStatus(retried, accounted).delayed
           /\ NewStatus(retried, accounted).accounted = accounted
           /\ NewStatus(retried, accounted).code = NoCode
           /\ \A t \in Tasks : NewStatus(retried, accounted).tasks[t].accounted = 0
<1> DEFINE n == NewStatus(retried, accounted)
           seen == [t \in Tasks |-> View(n.tasks[t])]
           new == [t \in Tasks |-> Life!NewTask]
<1>1. n \in Status /\ n.retried = retried /\ n.state = "AttemptCreationPending"
  BY NewStatusIsSound
<1>2. /\ n.accounted = accounted /\ n.code = NoCode /\ n.delayed = FALSE
      /\ \A t \in Tasks : n.tasks[t] = NewTaskStatus(0, 0)
  BY DEF NewStatus
<1>3. View(NewTaskStatus(0, 0)) = Life!NewTask
  BY DEF View, NewTaskStatus, Phase, Completing, Life!NewTask
<1>4. seen = new
  BY <1>2, <1>3
<1>5. Phase("AttemptCreationPending") = "open"
  BY DEF Phase, Completing
<1> HIDE DEF n
<1>6. FullView(n) = [number |-> retried, counted |-> accounted, phase |-> "open",
                     code |-> NoCode, tasks |-> seen]
  BY <1>1, <1>2, <1>5, NotNothing DEF FullView
<1> HIDE DEF seen
<1>7. FullView(n) = Life!New(retried, accounted)
  BY <1>4, <1>6 DEF Life!New, Life!Tasks, Tasks
<1>8. \A t \in Tasks : n.tasks[t].accounted = 0
  BY <1>2 DEF NewTaskStatus
<1> QED BY <1>2, <1>7, <1>8 DEF n

\* The attempt is over, with all its tasks.
LEMMA ForcedCompletes ==
    ASSUME NEW s \in Status, NEW c \in Codes, s.state \notin Ended
    PROVE  Written(CompleteFrameworkAttempt(s, TRUE, c), s)
<1> DEFINE n == CompleteFrameworkAttempt(s, TRUE, c)
<1>1. /\ n \in Status /\ n.state = "AttemptCompleted" /\ n.retried = s.retried
      /\ n.code = IF s.code = NoCode THEN c ELSE s.code
      /\ \A t \in Tasks :
            /\ n.tasks[t].state = "Completed" /\ n.tasks[t].retried = s.tasks[t].retried
            /\ n.tasks[t].code = IF s.tasks[t].code = NoCode
                                 THEN "FrameworkAttemptCompletion" ELSE s.tasks[t].code
  <2>1. /\ n \in Status /\ n.retried = s.retried
        /\ n.state = IF TRUE THEN "AttemptCompleted" ELSE "AttemptDeletionPending"
        /\ n.code = IF s.code = NoCode THEN c ELSE s.code
    BY FrameworkCompletion, Zenon
  <2>2. \A t \in Tasks :
            /\ n.tasks[t].state = IF TRUE THEN "Completed" ELSE s.tasks[t].state
            /\ n.tasks[t].retried = s.tasks[t].retried /\ n.tasks[t].uid = s.tasks[t].uid
            /\ n.tasks[t].code = IF s.tasks[t].code = NoCode
                                 THEN "FrameworkAttemptCompletion" ELSE s.tasks[t].code
    BY FrameworkCompletion, Zenon
  <2> HIDE DEF n
  <2> QED BY <2>1, <2>2
<1>2. n.accounted = s.accounted /\ \A t \in Tasks : n.tasks[t].accounted = s.tasks[t].accounted
  BY CompletionCounts
<1> HIDE DEF n
<1>3. /\ n.code # NoCode /\ \A t \in Tasks : n.tasks[t].code # NoCode
      /\ Phase("AttemptCompleted") = "over" /\ Phase("Completed") = "done"
      /\ Phase(s.state) \in Life!Underway
      /\ Phase(s.state) \in {"open", "closing"}
  BY <1>1, Phased, NoCodeIsNoCode, StatesListed DEF Status, NoCode, Life!Underway
<1>4. Life!Same(FullView(n), FullView(s))
  BY <1>1, <1>2, <1>3, FullyViewed DEF Life!Same
<1>5. Life!Advances(FullView(n), FullView(s))
  BY <1>1, <1>3, <1>4, FullyViewed DEF Life!Advances
<1>6. ASSUME NEW t \in Tasks
      PROVE  /\ FullView(n).tasks[t].phase = "done"
             /\ Life!Same(FullView(n).tasks[t], FullView(s).tasks[t])
  <2>1. /\ n.tasks[t] \in TaskStatus /\ s.tasks[t] \in TaskStatus
        /\ FullView(n).tasks[t] = View(n.tasks[t]) /\ FullView(s).tasks[t] = View(s.tasks[t])
    BY <1>1, FullyViewed DEF Status
  <2>2. /\ View(n.tasks[t]).number = View(s.tasks[t]).number
        /\ View(n.tasks[t]).counted = View(s.tasks[t]).counted
        /\ View(n.tasks[t]).phase = "done" /\ View(n.tasks[t]).code # NoCode
        /\ View(s.tasks[t]).code # NoCode => View(n.tasks[t]).code = View(s.tasks[t]).code
    BY <1>1, <1>2, <1>3, <2>1, Viewed
  <2> QED BY <2>1, <2>2 DEF Life!Same
<1>7. Life!Completes(FullView(n), FullView(s))
  BY <1>1, <1>3, <1>5, <1>6, FullyViewed DEF Life!Completes, Life!Tasks, Tasks
<1> QED BY <1>1, <1>7, NotNothing DEF Written, n

\* The next attempt.
LEMMA NewAttemptWritten ==
    ASSUME job \in Frameworks, NEW s \in Status, s.state = "AttemptCompleted", s.code # NoCode,
           RetryDecision(s, "framework").retry
    PROVE  LET accounted == s.accounted + IF RetryDecision(s, "framework").counted THEN 1 ELSE 0
           IN  Written(NewStatus(s.retried + 1, accounted), s)
<1> DEFINE counted == IF RetryDecision(s, "framework").counted THEN 1 ELSE 0
           accounted == s.accounted + counted
           n == NewStatus(s.retried + 1, accounted)
<1>1. s.code \in Codes \union {NoCode} /\ s.accounted \in Nat /\ s.retried \in Nat
      /\ accounted \in Nat
  BY DEF Status
<1>2. /\ ~Life!GivenUp(FullView(s), "framework")
      /\ RetryDecision(s, "framework").counted <=> ~Life!Free(FullView(s), "framework")
  BY <1>1, FullyViewed, PolicyDecides
<1>3. n \in Status /\ FullView(n) = Life!New(s.retried + 1, accounted)
  BY <1>1, NewIsSeenNew, NewStatusIsSound
<1>4. /\ FullView(n).number = s.retried + 1 /\ FullView(n).counted = accounted
      /\ FullView(n).phase = "open" /\ FullView(n).code = NoCode
  BY <1>3 DEF Life!New
<1>5. Phase(s.state) = "over"
  BY DEF Phase, Completing
<1> HIDE DEF n
<1>6. accounted = s.accounted + IF Life!Free(FullView(s), "framework") THEN 0 ELSE 1
  BY <1>2
<1> HIDE DEF accounted
<1>7. Life!Retried(FullView(n), FullView(s), "framework")
  BY <1>2, <1>4, <1>5, <1>6, FullyViewed DEF Life!Retried
<1>8. Life!Retries(FullView(n), FullView(s))
  BY <1>3, <1>4, <1>7 DEF Life!Retries
<1> QED BY <1>3, <1>8, NotNothing DEF Written, n, accounted

\* The last attempt.
LEMMA LastAttemptWritten ==
    ASSUME job \in Frameworks, NEW s \in Status, s.state = "AttemptCompleted", s.code # NoCode,
           ~RetryDecision(s, "framework").retry
    PROVE  Written([s EXCEPT !.state = "Completed"], s)
<1> DEFINE n == [s EXCEPT !.state = "Completed"]
<1>1. s.code \in Codes \union {NoCode} /\ s.accounted \in Nat /\ s.retried \in Nat
  BY DEF Status
<1>2. Life!GivenUp(FullView(s), "framework")
  BY <1>1, FullyViewed, PolicyDecides
<1>3. /\ n \in Status /\ n.state = "Completed" /\ n.retried = s.retried
      /\ n.accounted = s.accounted /\ n.code = s.code /\ n.tasks = s.tasks
  BY StatesListed DEF Status
<1>4. Phase("Completed") = "done" /\ Phase(s.state) = "over"
  BY DEF Phase, Completing
<1> HIDE DEF n
<1>5. FullView(n).tasks = FullView(s).tasks
  BY <1>3, FullyViewed
<1>6. Life!Same(FullView(n), FullView(s))
  BY <1>3, FullyViewed DEF Life!Same
<1>7. Life!Finishes(FullView(n), FullView(s))
  BY <1>2, <1>3, <1>4, <1>5, <1>6, FullyViewed DEF Life!Finishes, Life!Finished
<1> QED BY <1>3, <1>7, NotNothing DEF Written, n

\* An attempt that goes on, before its tasks are looked at.
LEMMA GoesOnIsGoing ==
    ASSUME NEW s \in Status, NEW n \in Status, n.retried = s.retried, n.accounted = s.accounted,
           s.code # NoCode => n.code = s.code, Rank(n.state) >= Rank(s.state),
           n.state \notin Ended, \A t \in Tasks : Coded(n.tasks[t], s.tasks[t])
    PROVE  Going(n, s, Tasks)
<1>1. /\ s.state \in States /\ n.state \in States
      /\ Rank(s.state) \in 1..9 /\ Rank(n.state) \in 1..9
  BY RankTyped DEF Status
<1>2. Rank(n.state) <= 7
  BY <1>1, Ranks, StatesListed DEF Ended
<1>3. /\ Phase(n.state) \in {"open", "closing"} /\ Phase(s.state) \in {"open", "closing"}
      /\ Phase(s.state) = "closing" => Phase(n.state) = "closing"
  BY <1>1, <1>2, Phased
<1>4. Life!Same(FullView(n), FullView(s))
  BY <1>3, FullyViewed DEF Life!Same
<1>5. Life!Advances(FullView(n), FullView(s))
  BY <1>3, <1>4, FullyViewed DEF Life!Advances
<1> QED BY <1>3, <1>5 DEF Going, Life!Underway

\* After the last of its tasks an attempt that goes on is written.
LEMMA GoneIsWritten ==
    ASSUME NEW s, NEW n, Going(n, s, {})
    PROVE  Written(n, s)
<1>1. n \in Status /\ s \in Status
  BY DEF Going
<1>2. \A t \in Tasks : /\ FullView(n).tasks[t] = View(n.tasks[t])
                       /\ FullView(s).tasks[t] = View(s.tasks[t])
                       /\ TaskWritten(n.tasks[t], s.tasks[t])
  BY <1>1, FullyViewed DEF Going
<1>3. /\ FullView(n).phase \in Life!Underway /\ FullView(s).phase \in Life!Underway
      /\ Life!Advances(FullView(n), FullView(s))
  BY <1>1, FullyViewed DEF Going
<1>4. Life!Proceeds(FullView(n), FullView(s))
  BY <1>2, <1>3 DEF Life!Proceeds, TaskWritten, Life!Tasks, Tasks
<1> QED BY <1>1, <1>4, NotNothing DEF Written

\* What a step of the sync of the framework does: nothing yet, or one move.
FrameworkMoves ==
    \/ Abort \/ Cleans
    \/ \E new : Decide(new) /\ Written(new, Status0) /\ Due(new)
    \/ \E new : GoOn(new) /\ Going(new, Status0, Tasks) /\ Due(new)

\* It does so when it looks at the attempt as a whole ...
LEMMA DecidesOneMove ==
    ASSUME StatusInv, Syncing, Status0 # NoStatus => Due(Status0),
           \/ CreateStatus \/ BackUpGracePeriod \/ SkipCompleted \/ WaitForConfigMap
           \/ ConfigMapDisappeared \/ CompleteFramework \/ DelayRetry \/ RetryFramework
    PROVE  FrameworkMoves
<1>1. /\ job \in Frameworks
      /\ Status0 # NoStatus => Status0 \in Status /\ Sound(Status0)
  BY SyncFacts
<1>2. CASE CreateStatus
  <2> DEFINE n == NewStatus(0, 0)
  <2>1. Status0 = NoStatus /\ Decide(n)
    BY <1>2 DEF CreateStatus
  <2>2. n \in Status /\ FullView(n) = Life!New(0, 0) /\ ~n.delayed
    BY NewStatusIsSound, NewIsSeenNew
  <2> HIDE DEF n
  <2>3. Written(n, Status0) /\ Due(n)
    BY <2>1, <2>2, NotNothing DEF Written, Due
  <2> QED BY <2>1, <2>3 DEF FrameworkMoves
<1>3. CASE SkipCompleted \/ WaitForConfigMap
  <2>1. Decide(Status0) /\ Status0 # NoStatus
    BY <1>3 DEF SkipCompleted, WaitForConfigMap, Settled
  <2> QED BY <2>1 DEF FrameworkMoves, Written
<1>4. CASE BackUpGracePeriod
  <2> DEFINE n == [Status0 EXCEPT !.graced = GracePeriod]
  <2>1. Status0 \in Status /\ Due(Status0) /\ Decide(n)
    BY <1>1, <1>4 DEF BackUpGracePeriod
  <2>2. GracePeriod \in BOOLEAN
    BY <1>1, JobFacts
  <2>3. /\ n \in Status /\ n.tasks = Status0.tasks /\ n.retried = Status0.retried
        /\ n.accounted = Status0.accounted /\ n.code = Status0.code /\ n.state = Status0.state
        /\ n.delayed = Status0.delayed
    BY <2>1, <2>2 DEF Status
  <2> HIDE DEF n
  <2>4. FullView(n) = FullView(Status0)
    BY <2>1, <2>3, SeenAlike
  <2>5. RetryDecision(n, "framework") = RetryDecision(Status0, "framework")
    BY <2>3 DEF RetryDecision
  <2> QED BY <2>1, <2>3, <2>4, <2>5, NotNothing DEF FrameworkMoves, Written, Due
<1>5. CASE ConfigMapDisappeared
  <2> DEFINE n == CompleteFrameworkAttempt(Status0, TRUE, "ConfigMapExternalDeleted")
  <2>1. Status0 \in Status /\ Status0.state \notin Ended /\ Decide(n) /\ Due(Status0)
    BY <1>1, <1>5 DEF ConfigMapDisappeared, Settled
  <2>2. "ConfigMapExternalDeleted" \in Codes
    BY DEF Codes, Transient
  <2>3. Written(n, Status0)
    BY <2>1, <2>2, ForcedCompletes
  <2>4. n.delayed = Status0.delayed
    BY <2>1, <2>2, CompletionCounts
  <2> HIDE DEF n
  <2> QED BY <2>1, <2>3, <2>4 DEF FrameworkMoves, Due, Ended
<1>6. ASSUME Settled, Status0.state = "AttemptCompleted"
      PROVE  /\ Status0 \in Status /\ Status0.code # NoCode /\ Due(Status0)
             /\ Status0.delayed => Decision0.retry
  BY <1>1, <1>6 DEF Settled, Sound, Ended, Due, Decision0
<1>7. CASE CompleteFramework
  <2> DEFINE n == [Status0 EXCEPT !.state = "Completed"]
  <2>1. /\ Status0 \in Status /\ Status0.state = "AttemptCompleted" /\ Status0.code # NoCode
        /\ ~RetryDecision(Status0, "framework").retry /\ ~Status0.delayed /\ Decide(n)
    BY <1>6, <1>7 DEF CompleteFramework, Decision0
  <2>2. Written(n, Status0)
    BY <1>1, <2>1, LastAttemptWritten
  <2>3. n.delayed = Status0.delayed
    BY <2>1 DEF Status
  <2> HIDE DEF n
  <2> QED BY <2>1, <2>2, <2>3 DEF FrameworkMoves, Due
<1>8. CASE DelayRetry
  <2> DEFINE n == [Status0 EXCEPT !.delayed = TRUE]
  <2>1. /\ Status0 \in Status /\ Status0.state = "AttemptCompleted"
        /\ RetryDecision(Status0, "framework").retry /\ Decide(n)
    BY <1>6, <1>8 DEF DelayRetry, Decision0
  <2>2. /\ n \in Status /\ n.tasks = Status0.tasks /\ n.retried = Status0.retried
        /\ n.accounted = Status0.accounted /\ n.code = Status0.code /\ n.state = Status0.state
    BY <2>1 DEF Status
  <2> HIDE DEF n
  <2>3. FullView(n) = FullView(Status0)
    BY <2>1, <2>2, SeenAlike
  <2>4. RetryDecision(n, "framework") = RetryDecision(Status0, "framework")
    BY <2>2 DEF RetryDecision
  <2> QED BY <2>1, <2>2, <2>3, <2>4, NotNothing DEF FrameworkMoves, Written, Due
<1>9. CASE RetryFramework
  <2> DEFINE accounted == Status0.accounted + IF Decision0.counted THEN 1 ELSE 0
             n == NewStatus(Status0.retried + 1, accounted)
  <2>1. /\ Status0 \in Status /\ Status0.state = "AttemptCompleted" /\ Status0.code # NoCode
        /\ Decision0.retry /\ Decide(n)
    BY <1>6, <1>9 DEF RetryFramework
  <2>2. Written(n, Status0)
    BY <1>1, <2>1, NewAttemptWritten DEF Decision0
  <2>3. Status0.retried + 1 \in Nat /\ accounted \in Nat
    BY <2>1 DEF Status
  <2>4. ~n.delayed
    BY <2>3, NewIsSeenNew
  <2> HIDE DEF n
  <2> QED BY <2>1, <2>2, <2>4 DEF FrameworkMoves, Due
<1> QED BY <1>2, <1>3, <1>4, <1>5, <1>7, <1>8, <1>9

\* ... when it calls the API server for its ConfigMap ...
LEMMA CallsOneMove ==
    ASSUME StatusInv, Syncing, Status0 # NoStatus => Due(Status0),
           CleanUpConfigMap \/ GiveUpOnConfigMap \/ StopBeforeCreation \/ CreateConfigMap
    PROVE  FrameworkMoves
<1>1. Status0 # NoStatus => Status0 \in Status /\ Sound(Status0)
  BY SyncFacts
<1> SUFFICES ASSUME ~Abort PROVE FrameworkMoves
  BY DEF FrameworkMoves
<1>2. CASE CleanUpConfigMap
  BY <1>2 DEF CleanUpConfigMap, Cleans, FrameworkMoves
<1>3. CASE GiveUpOnConfigMap \/ StopBeforeCreation
  <2>1. Status0 \in Status /\ Status0.state \notin Ended /\ Due(Status0)
    BY <1>1, <1>3 DEF GiveUpOnConfigMap, StopBeforeCreation, Settled, Ended
  <2>2. PICK c \in {"StopFrameworkRequested", "ConfigMapCreationTimeout"} :
            Decide(CompleteFrameworkAttempt(Status0, TRUE, c))
    BY <1>3 DEF GiveUpOnConfigMap, StopBeforeCreation
  <2> DEFINE n == CompleteFrameworkAttempt(Status0, TRUE, c)
  <2>3. c \in Codes
    BY DEF Codes, Transient, Permanent
  <2>4. Written(n, Status0)
    BY <2>1, <2>3, ForcedCompletes
  <2>5. n.delayed = Status0.delayed
    BY <2>1, <2>3, CompletionCounts
  <2>6. Decide(n)
    BY <2>2
  <2> HIDE DEF n
  <2> QED BY <2>1, <2>4, <2>5, <2>6 DEF FrameworkMoves, Due, Ended
<1>4. CASE CreateConfigMap
  <2> DEFINE u == uids.cm + 1
             n == [Status0 EXCEPT !.uid = u, !.state = "AttemptCreationRequested"]
  <2>1. Status0 \in Status /\ Due(Status0) /\ Status0.state = "AttemptCreationPending"
    BY <1>1, <1>4 DEF CreateConfigMap, Settled
  <2>2. u \in Nat /\ "AttemptCreationRequested" \in States
    BY StatesListed DEF StatusInv, TypeOK
  <2>3. Decide(n)
    <3>1. /\ NewConfigMap
          /\ Decide([Status0 EXCEPT !.uid = cm'.uid, !.state = "AttemptCreationRequested"])
      BY <1>4 DEF CreateConfigMap
    <3>2. cm'.uid = u
      BY <3>1 DEF NewConfigMap, u
    <3> QED BY <3>1, <3>2
  <2> HIDE DEF u
  <2>4. /\ n \in Status /\ n.state = "AttemptCreationRequested" /\ n.retried = Status0.retried
        /\ n.accounted = Status0.accounted /\ n.code = Status0.code /\ n.tasks = Status0.tasks
        /\ n.delayed = Status0.delayed
    BY <2>1, <2>2 DEF Status
  <2> HIDE DEF n
  <2>5. Phase("AttemptCreationRequested") = Phase("AttemptCreationPending")
    BY DEF Phase, Completing
  <2>6. FullView(n) = FullView(Status0)
    BY <2>1, <2>4, <2>5, SeenAlike
  <2> QED BY <2>1, <2>3, <2>4, <2>6, NotNothing DEF FrameworkMoves, Written, Due
<1> QED BY <1>2, <1>3, <1>4

\* ... and when it goes on with the tasks.
LEMMA GoesOnWithOneMove ==
    ASSUME StatusInv, Syncing, Status0 # NoStatus => Due(Status0),
           RequestConfigMapDeletion \/ SyncAttempt \/ ConfigMapDeleting
    PROVE  FrameworkMoves
<1> SUFFICES ASSUME ~Abort PROVE FrameworkMoves
  BY DEF FrameworkMoves
<1>1. /\ Status0 \in Status /\ Sound(Status0) /\ Due(Status0) /\ Status0.state \notin Ended
      /\ job \in Frameworks
  BY SyncFacts
  DEF RequestConfigMapDeletion, SyncAttempt, ConfigMapDeleting, Settled, Ended
<1>2. ~Status0.delayed /\ Status0.state \in States /\ Rank(Status0.state) \in 1..9
  BY <1>1, RankTyped DEF Due, Ended, Status
<1>3. ASSUME NEW n \in Status, GoOn(n), n.retried = Status0.retried,
             n.accounted = Status0.accounted, n.delayed = Status0.delayed,
             Status0.code # NoCode => n.code = Status0.code,
             Rank(n.state) >= Rank(Status0.state), n.state \notin Ended,
             \A t \in Tasks : Coded(n.tasks[t], Status0.tasks[t])
      PROVE  FrameworkMoves
  <2>1. Going(n, Status0, Tasks)
    BY <1>1, <1>3, GoesOnIsGoing
  <2> QED BY <1>2, <1>3, <2>1 DEF FrameworkMoves, Due
<1>4. ASSUME NEW n, n.tasks = Status0.tasks
      PROVE  \A t \in Tasks : Coded(n.tasks[t], Status0.tasks[t])
  BY <1>4 DEF Coded
<1>5. CASE RequestConfigMapDeletion
  <2> DEFINE n == [Status0 EXCEPT !.state = "AttemptDeletionRequested"]
  <2>1. /\ n \in Status /\ n.state = "AttemptDeletionRequested" /\ n.tasks = Status0.tasks
        /\ n.code = Status0.code /\ n.retried = Status0.retried
        /\ n.accounted = Status0.accounted /\ n.delayed = Status0.delayed
    BY <1>1, StatesListed DEF Status
  <2>2. GoOn(n) /\ Status0.state = "AttemptDeletionPending"
    BY <1>5 DEF RequestConfigMapDeletion
  <2> HIDE DEF n
  <2> QED BY <1>3, <1>4, <2>1, <2>2, Ranks DEF Ended
<1>6. CASE ConfigMapDeleting
  <2> DEFINE n == [WithCode(Status0, "ConfigMapExternalDeleted") EXCEPT !.state = "AttemptDeleting"]
  <2>1. /\ n \in Status /\ n.state = "AttemptDeleting" /\ n.tasks = Status0.tasks
        /\ n.retried = Status0.retried /\ n.accounted = Status0.accounted
        /\ n.delayed = Status0.delayed
        /\ Status0.code # NoCode => n.code = Status0.code
    BY <1>1, StatesListed DEF Status, WithCode, Codes, Transient
  <2>2. GoOn(n)
    BY <1>6 DEF ConfigMapDeleting
  <2> HIDE DEF n
  <2>3. Rank(n.state) >= Rank(Status0.state) /\ n.state \notin Ended
    BY <1>1, <1>2, <2>1, Ranks, StatesListed DEF Ended
  <2> QED BY <1>3, <1>4, <2>1, <2>2, <2>3
<1>7. CASE SyncAttempt
  <2> DEFINE s == IF Status0.state = "AttemptCreationRequested"
                  THEN [Status0 EXCEPT !.state = "AttemptPreparing"] ELSE Status0
  <2>1. /\ s \in Status /\ s.tasks = Status0.tasks /\ s.uid = Status0.uid
        /\ s.retried = Status0.retried /\ s.code = Status0.code
        /\ s.accounted = Status0.accounted /\ s.delayed = Status0.delayed
        /\ s.state = IF Status0.state = "AttemptCreationRequested" THEN "AttemptPreparing"
                     ELSE Status0.state
    BY <1>1, StatesListed DEF Status
  <2>2. \/ GoOn(s)
        \/ s.state \notin Completing /\ GoOn(CompleteFrameworkAttempt(s, FALSE, "StopFrameworkRequested"))
        \/ s.state \notin Completing /\
           \E c \in TriggeredCodes(s) : GoOn(CompleteFrameworkAttempt(s, FALSE, c))
    BY <1>7 DEF SyncAttempt
  <2> HIDE DEF s
  <2>3. Rank(s.state) >= Rank(Status0.state) /\ s.state \notin Ended
    BY <1>1, <1>2, <2>1, Ranks DEF Ended
  <2>4. ASSUME NEW c \in Codes, s.state \notin Completing,
               GoOn(CompleteFrameworkAttempt(s, FALSE, c))
        PROVE  FrameworkMoves
    <3> DEFINE n == CompleteFrameworkAttempt(s, FALSE, c)
    <3>1. /\ n \in Status /\ n.retried = s.retried
          /\ n.state = IF FALSE THEN "AttemptCompleted" ELSE "AttemptDeletionPending"
          /\ n.code = IF s.code = NoCode THEN c ELSE s.code
      BY <2>1, FrameworkCompletion, Zenon
    <3>2. \A t \in Tasks :
              /\ n.tasks[t].state = IF FALSE THEN "Completed" ELSE s.tasks[t].state
              /\ n.tasks[t].retried = s.tasks[t].retried /\ n.tasks[t].uid = s.tasks[t].uid
              /\ n.tasks[t].code = IF s.tasks[t].code = NoCode
                                   THEN "FrameworkAttemptCompletion" ELSE s.tasks[t].code
      BY <2>1, FrameworkCompletion, Zenon
    <3>3. /\ n.accounted = s.accounted /\ n.delayed = s.delayed
          /\ \A t \in Tasks : n.tasks[t].accounted = s.tasks[t].accounted
      BY <2>1, CompletionCounts
    <3>4. GoOn(n)
      BY <2>4
    <3> HIDE DEF n
    <3>5. \A t \in Tasks : Coded(n.tasks[t], Status0.tasks[t])
      BY <2>1, <3>2, <3>3 DEF Coded
    <3>6. Rank(n.state) >= Rank(Status0.state) /\ n.state \notin Ended
      BY <1>1, <1>2, <2>1, <2>3, <2>4, <3>1, Ranks, StatesListed DEF Ended, Completing
    <3> QED BY <1>3, <2>1, <3>1, <3>3, <3>4, <3>5, <3>6
  <2>5. CASE GoOn(s)
    BY <1>3, <1>4, <2>1, <2>3, <2>5
  <2>6. "StopFrameworkRequested" \in Codes
    BY DEF Codes, Permanent
  <2>7. \A c \in TriggeredCodes(s) : c \in Codes
    <3>1. \A t \in Tasks : s.tasks[t].state \in Ended => s.tasks[t].code # NoCode
      BY <1>1, <2>1 DEF Sound
    <3>2. \A t \in FailedTasks(s) : s.tasks[t].code \in Codes
      BY <1>1, <2>1, <3>1, TaskCounts
    <3>3. "Succeeded" \in Codes
      BY DEF Codes
    <3> QED BY <3>2, <3>3 DEF TriggeredCodes
  <2> QED BY <2>2, <2>4, <2>5, <2>6, <2>7
<1> QED BY <1>5, <1>6, <1>7

\* Every step of it.
LEMMA SyncFrameworkMoves ==
    ASSUME StatusInv, SyncFramework, Status0 # NoStatus => Due(Status0)
    PROVE  Syncing /\ FrameworkMoves
<1>1. Syncing
  BY FrameworkCalls
<1> QED BY <1>1, DecidesOneMove, CallsOneMove, GoesOnWithOneMove DEF SyncFramework

(***************************************************************************)
(* The moves of the tasks, one by one.                                     *)
(***************************************************************************)
\* The task that is next has not moved since the status was persisted.
LEMMA TaskStands ==
    ASSUME StatusInv, Tasking, Going(Status0, remote, worker.todo)
    PROVE  LET a == remote.tasks[Task]
           IN  /\ a \in TaskStatus /\ TS \in TaskStatus /\ Coded(TS, a) /\ TaskWritten(TS, a)
               /\ a.state \in Ended => /\ a.code # NoCode
                                       /\ TS.code = a.code /\ TS.accounted = a.accounted
                                       /\ RetryDecision(TS, "task") = RetryDecision(a, "task")
<1> DEFINE a == remote.tasks[Task]
<1>1. Task \in Tasks /\ Task \in worker.todo /\ TS \in TaskStatus /\ Status0 \in Status
  BY TaskIsLeft
<1>2. remote \in Status /\ Sound(remote)
  BY TaskFacts, NotNothing DEF StatusInv, Held
<1>3. a \in TaskStatus /\ Coded(TS, a) /\ (a.state \in Ended => a.code # NoCode)
  BY <1>1, <1>2 DEF Status, Sound, Going, TS
<1> HIDE DEF a
<1>4. a.code # NoCode => TS.code = a.code /\ TS.accounted = a.accounted
  BY <1>3 DEF Coded
<1>5. a.code # NoCode => RetryDecision(TS, "task") = RetryDecision(a, "task")
  BY <1>4 DEF RetryDecision
<1>6. TaskWritten(TS, a)
  BY <1>1, <1>3, CodedIsWritten
<1> QED BY <1>1, <1>3, <1>4, <1>5, <1>6 DEF a

\* One task moves.
LEMMA OneTaskGoes ==
    ASSUME StatusInv, Tasking, Going(Status0, remote, worker.todo), NEW ts \in TaskStatus,
           TaskWritten(ts, remote.tasks[Task])
    PROVE  LET n == [Status0 EXCEPT !.tasks[Task] = ts]
           IN  Going(n, remote, worker.todo \ {Task}) /\ n.delayed = Status0.delayed
<1> DEFINE n == [Status0 EXCEPT !.tasks[Task] = ts]
<1>1. Status0 \in Status /\ Task \in Tasks
  BY TaskIsLeft
<1>2. /\ n \in Status /\ n.state = Status0.state /\ n.retried = Status0.retried
      /\ n.accounted = Status0.accounted /\ n.code = Status0.code
      /\ n.delayed = Status0.delayed
      /\ n.tasks = [Status0.tasks EXCEPT ![Task] = ts]
  BY <1>1 DEF Status
<1>3. n.tasks[Task] = ts /\ \A u \in Tasks \ {Task} : n.tasks[u] = Status0.tasks[u]
  BY <1>1, <1>2 DEF Status
<1> HIDE DEF n
<1>4. Life!Advances(FullView(n), FullView(remote))
  <2>1. /\ FullView(n).number = FullView(Status0).number
        /\ FullView(n).counted = FullView(Status0).counted
        /\ FullView(n).phase = FullView(Status0).phase
        /\ FullView(n).code = FullView(Status0).code
    BY <1>1, <1>2, FullyViewed
  <2>2. Life!Advances(FullView(Status0), FullView(remote))
    BY DEF Going
  <2> QED BY <2>1, <2>2 DEF Life!Advances, Life!Same
<1>5. worker.todo \subseteq Tasks
  BY TaskIsLeft DEF Worker
<1>6. \A t \in Tasks \ (worker.todo \ {Task}) : TaskWritten(n.tasks[t], remote.tasks[t])
  BY <1>3 DEF Going
<1>7. \A t \in worker.todo \ {Task} : Coded(n.tasks[t], remote.tasks[t])
  BY <1>3, <1>5 DEF Going
<1> QED BY <1>2, <1>4, <1>6, <1>7 DEF Going, n

\* It goes to a later state of the same attempt.
LEMMA TaskGoesForward ==
    ASSUME StatusInv, Tasking, Going(Status0, remote, worker.todo), NEW ts \in TaskStatus,
           ts.retried = TS.retried, ts.accounted = TS.accounted,
           TS.code # NoCode => ts.code = TS.code,
           ts.state \in Ended => ts.code # NoCode,
           Rank(ts.state) >= Rank(TS.state), TS.state \notin Ended, ts.state # "Completed"
    PROVE  LET n == [Status0 EXCEPT !.tasks[Task] = ts]
           IN  Going(n, remote, worker.todo \ {Task}) /\ n.delayed = Status0.delayed
<1> DEFINE a == remote.tasks[Task]
<1>1. a \in TaskStatus /\ Coded(TS, a)
  BY TaskStands
<1> HIDE DEF a
<1>2. /\ ts.retried = a.retried /\ ts.accounted = a.accounted
      /\ a.code # NoCode => ts.code = a.code
      /\ Rank(ts.state) >= Rank(a.state) /\ a.state \notin Ended
  BY <1>1 DEF Coded
<1>3. TaskWritten(ts, a)
  BY <1>1, <1>2, GoesForward
<1> QED BY <1>3, OneTaskGoes DEF a

\* Its attempt is completed, or starts to be.
LEMMA TaskCompletes ==
    ASSUME StatusInv, Tasking, Going(Status0, remote, worker.todo), NEW force \in BOOLEAN,
           NEW c \in Codes, TS.state \notin Ended, force \/ TS.state \notin Completing
    PROVE  LET n == [Status0 EXCEPT !.tasks[Task] = CompleteTaskAttempt(TS, force, c)]
           IN  Going(n, remote, worker.todo \ {Task}) /\ n.delayed = Status0.delayed
<1> DEFINE ts == CompleteTaskAttempt(TS, force, c)
<1>1. TS \in TaskStatus /\ TS.state \in States
  BY TaskIsLeft, TaskFacts
<1>2. /\ ts \in TaskStatus
      /\ ts.state = IF force THEN "AttemptCompleted" ELSE "AttemptDeletionPending"
      /\ ts.retried = TS.retried /\ ts.code = IF TS.code = NoCode THEN c ELSE TS.code
      /\ ts.accounted = TS.accounted
  BY <1>1, TaskCompletion, CompletionCounts
<1> HIDE DEF ts
<1>3. Rank(ts.state) >= Rank(TS.state) /\ ts.state # "Completed"
  BY <1>1, <1>2, Ranks, StatesListed DEF Ended, Completing
<1>4. ts.code # NoCode
  BY <1>2, NoCodeIsNoCode
<1>5. LET n == [Status0 EXCEPT !.tasks[Task] = ts]
      IN  Going(n, remote, worker.todo \ {Task}) /\ n.delayed = Status0.delayed
  BY <1>2, <1>3, <1>4, TaskGoesForward
<1> QED BY <1>5 DEF ts

\* The attempt of the framework starts to be completed with that of a task.
LEMMA CompletionGoesOn ==
    ASSUME NEW old, NEW s, NEW todo \in SUBSET Tasks, Going(s, old, todo), NEW c \in Codes,
           s.state \notin Completing
    PROVE  LET n == CompleteFrameworkAttempt(s, FALSE, c)
           IN  Going(n, old, todo) /\ n.delayed = s.delayed
<1> DEFINE n == CompleteFrameworkAttempt(s, FALSE, c)
<1>1. s \in Status /\ old \in Status
  BY DEF Going
<1>2. /\ n \in Status /\ n.retried = s.retried
      /\ n.state = IF FALSE THEN "AttemptCompleted" ELSE "AttemptDeletionPending"
      /\ n.code = IF s.code = NoCode THEN c ELSE s.code
  BY <1>1, FrameworkCompletion, Zenon
<1>3. \A t \in Tasks :
          /\ n.tasks[t].state = IF FALSE THEN "Completed" ELSE s.tasks[t].state
          /\ n.tasks[t].retried = s.tasks[t].retried /\ n.tasks[t].uid = s.tasks[t].uid
          /\ n.tasks[t].code = IF s.tasks[t].code = NoCode
                               THEN "FrameworkAttemptCompletion" ELSE s.tasks[t].code
  BY <1>1, FrameworkCompletion, Zenon
<1>4. /\ n.accounted = s.accounted /\ n.delayed = s.delayed
      /\ \A t \in Tasks : n.tasks[t].accounted = s.tasks[t].accounted
  BY <1>1, CompletionCounts
<1> HIDE DEF n
<1>5. \A t \in Tasks : /\ n.tasks[t] \in TaskStatus /\ s.tasks[t] \in TaskStatus
                       /\ old.tasks[t] \in TaskStatus /\ Coded(n.tasks[t], s.tasks[t])
  BY <1>1, <1>2, <1>3, <1>4 DEF Status, Coded
<1>6. /\ Phase(n.state) = "closing" /\ Phase(s.state) \in {"open", "closing"}
      /\ Phase(old.state) \in {"open", "closing"}
  BY <1>2 DEF Phase, Completing, Going, Life!Underway
<1>7. Life!Advances(FullView(n), FullView(old))
  BY <1>1, <1>2, <1>4, <1>6, FullyViewed DEF Going, Life!Advances, Life!Same
<1>8. ASSUME NEW t \in Tasks
      PROVE  /\ Coded(s.tasks[t], old.tasks[t]) => Coded(n.tasks[t], old.tasks[t])
             /\ TaskWritten(s.tasks[t], old.tasks[t]) => TaskWritten(n.tasks[t], old.tasks[t])
  BY <1>5, CodedAgain
<1> QED BY <1>1, <1>2, <1>4, <1>6, <1>7, <1>8 DEF Going, Life!Underway, n

\* What a step of the sync of a task makes of the status.
TaskGoes(new) == Going(new, remote, worker.todo \ {Task}) /\ new.delayed = Status0.delayed

\* The last attempt of a task, and with it maybe that of the framework.
LEMMA LastTaskGoes ==
    ASSUME StatusInv, CompleteTask, Going(Status0, remote, worker.todo)
    PROVE  \E new : NextTask(new, FALSE) /\ TaskGoes(new)
<1> DEFINE a == remote.tasks[Task]
           ts == [TS EXCEPT !.state = "Completed"]
           s == [Status0 EXCEPT !.tasks[Task].state = "Completed"]
           m == [Status0 EXCEPT !.tasks[Task] = ts]
           todo == worker.todo \ {Task}
<1>1. Tasking /\ TS.state = "AttemptCompleted" /\ ~RetryDecision(TS, "task").retry
  BY DEF CompleteTask, TaskDecision
<1>2. /\ Status0 \in Status /\ Task \in Tasks /\ job \in Frameworks /\ TS \in TaskStatus
      /\ todo \in SUBSET Tasks
  BY <1>1, TaskIsLeft DEF Worker
<1>3. /\ a \in TaskStatus /\ Coded(TS, a)
      /\ a.state \in Ended => /\ a.code # NoCode
                              /\ TS.code = a.code /\ TS.accounted = a.accounted
                              /\ RetryDecision(TS, "task") = RetryDecision(a, "task")
  BY <1>1, TaskStands
<1> HIDE DEF a
<1>4. /\ a.state = "AttemptCompleted" /\ a.code # NoCode /\ ~RetryDecision(a, "task").retry
      /\ TS.retried = a.retried /\ TS.accounted = a.accounted /\ TS.code = a.code
  BY <1>1, <1>3 DEF Coded, Ended
<1>5. /\ ts \in TaskStatus /\ ts.state = "Completed" /\ ts.retried = TS.retried
      /\ ts.accounted = TS.accounted /\ ts.code = TS.code
  BY <1>2, StatesListed DEF TaskStatus
<1>6. s = m
  BY <1>2 DEF TS, Status
<1> HIDE DEF ts, s
<1>7. TaskWritten(ts, a)
  BY <1>2, <1>3, <1>4, <1>5, LastTaskWritten
<1>8. TaskGoes(m)
  BY <1>1, <1>5, <1>7, OneTaskGoes DEF TaskGoes, a
<1> HIDE DEF m
<1>9. \/ NextTask(s, FALSE)
      \/ /\ s.state \notin Completing
         /\ \E c \in TriggeredCodesBy(s, Task) : NextTask(CompleteFrameworkAttempt(s, FALSE, c), FALSE)
  BY DEF CompleteTask, s
<1>10. ASSUME s.state \notin Completing, NEW c \in TriggeredCodesBy(s, Task),
              NextTask(CompleteFrameworkAttempt(s, FALSE, c), FALSE)
       PROVE  \E new : NextTask(new, FALSE) /\ TaskGoes(new)
  <2> DEFINE n == CompleteFrameworkAttempt(s, FALSE, c)
  <2>1. s \in Status /\ \A u \in Tasks : s.tasks[u] \in TaskStatus
    BY <1>6, <1>8 DEF TaskGoes, Going, Status
  <2>2. s.tasks[Task] = ts /\ \A u \in Tasks \ {Task} : s.tasks[u] = Status0.tasks[u]
    BY <1>2, <1>6 DEF m, Status
  <2>3. \A u \in Tasks : s.tasks[u].state \in Ended => s.tasks[u].code # NoCode
    BY <1>1, <1>4, <1>5, <2>2, TaskFacts DEF Sound
  <2>4. \A u \in FailedTasks(s) : s.tasks[u].code \in Codes
    BY <1>2, <2>1, <2>3, TaskCounts
  <2>5. c \in Codes
    BY <1>10, <2>4 DEF TriggeredCodesBy, Codes
  <2>6. Going(n, remote, todo) /\ n.delayed = s.delayed
    BY <1>2, <1>6, <1>8, <1>10, <2>5, CompletionGoesOn DEF TaskGoes
  <2>7. NextTask(n, FALSE)
    BY <1>10
  <2> HIDE DEF n
  <2> QED BY <1>6, <1>8, <2>6, <2>7 DEF TaskGoes
<1> QED BY <1>6, <1>8, <1>9, <1>10

\* Every step of the sync of a task.
LEMMA SyncTaskGoes ==
    ASSUME StatusInv, SyncTask, Going(Status0, remote, worker.todo)
    PROVE  \/ CleansPod
           \/ \E new : \E failed \in BOOLEAN : NextTask(new, failed) /\ TaskGoes(new)
<1> SUFFICES ASSUME ~CleansPod
             PROVE  \E new : \E failed \in BOOLEAN : NextTask(new, failed) /\ TaskGoes(new)
  OBVIOUS
<1>1. Tasking
  BY TaskCalls
<1>2. /\ TS \in TaskStatus /\ Status0 \in Status /\ job \in Frameworks /\ Task \in Tasks
      /\ TS.state \in States /\ TS.retried \in Nat /\ TS.accounted \in Nat
      /\ TS.code \in Codes \union {NoCode}
  BY <1>1, TaskIsLeft DEF TaskStatus
<1>3. ASSUME SkipTask \/ FailTask
      PROVE  \E new : \E failed \in BOOLEAN : NextTask(new, failed) /\ TaskGoes(new)
  <2>1. TaskWritten(TS, remote.tasks[Task])
    BY <1>1, TaskStands
  <2>2. [Status0 EXCEPT !.tasks[Task] = TS] = Status0
    BY <1>2 DEF TS, Status
  <2>3. TaskGoes(Status0)
    BY <1>1, <1>2, <2>1, <2>2, OneTaskGoes DEF TaskGoes
  <2> QED BY <1>3, <2>3 DEF SkipTask, FailTask
<1>4. ASSUME NEW ts, TaskGoes([Status0 EXCEPT !.tasks[Task] = ts]), NEW failed \in BOOLEAN,
             NextTask([Status0 EXCEPT !.tasks[Task] = ts], failed)
      PROVE  \E new : \E f \in BOOLEAN : NextTask(new, f) /\ TaskGoes(new)
  BY <1>4
<1>5. ASSUME NEW force \in BOOLEAN, NEW c \in Codes, TS.state \notin Ended,
             force \/ TS.state \notin Completing,
             DecideTask(CompleteTaskAttempt(TS, force, c))
      PROVE  \E new : \E f \in BOOLEAN : NextTask(new, f) /\ TaskGoes(new)
  BY <1>1, <1>5, TaskCompletes DEF DecideTask, TaskGoes
<1>6. ASSUME NEW ts \in TaskStatus, ts.retried = TS.retried, ts.accounted = TS.accounted,
             TS.code # NoCode => ts.code = TS.code, ts.state \notin Ended,
             Rank(ts.state) >= Rank(TS.state), TS.state \notin Ended, NEW failed \in BOOLEAN,
             NextTask([Status0 EXCEPT !.tasks[Task] = ts], failed)
      PROVE  \E new : \E f \in BOOLEAN : NextTask(new, f) /\ TaskGoes(new)
  <2>1. TaskGoes([Status0 EXCEPT !.tasks[Task] = ts])
    BY <1>1, <1>6, TaskGoesForward DEF TaskGoes, Ended
  <2> QED BY <1>6, <2>1
<1>7. CASE SkipCompletedTask \/ CleanUpPod \/ WaitForPod \/ WaitPodDeletion
  BY <1>3, <1>7 DEF SkipCompletedTask, CleanUpPod, WaitForPod, WaitPodDeletion, CleansPod
<1>8. CASE GiveUpOnPod
  <2>1. FailTask \/ DecideTask(CompleteTaskAttempt(TS, TRUE, "PodCreationTimeout"))
    BY <1>8 DEF GiveUpOnPod
  <2>2. TS.state \notin Ended /\ "PodCreationTimeout" \in Codes
    BY <1>8 DEF GiveUpOnPod, Ended, Codes, Transient
  <2> QED BY <1>3, <1>5, <2>1, <2>2
<1>9. CASE PodDisappeared
  <2>1. DecideTask(CompleteTaskAttempt(TS, TRUE, "PodExternalDeleted"))
    BY <1>9 DEF PodDisappeared
  <2>2. TS.state \notin Ended /\ "PodExternalDeleted" \in Codes
    BY <1>9 DEF PodDisappeared, Ended, Associated, Completing, Codes, Transient
  <2> QED BY <1>5, <2>1, <2>2
<1>10. CASE RequestPodDeletion
  <2> DEFINE ts == [TS EXCEPT !.state = "AttemptDeletionRequested"]
  <2>1. /\ ts \in TaskStatus /\ ts.state = "AttemptDeletionRequested"
        /\ ts.retried = TS.retried /\ ts.accounted = TS.accounted /\ ts.code = TS.code
    BY <1>2, StatesListed DEF TaskStatus
  <2>2. /\ TS.state = "AttemptDeletionPending"
        /\ FailTask \/ NextTask([Status0 EXCEPT !.tasks[Task] = ts], FALSE)
    BY <1>10 DEF RequestPodDeletion, DecideTask
  <2> HIDE DEF ts
  <2>3. /\ ts.state \notin Ended /\ TS.state \notin Ended
        /\ Rank(ts.state) >= Rank(TS.state)
    BY <2>1, <2>2, Ranks DEF Ended
  <2> QED BY <1>3, <1>6, <2>1, <2>2, <2>3
<1>11. CASE ObservePod
  <2>1. /\ PodSeen /\ PodObj.uid = TS.uid /\ PodObj # NoObject
        /\ TS.state \in {"AttemptCreationRequested", "AttemptPreparing", "AttemptRunning"}
    BY <1>11 DEF ObservePod, PodSeen
  <2>2. PodObj.phase \in {"Pending", "Running"} \union Results
    BY <1>2, <2>1 DEF StatusInv, TypeOK, PodObj, Pod
  <2>3. TS.state = "AttemptRunning" => PodObj.phase # "Pending"
    BY <1>1, <1>2, <2>1, TaskFacts DEF RunningWasSeen, TS, PodObj
  <2>4. ASSUME NEW st \in {"AttemptPreparing", "AttemptRunning"},
               DecideTask([TS EXCEPT !.state = st]), Rank(st) >= Rank(TS.state)
        PROVE  \E new : \E f \in BOOLEAN : NextTask(new, f) /\ TaskGoes(new)
    <3> DEFINE ts == [TS EXCEPT !.state = st]
    <3>1. /\ ts \in TaskStatus /\ ts.state = st
          /\ ts.retried = TS.retried /\ ts.accounted = TS.accounted /\ ts.code = TS.code
      BY <1>2, StatesListed DEF TaskStatus
    <3>2. NextTask([Status0 EXCEPT !.tasks[Task] = ts], FALSE)
      BY <2>4 DEF DecideTask
    <3> HIDE DEF ts
    <3>3. ts.state \notin Ended /\ TS.state \notin Ended
      BY <2>1, <3>1 DEF Ended
    <3> QED BY <1>6, <2>4, <3>1, <3>2, <3>3
  <2>5. CASE PodObj.phase = "Pending"
    <3>1. DecideTask([TS EXCEPT !.state = "AttemptPreparing"])
      BY <1>11, <2>5 DEF ObservePod
    <3>2. Rank("AttemptPreparing") >= Rank(TS.state)
      BY <2>1, <2>3, <2>5, Ranks
    <3> QED BY <2>4, <3>1, <3>2
  <2>6. CASE PodObj.phase = "Running"
    <3>1. DecideTask([TS EXCEPT !.state = "AttemptRunning"])
      BY <1>11, <2>6 DEF ObservePod
    <3>2. Rank("AttemptRunning") >= Rank(TS.state)
      BY <2>1, Ranks
    <3> QED BY <2>4, <3>1, <3>2
  <2>7. CASE PodObj.phase \notin {"Pending", "Running"}
    <3>1. DecideTask(CompleteTaskAttempt(TS, FALSE, PodObj.phase))
      BY <1>11, <2>7 DEF ObservePod
    <3>2. PodObj.phase \in Codes /\ TS.state \notin Ended /\ TS.state \notin Completing
      BY <1>2, <2>1, <2>2, <2>7, JobFacts DEF Ended, Completing
    <3> QED BY <1>5, <3>1, <3>2
  <2> QED BY <2>5, <2>6, <2>7
<1>12. CASE PodDeleting
  <2> DEFINE coded == WithCode(TS, "PodExternalDeleted")
             ts == [coded EXCEPT !.state = "AttemptDeleting"]
  <2>1. /\ coded \in TaskStatus /\ coded.retried = TS.retried /\ coded.accounted = TS.accounted
        /\ TS.code # NoCode => coded.code = TS.code
    BY <1>2 DEF WithCode, TaskStatus, Codes, Transient
  <2>2. /\ TS.state \notin Ended
        /\ \E f \in BOOLEAN : NextTask([Status0 EXCEPT !.tasks[Task] = ts], f)
    BY <1>12 DEF PodDeleting, DecideTask
  <2> HIDE DEF coded
  <2>3. /\ ts \in TaskStatus /\ ts.state = "AttemptDeleting" /\ ts.retried = TS.retried
        /\ ts.accounted = TS.accounted /\ (TS.code # NoCode => ts.code = TS.code)
    BY <2>1, StatesListed DEF TaskStatus
  <2> HIDE DEF ts
  <2>4. Rank(ts.state) >= Rank(TS.state) /\ ts.state \notin Ended
    BY <1>2, <2>2, <2>3, Ranks, StatesListed DEF Ended
  <2> QED BY <1>6, <2>2, <2>3, <2>4
<1>13. CASE RetryTask
  <2> DEFINE a == remote.tasks[Task]
             counted == IF RetryDecision(a, "task").counted THEN 1 ELSE 0
             ts == NewTaskStatus(a.retried + 1, a.accounted + counted)
  <2>1. /\ a \in TaskStatus /\ Coded(TS, a)
        /\ a.state \in Ended => /\ a.code # NoCode
                                /\ TS.code = a.code /\ TS.accounted = a.accounted
                                /\ RetryDecision(TS, "task") = RetryDecision(a, "task")
    BY <1>1, TaskStands
  <2> HIDE DEF a
  <2>2. /\ NextTask([Status0 EXCEPT !.tasks[Task] =
                NewTaskStatus(TS.retried + 1, TS.accounted + IF TaskDecision.counted THEN 1 ELSE 0)],
                    FALSE)
        /\ TS.state = "AttemptCompleted" /\ TaskDecision.retry
    BY <1>13 DEF RetryTask, DecideTask
  <2>3. /\ a.state = "AttemptCompleted" /\ a.code # NoCode /\ a.retried = TS.retried
        /\ a.accounted = TS.accounted /\ TaskDecision = RetryDecision(a, "task")
    BY <2>1, <2>2 DEF Coded, Ended, TaskDecision
  <2>4. NextTask([Status0 EXCEPT !.tasks[Task] = ts], FALSE) /\ RetryDecision(a, "task").retry
    BY <2>2, <2>3
  <2>5. a.accounted + counted \in Nat /\ a.retried + 1 \in Nat
    BY <2>1 DEF TaskStatus
  <2>6. ts \in TaskStatus
    BY <2>5, NewTaskStatusTyped
  <2>7. TaskWritten(ts, a)
    BY <1>2, <2>1, <2>3, <2>4, <2>6, NewTaskWritten
  <2> HIDE DEF ts
  <2>8. TaskGoes([Status0 EXCEPT !.tasks[Task] = ts])
    BY <1>1, <2>6, <2>7, OneTaskGoes DEF TaskGoes, a
  <2> QED BY <1>4, <2>4, <2>8
<1>14. CASE CompleteTask
  BY <1>14, LastTaskGoes
<1>15. CASE CreatePod
  <2> DEFINE u == uids.pod[Task] + 1
             ts == [TS EXCEPT !.uid = u, !.state = "AttemptCreationRequested"]
  <2>1. TS.state = "AttemptCreationPending"
    BY <1>15 DEF CreatePod
  <2>2. SkipTask \/ FailTask \/ (NewPod /\ DecideTask([TS EXCEPT !.uid = uids'.pod[Task],
                                                  !.state = "AttemptCreationRequested"]))
    BY <1>15 DEF CreatePod
  <2>3. u \in Nat /\ uids \in [cm : Nat, pod : [Tasks -> Nat]]
    BY <1>2 DEF StatusInv, TypeOK
  <2>4. NewPod => uids'.pod[Task] = u
    BY <1>2, <2>3 DEF NewPod
  <2> HIDE DEF u
  <2>5. /\ ts \in TaskStatus /\ ts.state = "AttemptCreationRequested"
        /\ ts.retried = TS.retried /\ ts.accounted = TS.accounted /\ ts.code = TS.code
    BY <1>2, <2>3, StatesListed DEF TaskStatus
  <2>6. SkipTask \/ FailTask \/ NextTask([Status0 EXCEPT !.tasks[Task] = ts], FALSE)
    BY <2>2, <2>4 DEF DecideTask
  <2> HIDE DEF ts
  <2>7. Rank(ts.state) >= Rank(TS.state) /\ ts.state \notin Ended /\ TS.state \notin Ended
    BY <2>1, <2>5, Ranks DEF Ended
  <2> QED BY <1>3, <1>6, <2>5, <2>6, <2>7
<1>16. CASE RejectPod
  <2>1. FailTask \/ \E c \in Refusals : DecideTask(CompleteTaskAttempt(TS, TRUE, c))
    BY <1>16 DEF RejectPod
  <2>2. TS.state \notin Ended /\ Refusals \subseteq Codes
    BY <1>16 DEF RejectPod, Ended, Codes
  <2> QED BY <1>3, <1>5, <2>1, <2>2
<1> QED
  BY <1>7, <1>8, <1>9, <1>10, <1>11, <1>12, <1>13, <1>14, <1>15, <1>16 DEF SyncTask

(***************************************************************************)
(* The invariant of the moves is kept.                                     *)
(***************************************************************************)
\* What is said of the moves does not depend on the step.
LEMMA MovesStay ==
    ASSUME UNCHANGED job
    PROVE  /\ \A n, o : Written(n, o) => Written(n, o)'
           /\ \A n, o, todo : Going(n, o, todo) => Going(n, o, todo)'
           /\ \A s : Due(s) => Due(s)'
<1>1. Tasks' = Tasks /\ Life!Tasks' = Life!Tasks /\ Status' = Status
  BY StaticSets DEF Life!Tasks
<1>2. \A s : FullView(s)' = FullView(s)
  BY <1>1 DEF FullView
<1>3. \A s, of : RetryDecision(s, of)' = RetryDecision(s, of)
  BY DEF RetryDecision, MaxRetryCount, Fancy
<1>4. \A v, of : (Life!Free(v, of) <=> Life!Free(v, of)')
  BY DEF Life!Free
<1>5. \A v, of : (Life!GivenUp(v, of) <=> Life!GivenUp(v, of)')
  BY <1>4 DEF Life!GivenUp
<1>6. \A n, a, of : /\ (Life!Retried(n, a, of) <=> Life!Retried(n, a, of)')
                    /\ (Life!Finished(n, a, of) <=> Life!Finished(n, a, of)')
  BY <1>4, <1>5 DEF Life!Retried, Life!Finished
<1>7. \A n, c : Life!New(n, c)' = Life!New(n, c)
  BY <1>1 DEF Life!New
<1>8. \A n, s : /\ (Life!Proceeds(n, s) <=> Life!Proceeds(n, s)')
                /\ (Life!Completes(n, s) <=> Life!Completes(n, s)')
                /\ (Life!Retries(n, s) <=> Life!Retries(n, s)')
                /\ (Life!Finishes(n, s) <=> Life!Finishes(n, s)')
  BY <1>1, <1>6, <1>7 DEF Life!Proceeds, Life!Completes, Life!Retries, Life!Finishes
<1>9. ASSUME NEW n, NEW o, Written(n, o) PROVE Written(n, o)'
  BY <1>2, <1>7, <1>8, <1>9 DEF Written
<1>10. ASSUME NEW n, NEW o, NEW todo, Going(n, o, todo) PROVE Going(n, o, todo)'
  BY <1>1, <1>2, <1>6, <1>10 DEF Going, TaskWritten
<1>11. ASSUME NEW s, Due(s) PROVE Due(s)'
  BY <1>3, <1>11 DEF Due
<1> QED BY <1>9, <1>10, <1>11

\* A status that looks like one that may be written may be written.
LEMMA AlikeIsWritten ==
    ASSUME NEW s \in Status, NEW m \in Status, NEW n \in Status, FullView(n) = FullView(m),
           Written(m, s)
    PROVE  Written(n, s)
BY NotNothing DEF Written

\* The sync in progress after the sync of a task.
LEMMA WorkerGoes ==
    ASSUME StatusInv, Tasking, NEW new, NEW failed \in BOOLEAN, NextTask(new, failed), TaskGoes(new)
    PROVE  /\ worker' \in Worker /\ worker'.status.delayed = Status0.delayed
           /\ \/ /\ worker'.stage = "tasks"
                 /\ Going(worker'.status, remote, worker'.todo)
              \/ worker'.stage = "update" /\ Written(worker'.status, remote)
<1> DEFINE todo == worker.todo \ {Task}
           running == \E t \in Tasks : new.tasks[t].state = "AttemptRunning"
           final == IF new.state = "AttemptPreparing" /\ running
                    THEN [new EXCEPT !.state = "AttemptRunning"] ELSE new
<1>1. worker \in Worker /\ todo \in SUBSET Tasks
  BY TaskIsLeft DEF Worker
<1>2. new \in Status /\ new.delayed = Status0.delayed /\ Going(new, remote, todo)
  BY DEF TaskGoes, Going
<1>3. /\ final \in Status /\ final.tasks = new.tasks /\ final.retried = new.retried
      /\ final.accounted = new.accounted /\ final.code = new.code
      /\ final.delayed = new.delayed
      /\ \/ final.state = new.state
         \/ new.state = "AttemptPreparing" /\ final.state = "AttemptRunning"
  BY <1>2, StatesListed DEF Status
<1>4. worker' = [worker EXCEPT
                   !.stage = IF todo = {} THEN "update" ELSE "tasks",
                   !.status = IF todo = {} THEN final ELSE new,
                   !.todo = todo, !.cleaned = FALSE, !.failed = @ \/ failed]
  BY DEF NextTask
<1> HIDE DEF final, todo
<1>5. /\ worker' \in Worker
      /\ worker'.stage = IF todo = {} THEN "update" ELSE "tasks"
      /\ worker'.status = IF todo = {} THEN final ELSE new
      /\ worker'.todo = todo
  <2>1. (worker.failed \/ failed) \in BOOLEAN
    OBVIOUS
  <2> QED BY <1>1, <1>2, <1>3, <1>4, <2>1 DEF Worker
<1>6. CASE todo = {}
  <2>1. Phase(final.state) = Phase(new.state)
    BY <1>3 DEF Phase, Completing
  <2>2. FullView(final) = FullView(new)
    BY <1>2, <1>3, <2>1, SeenAlike
  <2>3. remote \in Status /\ Written(new, remote)
    BY <1>2, <1>6, GoneIsWritten DEF Going
  <2>4. Written(final, remote)
    BY <1>2, <1>3, <2>2, <2>3, AlikeIsWritten
  <2> QED BY <1>2, <1>3, <1>5, <1>6, <2>4
<1>7. CASE todo # {}
  BY <1>2, <1>5, <1>7
<1> QED BY <1>6, <1>7

\* A step that leaves the other statuses alone, of a sync that stays right.
LEMMA MovesGoOn ==
    ASSUME MoveInv, UNCHANGED <<job, remote, expected>>,
           worker' # Idle =>
              /\ worker'.stage = "update" => Written(worker'.status, expected.status)
              /\ worker'.stage = "tasks" => Going(worker'.status, expected.status, worker'.todo)
              /\ worker'.status # NoStatus => Due(worker'.status)
    PROVE  MoveInv'
<1>1. /\ Written(expected.status, remote) => Written(expected.status, remote)'
      /\ Written(worker'.status, expected.status) => Written(worker.status, expected.status)'
      /\ Going(worker'.status, expected.status, worker'.todo)
           => Going(worker.status, expected.status, worker.todo)'
  BY MovesStay
<1>2. \A s \in Held' : s \in Held \/ (worker' # Idle /\ s = worker'.status /\ s # NoStatus)
  BY DEF Held
<1>3. \A s \in Held' : Due(s)
  BY <1>2 DEF MoveInv
<1>4. \A s \in Held' : Due(s)'
  BY <1>3, MovesStay
<1> QED BY <1>1, <1>4 DEF MoveInv

\* The syncs keep it.
LEMMA SyncKeepsMoves ==
    ASSUME StatusInv, MoveInv, SyncFramework \/ SyncTask
    PROVE  MoveInv'
<1>1. CASE SyncFramework
  <2>1. Syncing /\ UNCHANGED <<specVars, statusVars>>
    BY <1>1, FrameworkCalls
  <2>2. UNCHANGED <<job, remote, expected>>
    BY <2>1 DEF specVars, statusVars
  <2>3. /\ worker \in Worker /\ worker # Idle /\ Status0 = expected.status
        /\ Status0 # NoStatus => Due(Status0)
    BY <2>1, SyncFacts DEF MoveInv, Held, Status0
  <2>4. FrameworkMoves
    BY <1>1, <2>3, SyncFrameworkMoves
  <2>5. CASE Abort
    BY <2>2, <2>5, MovesGoOn DEF Abort, Finish
  <2>6. CASE Cleans
    <3>1. worker'.status = Status0 /\ worker'.stage = "sync"
      BY <2>1, <2>3, <2>6 DEF Cleans, Worker, Syncing, Status0
    <3> QED BY <2>2, <2>3, <3>1, MovesGoOn
  <2>7. ASSUME NEW new, Decide(new), Written(new, Status0), Due(new)
        PROVE  MoveInv'
    <3>1. worker'.status = new /\ worker'.stage = "update"
      BY <2>3, <2>7 DEF Decide, Worker
    <3> QED BY <2>2, <2>3, <2>7, <3>1, MovesGoOn
  <2>8. ASSUME NEW new, GoOn(new), Going(new, Status0, Tasks), Due(new)
        PROVE  MoveInv'
    <3>1. worker'.status = new /\ worker'.stage = "tasks" /\ worker'.todo = Tasks
      BY <2>3, <2>8 DEF GoOn, Worker
    <3> QED BY <2>2, <2>3, <2>8, <3>1, MovesGoOn
  <2> QED BY <2>4, <2>5, <2>6, <2>7, <2>8 DEF FrameworkMoves
<1>2. CASE SyncTask
  <2>1. Tasking /\ UNCHANGED <<specVars, statusVars>>
    BY <1>2, TaskCalls
  <2>2. UNCHANGED <<job, remote, expected>>
    BY <2>1 DEF specVars, statusVars
  <2>3. /\ worker \in Worker /\ worker # Idle /\ expected.status = remote
        /\ Status0 \in Status /\ Status0.state \notin Ended
    BY <2>1, TaskIsLeft, TaskFacts
  <2>4. Going(Status0, remote, worker.todo) /\ Due(Status0)
    BY <2>1, <2>3, NotNothing DEF MoveInv, Held, Tasking, Status0
  <2>5. CASE CleansPod
    <3>1. worker'.status = Status0 /\ worker'.stage = "tasks" /\ worker'.todo = worker.todo
      BY <2>1, <2>3, <2>5 DEF CleansPod, Worker, Tasking, Status0
    <3> QED BY <2>2, <2>3, <2>4, <3>1, MovesGoOn
  <2>6. ASSUME NEW new, NEW failed \in BOOLEAN, NextTask(new, failed), TaskGoes(new)
        PROVE  MoveInv'
    <3>1. /\ worker'.status.delayed = Status0.delayed
          /\ \/ worker'.stage = "tasks" /\ Going(worker'.status, remote, worker'.todo)
             \/ worker'.stage = "update" /\ Written(worker'.status, remote)
      BY <2>1, <2>6, WorkerGoes
    <3>2. ~Status0.delayed
      BY <2>3, <2>4 DEF Due, Ended
    <3>3. Due(worker'.status)
      BY <3>1, <3>2 DEF Due
    <3> QED BY <2>2, <2>3, <3>1, <3>3, MovesGoOn
  <2> QED BY <1>2, <2>4, <2>5, <2>6, SyncTaskGoes
<1> QED BY <1>1, <1>2

\* The start of a sync keeps it.
LEMMA BeginKeepsMoves == ASSUME StatusInv, MoveInv, BeginSync PROVE MoveInv'
<1>1. /\ worker = Idle /\ UNCHANGED <<job, remote>>
      /\ expected' = IF expected = NoInfo THEN [status |-> remote, synced |-> TRUE] ELSE expected
      /\ worker' = [stage |-> IF expected'.synced THEN "sync" ELSE "push",
                    status |-> expected'.status, exec |-> fCache,
                    todo |-> {}, cleaned |-> FALSE, failed |-> FALSE]
  BY DEF BeginSync, specVars
<1>2. worker'.status = expected'.status /\ worker'.stage \in {"sync", "push"}
  BY <1>1
<1>3. Written(expected'.status, remote)
  <2>1. CASE expected = NoInfo
    BY <1>1, <2>1 DEF Written
  <2>2. CASE expected # NoInfo
    BY <1>1, <2>2 DEF MoveInv
  <2> QED BY <2>1, <2>2
<1>4. Written(expected.status, remote)'
  BY <1>1, <1>3, MovesStay
<1>5. Held' \subseteq Held
  BY <1>1, <1>2 DEF Held
<1>6. \A s \in Held' : Due(s)'
  BY <1>1, <1>5, MovesStay DEF MoveInv
<1> QED BY <1>2, <1>4, <1>6 DEF MoveInv

\* A status is written over the one it was decided on.
LEMMA WriteIsMove ==
    ASSUME StatusInv, MoveInv, PushExpectedStatus \/ UpdateStatus
    PROVE  MoveInv' /\ Written(worker.status, remote)
<1>1. /\ worker # Idle /\ worker.stage \in {"push", "update"}
      /\ UNCHANGED job
      /\ remote' \in {remote, worker.status}
      /\ \/ expected' = expected /\ (remote' = remote \/ worker.status = expected.status)
         \/ \E b \in BOOLEAN : /\ expected' = [status |-> worker.status, synced |-> b]
                               /\ b => remote' = worker.status
      /\ \/ worker' = Idle
         \/ /\ worker.stage = "push" /\ worker' = [worker EXCEPT !.stage = "sync"]
            /\ expected' = [status |-> worker.status, synced |-> TRUE]
  BY WriteEffect
<1>2. /\ expected # NoInfo
      /\ worker.stage = "push" => worker.status = expected.status
      /\ worker.stage = "update" => expected.status = remote
      /\ worker \in Worker
  BY <1>1 DEF StatusInv, TypeOK, WorkerFits, ExpectedFits
<1>3. Written(worker.status, remote)
  BY <1>1, <1>2 DEF MoveInv
<1>4. Written(expected'.status, remote')
  <2>1. CASE expected' = expected /\ remote' = remote
    BY <1>2, <2>1 DEF MoveInv
  <2>2. CASE expected'.status = worker.status
    BY <1>1, <1>3, <2>2 DEF Written
  <2>3. \A b : expected' = [status |-> worker.status, synced |-> b] =>
              expected'.status = worker.status
    OBVIOUS
  <2> QED BY <1>1, <2>1, <2>2, <2>3
<1>5. Written(expected.status, remote)'
  BY <1>1, <1>4, MovesStay
<1>6. worker' = Idle \/ (worker'.stage = "sync" /\ worker'.status = worker.status)
  BY <1>1, <1>2 DEF Worker
<1>7. Held' \subseteq Held
  BY <1>1, <1>2, <1>6 DEF Held
<1>8. \A s \in Held' : Due(s)'
  BY <1>1, <1>7, MovesStay DEF MoveInv
<1> QED BY <1>3, <1>5, <1>6, <1>8 DEF MoveInv

\* Every step keeps it, and what it makes of the persisted status is one move.
LEMMA StepMoves ==
    ASSUME StatusInv, MoveInv, [Next]_vars
    PROVE  MoveInv' /\ Written(remote', remote)
<1>1. CASE SyncFramework \/ SyncTask
  <2>1. UNCHANGED remote
    BY <1>1, FrameworkCalls, TaskCalls DEF statusVars
  <2> QED BY <1>1, <2>1, SyncKeepsMoves DEF Written
<1>2. CASE BeginSync
  BY <1>2, BeginKeepsMoves DEF BeginSync, Written
<1>3. CASE PushExpectedStatus \/ UpdateStatus
  BY <1>3, WriteIsMove, WriteEffect DEF Written
<1>4. CASE InformerNext \/ ClusterNext \/ Restart \/ UNCHANGED vars
  <2>1. /\ UNCHANGED <<job, remote>>
        /\ UNCHANGED <<expected, worker>> \/ (worker' = Idle /\ expected' = NoInfo)
    BY <1>4, SurroundingsEffect
  <2>2. CASE UNCHANGED <<expected, worker>>
    <3>1. worker # Idle /\ worker.status # NoStatus => Due(worker.status)
      BY DEF MoveInv, Held
    <3>2. MoveInv'
      BY <2>1, <2>2, <3>1, MovesGoOn DEF MoveInv
    <3> QED BY <2>1, <3>2 DEF Written
  <2>3. CASE worker' = Idle /\ expected' = NoInfo
    <3>1. Held' \subseteq Held
      BY <2>1, <2>3 DEF Held
    <3>2. \A s \in Held' : Due(s)'
      BY <2>1, <3>1, MovesStay DEF MoveInv
    <3> QED BY <2>1, <2>3, <3>2 DEF MoveInv, Written
  <2> QED BY <2>1, <2>2, <2>3
<1> QED BY <1>1, <1>2, <1>3, <1>4 DEF Next, WorkerNext

\* The invariant of the moves holds in every state of every framework.
THEOREM MoveInvHolds == Spec => []MoveInv
<1>1. Init => MoveInv
  BY DEF Init, MoveInv, Held
<1> QED BY <1>1, StepMoves, StatusInvHolds, PTL DEF Spec

(***************************************************************************)
(* Retries are counted.                                                    *)
(***************************************************************************)
\* A retry that counts is one that the policy allows.
LEMMA RetryCounts ==
    ASSUME job \in Frameworks, NEW of \in {"framework", "task"}, NEW n, NEW a, a.counted \in Nat,
           MaxRetryCount[of] >= 0, a.counted <= MaxRetryCount[of],
           Life!Same(n, a) \/ Life!Retried(n, a, of)
    PROVE  n.counted <= MaxRetryCount[of]
<1>1. MaxRetryCount[of] \in {-2, -1} \union Nat
  BY JobFacts DEF Framework, MaxRetryCount
<1>2. CASE Life!Same(n, a)
  BY <1>2 DEF Life!Same
<1>3. CASE Life!Retried(n, a, of)
  <2>1. /\ ~Life!GivenUp(a, of)
        /\ n.counted = a.counted + IF Life!Free(a, of) THEN 0 ELSE 1
    BY <1>3 DEF Life!Retried
  <2>2. ~Life!Free(a, of) => ~(MaxRetryCount[of] \in 0..a.counted)
    BY <1>1, <2>1 DEF Life!GivenUp, MaxRetryCount
  <2> QED BY <1>1, <2>1, <2>2
<1> QED BY <1>2, <1>3

\* What the policy allows, of a status.
Allowed(s) ==
    /\ MaxRetryCount["framework"] >= 0 => s.accounted <= MaxRetryCount["framework"]
    /\ MaxRetryCount["task"] >= 0 =>
          \A t \in Tasks : s.tasks[t].accounted <= MaxRetryCount["task"]

\* A move keeps to it.
LEMMA MovesAreAllowed ==
    ASSUME job \in Frameworks, NEW old \in Status \union {NoStatus},
           NEW new \in Status \union {NoStatus}, Written(new, old),
           old # NoStatus => Allowed(old), new # NoStatus
    PROVE  Allowed(new)
<1> DEFINE n == FullView(new)
           o == FullView(old)
<1>1. new \in Status
  OBVIOUS
<1>2. /\ n.counted = new.accounted
      /\ \A t \in Tasks : n.tasks[t].counted = new.tasks[t].accounted
  BY <1>1, FullyViewed, Viewed DEF Status
<1>3. \A of \in {"framework", "task"} : MaxRetryCount[of] \in {-2, -1} \union Nat
  BY JobFacts DEF Framework, MaxRetryCount
<1>4. ASSUME NEW number, NEW counted, n = Life!New(number, counted)
      PROVE  n.counted = counted /\ \A t \in Tasks : n.tasks[t].counted = 0
  BY <1>4 DEF Life!New, Life!NewTask, Life!Tasks, Tasks
<1>5. CASE old = NoStatus
  <2>1. n = Life!New(0, 0)
    BY <1>5 DEF Written
  <2>2. n.counted = 0 /\ \A t \in Tasks : n.tasks[t].counted = 0
    BY <1>4, <2>1
  <2> HIDE DEF n
  <2> QED BY <1>2, <1>3, <2>2 DEF Allowed
<1>6. CASE old # NoStatus
  <2>0. old \in Status /\ Allowed(old)
    BY <1>6
  <2>1. /\ o.counted = old.accounted /\ o.counted \in Nat
        /\ \A t \in Tasks : /\ o.tasks[t].counted = old.tasks[t].accounted
                            /\ o.tasks[t].counted \in Nat
    <3>1. /\ o.counted = old.accounted /\ old.accounted \in Nat
          /\ \A t \in Tasks : o.tasks[t] = View(old.tasks[t])
      BY <2>0, FullyViewed DEF Status
    <3>2. \A t \in Tasks : old.tasks[t] \in TaskStatus
      BY <2>0 DEF Status
    <3>3. \A t \in Tasks : View(old.tasks[t]).counted = old.tasks[t].accounted
      BY <3>2, Viewed
    <3>4. \A t \in Tasks : old.tasks[t].accounted \in Nat
      BY <3>2 DEF TaskStatus
    <3> HIDE DEF o
    <3> QED BY <3>1, <3>3, <3>4
  <2> HIDE DEF n, o
  <2>2. /\ MaxRetryCount["framework"] >= 0 => o.counted <= MaxRetryCount["framework"]
        /\ MaxRetryCount["task"] >= 0 =>
              \A t \in Tasks : o.tasks[t].counted <= MaxRetryCount["task"]
    BY <2>0, <2>1 DEF Allowed
  <2>3. \/ n = o
        \/ /\ Life!Same(n, o)
           /\ \A t \in Tasks : \/ Life!Same(n.tasks[t], o.tasks[t])
                               \/ Life!Retried(n.tasks[t], o.tasks[t], "task")
        \/ Life!Retried(n, o, "framework") /\ n = Life!New(n.number, n.counted)
        \/ Life!Same(n, o) /\ n.tasks = o.tasks
    <3>1. \/ n = o
          \/ Life!Proceeds(n, o) \/ Life!Completes(n, o)
          \/ Life!Retries(n, o) \/ Life!Finishes(n, o)
      BY <1>6 DEF Written, n, o
    <3> QED
      BY <3>1
      DEF Life!Proceeds, Life!Completes, Life!Retries, Life!Finishes, Life!Advances, Life!Finished,
          Life!Tasks, Tasks
  <2>4. MaxRetryCount["framework"] >= 0 => n.counted <= MaxRetryCount["framework"]
    BY <2>1, <2>2, <2>3, RetryCounts
  <2>5. ASSUME MaxRetryCount["task"] >= 0, NEW t \in Tasks
        PROVE  n.tasks[t].counted <= MaxRetryCount["task"]
    <3>1. CASE n = o \/ n.tasks = o.tasks
      BY <2>2, <2>5, <3>1
    <3>2. CASE Life!Same(n.tasks[t], o.tasks[t]) \/ Life!Retried(n.tasks[t], o.tasks[t], "task")
      BY <2>1, <2>2, <2>5, <3>2, RetryCounts
    <3>3. CASE n = Life!New(n.number, n.counted)
      <4>1. n.tasks[t].counted = 0
        BY <1>4, <3>3
      <4> QED BY <1>3, <2>5, <4>1
    <3> QED BY <2>3, <3>1, <3>2, <3>3
  <2> QED BY <1>2, <2>4, <2>5 DEF Allowed
<1> QED BY <1>5, <1>6

\* maxRetryCount: neither the framework nor a task is retried more often than its policy
\* allows, not counting the retries that a fancy policy grants for free, whatever sync is
\* repeated after a lost answer or a restart, or decided on a stale cache.
THEOREM RetriesStayWithinPolicy == Spec => []RetriesWithinPolicy
<1>1. Init => RetriesWithinPolicy
  BY DEF Init, RetriesWithinPolicy
<1>2. RetriesWithinPolicy <=> (remote # NoStatus => Allowed(remote))
  BY DEF RetriesWithinPolicy, Allowed
<1>3. ASSUME StatusInv, StatusInv', MoveInv, RetriesWithinPolicy, [Next]_vars
      PROVE  RetriesWithinPolicy'
  <2>1. /\ Written(remote', remote) /\ job \in Frameworks /\ UNCHANGED job
        /\ remote \in Status \union {NoStatus}
    BY <1>3, StepMoves, NextKeepsJob DEF StatusInv, TypeOK
  <2>2. remote' \in Status \union {NoStatus}
    BY <1>3, <2>1, StaticSets DEF StatusInv, TypeOK
  <2>3. remote' # NoStatus => Allowed(remote')
    BY <1>2, <1>3, <2>1, <2>2, MovesAreAllowed
  <2>4. ASSUME NEW s, Allowed(s) PROVE Allowed(s)'
    BY <2>1, <2>4, StaticSets DEF Allowed, MaxRetryCount
  <2>5. remote' # NoStatus => Allowed(remote)'
    BY <2>3, <2>4
  <2> QED BY <2>5 DEF RetriesWithinPolicy, Allowed
<1> QED BY <1>1, <1>3, StatusInvHolds, MoveInvHolds, PTL DEF Spec
(***************************************************************************)
(* The refinement: every step is one of AttemptLifecycle, or one that its  *)
(* clients do not see.                                                     *)
(***************************************************************************)
\* The instance, and the instance that each pod belongs to, as AttemptLifecycle has them.
Instance   == IF cm = NoObject THEN 0 ELSE cm.uid
Owner(pod) == IF pod = NoObject THEN 0 ELSE pod.owner
Owners     == [t \in Tasks |-> Owner(pods[t])]

\* A step that its clients do not see.
LEMMA LifeStutters ==
    ASSUME UNCHANGED <<job, remote>>, Instance' = Instance, uids'.cm = uids.cm, Owners' = Owners
    PROVE  UNCHANGED Life!vars
<1>1. Tasks' = Tasks
  BY StaticSets
<1>2. FullView(remote)' = FullView(remote)
  BY <1>1 DEF FullView
<1> QED BY <1>2 DEF Life!vars, Life!objects, Instance, Owners, Owner

\* What is shown after a write.
LEMMA ShownPrimed == ASSUME UNCHANGED job PROVE FullView(remote)' = FullView(remote')
<1>1. Tasks' = Tasks
  BY StaticSets
<1> QED BY <1>1 DEF FullView

\* Nothing is created that the status does not say, and nothing is left of what it says to
\* be over: the conditions of AttemptLifecycle, from the invariant of the instances.
LEMMA NothingLeft ==
    ASSUME Instances, remote \in Status
    PROVE  /\ \A t \in Tasks : Phase(remote.tasks[t].state) \in {"over", "done"} =>
                                  pods[t] = NoObject
           /\ Phase(remote.state) \in {"over", "done"} =>
                 cm = NoObject /\ \A t \in Tasks : pods[t] = NoObject
<1>1. Fits(remote) /\ PodsOwned
  BY NotNothing DEF Instances, Held
<1>2. /\ \A t \in Tasks : remote.tasks[t].state \in States
      /\ remote.state \in States
  BY DEF Status, TaskStatus
<1>3. \A st \in States : Phase(st) \in {"over", "done"} => st \in Ended
  BY Phased DEF Ended
<1> QED BY <1>1, <1>2, <1>3 DEF Fits, PodFits, CmFits, PodsOwned

\* A write is a move of AttemptLifecycle.
LEMMA WriteIsLife ==
    ASSUME StatusInv, StatusInv', Instances', Written(remote', remote),
           UNCHANGED <<job, cm, pods, uids>>
    PROVE  Life!Next \/ UNCHANGED Life!vars
<1> DEFINE n == FullView(remote')
           o == FullView(remote)
<1>1. /\ Tasks' = Tasks /\ Status' = Status
      /\ remote \in Status \union {NoStatus} /\ remote' \in Status \union {NoStatus}
  BY StaticSets DEF StatusInv, TypeOK
<1>2. /\ FullView(remote)' = n
      /\ remote # NoStatus <=> o # NoStatus
      /\ remote # NoStatus => remote \in Status
  BY <1>1, ShownPrimed, FullyViewed DEF FullView
<1>3. UNCHANGED Life!objects
  BY <1>1 DEF Life!objects
<1>4. CASE n = o
  BY <1>2, <1>3, <1>4 DEF Life!vars
<1>5. CASE remote = NoStatus /\ remote' # NoStatus /\ n = Life!New(0, 0)
  <2>1. FullView(remote) = NoStatus
    BY <1>5 DEF FullView
  <2> HIDE DEF n
  <2>2. Life!Begin
    BY <1>2, <1>3, <1>5, <2>1 DEF Life!Begin
  <2> QED BY <2>2 DEF Life!Next
<1>6. CASE /\ remote # NoStatus /\ remote' # NoStatus
           /\ Life!Proceeds(n, o) \/ Life!Completes(n, o) \/ Life!Retries(n, o) \/ Life!Finishes(n, o)
  <2>1. /\ o # NoStatus /\ remote' \in Status
        /\ n \in Life!Shown /\ n.phase = Phase(remote'.state)
        /\ \A t \in Tasks : n.tasks[t].phase = Phase(remote'.tasks[t].state)
    <3>1. remote' \in Status
      BY <1>1, <1>6
    <3>2. \A t \in Tasks : remote'.tasks[t] \in TaskStatus
      BY <3>1 DEF Status
    <3> QED BY <1>2, <1>6, <3>1, <3>2, FullyViewed, Viewed
  <2>2. /\ \A t \in Tasks : Phase(remote'.tasks[t].state) \in {"over", "done"} =>
                               pods[t] = NoObject
        /\ Phase(remote'.state) \in {"over", "done"} =>
              cm = NoObject /\ \A t \in Tasks : pods[t] = NoObject
    <3>1. ASSUME Instances', (remote \in Status)'
          PROVE  (/\ \A t \in Tasks : Phase(remote.tasks[t].state) \in {"over", "done"} =>
                                         pods[t] = NoObject
                  /\ Phase(remote.state) \in {"over", "done"} =>
                        cm = NoObject /\ \A t \in Tasks : pods[t] = NoObject)'
      BY <3>1, NothingLeft, PTL
    <3> QED BY <1>1, <2>1, <3>1
  <2> HIDE DEF n, o
  <2>3. Life!Show(n) /\ FullView(remote)' = n /\ FullView(remote) = o
    BY <1>2, <1>3, <2>1 DEF Life!Show, o
  <2>4. CASE Life!Proceeds(n, o)
    <3>1. \A t \in Life!Tasks : n.tasks[t].phase \in {"over", "done"} =>
              (IF pods[t] = NoObject THEN 0 ELSE pods[t].owner) = 0
      BY <2>1, <2>2 DEF Life!Tasks, Tasks
    <3>2. Life!Proceed
      BY <2>3, <2>4, <3>1 DEF Life!Proceed, Life!Tasks, Tasks
    <3> QED BY <3>2 DEF Life!Next
  <2>5. CASE Life!Completes(n, o)
    <3>1. n.phase = "over"
      BY <2>5 DEF Life!Completes
    <3>2. Life!Bare
      BY <2>1, <2>2, <3>1 DEF Life!Bare, Life!Tasks, Tasks
    <3>3. Life!Complete
      BY <2>3, <2>5, <3>2 DEF Life!Complete
    <3> QED BY <3>3 DEF Life!Next
  <2>6. CASE Life!Retries(n, o)
    BY <2>3, <2>6 DEF Life!Retry, Life!Next
  <2>7. CASE Life!Finishes(n, o)
    BY <2>3, <2>7 DEF Life!Finish, Life!Next
  <2> QED BY <1>6, <2>4, <2>5, <2>6, <2>7 DEF n, o
<1> QED BY <1>1, <1>4, <1>5, <1>6 DEF Written
\* What the sync of the framework does to the objects.
LEMMA ConfigMapCalls ==
    ASSUME SyncFramework
    PROVE  \/ UNCHANGED objVars
           \/ \E uid : MarkConfigMap(uid)
           \/ CreateConfigMap /\ cm = NoObject /\ NewConfigMap
<1> USE DEF NoCall
<1>1. CASE CreateStatus \/ BackUpGracePeriod \/ SkipCompleted \/ WaitForConfigMap
           \/ ConfigMapDisappeared \/ SyncAttempt \/ ConfigMapDeleting
           \/ CompleteFramework \/ DelayRetry \/ RetryFramework
  BY <1>1 DEF CreateStatus, BackUpGracePeriod, SkipCompleted, WaitForConfigMap, ConfigMapDisappeared,
     SyncAttempt, ConfigMapDeleting, CompleteFramework, DelayRetry, RetryFramework
<1>2. CASE CleanUpConfigMap \/ GiveUpOnConfigMap \/ RequestConfigMapDeletion
  BY <1>2 DEF CleanUpConfigMap, GiveUpOnConfigMap, RequestConfigMapDeletion
<1>3. CASE StopBeforeCreation \/ CreateConfigMap
  BY <1>3 DEF StopBeforeCreation, CreateConfigMap
<1> QED BY <1>1, <1>2, <1>3 DEF SyncFramework

\* The instance is created while the attempt is open and nothing is there.
LEMMA CreateIsLife ==
    ASSUME StatusInv, Instances, SyncFramework, CreateConfigMap, cm = NoObject, NewConfigMap
    PROVE  Life!Create
<1>1. /\ Syncing /\ UNCHANGED <<specVars, statusVars, pods>> /\ ObjTyped /\ ObjTyped'
  BY FrameworkCalls, TypesByGroup DEF StatusInv
<1>2. /\ UNCHANGED <<job, remote>> /\ Tasks' = Tasks
  BY <1>1, StaticSets DEF specVars, statusVars
<1>3. /\ remote \in Status /\ remote.state = "AttemptCreationPending" /\ PodsOwned
  BY <1>1, SyncFacts, SyncHolds DEF CreateConfigMap, Settled
<1>4. FullView(remote)' = FullView(remote)
  BY <1>2, ShownPrimed
<1>5. Life!Open
  <2>1. Phase(remote.state) = "open"
    BY <1>3 DEF Phase, Completing
  <2> QED BY <1>3, <2>1, FullyViewed DEF Life!Open
<1>6. Life!Bare
  BY <1>3 DEF Life!Bare, PodsOwned, Life!Tasks, Tasks
<1>7. /\ uids'.cm = uids.cm + 1 /\ cm'.uid = uids'.cm /\ cm' # NoObject
  <2>1. /\ cm' = [uid |-> uids.cm + 1, deleting |-> FALSE, foreground |-> TRUE]
        /\ uids' = [uids EXCEPT !.cm = uids.cm + 1]
    BY DEF NewConfigMap
  <2>2. uids'.cm = uids.cm + 1 /\ cm'.uid = uids.cm + 1
    BY <1>1, <2>1 DEF ObjTyped
  <2>3. cm' # NoObject
    <3>1. uids.cm + 1 \in Nat \ {0}
      BY <1>1 DEF ObjTyped
    <3>2. [uid |-> uids.cm + 1, deleting |-> FALSE, foreground |-> TRUE] \in ConfigMap
      BY <3>1 DEF ConfigMap
    <3> QED BY <2>1, <3>2, NotNothing
  <2> QED BY <2>2, <2>3
<1> QED BY <1>1, <1>2, <1>4, <1>5, <1>6, <1>7 DEF Life!Create

\* So every step of the sync of the framework is one of AttemptLifecycle.
LEMMA SyncFrameworkIsLife ==
    ASSUME StatusInv, Instances, SyncFramework
    PROVE  Life!Next \/ UNCHANGED Life!vars
<1>1. UNCHANGED <<specVars, statusVars, pods>> /\ cm \in ConfigMap \union {NoObject}
  BY FrameworkCalls DEF StatusInv, TypeOK
<1>2. UNCHANGED <<job, remote, pods>> /\ Tasks' = Tasks
  BY <1>1, StaticSets DEF specVars, statusVars
<1>3. Owners' = Owners
  BY <1>2 DEF Owners, Owner
<1>4. CASE UNCHANGED objVars
  <2>1. Instance' = Instance /\ uids'.cm = uids.cm
    BY <1>4 DEF objVars, Instance
  <2> QED BY <1>2, <1>3, <2>1, LifeStutters
<1>5. CASE \E uid : MarkConfigMap(uid)
  <2>1. /\ cm = NoObject <=> cm' = NoObject
        /\ cm # NoObject => cm'.uid = cm.uid
    BY <1>1, <1>2, <1>5, OwnedStay
  <2>2. Instance' = Instance /\ uids'.cm = uids.cm
    BY <1>5, <2>1 DEF Instance, MarkConfigMap
  <2> QED BY <1>2, <1>3, <2>2, LifeStutters
<1>6. CASE CreateConfigMap /\ cm = NoObject /\ NewConfigMap
  BY <1>6, CreateIsLife DEF Life!Next
<1> QED BY <1>4, <1>5, <1>6, ConfigMapCalls

\* A pod that ages is the same one for AttemptLifecycle, or gone.
LEMMA OnePodGoes ==
    ASSUME ObjTyped, UNCHANGED <<job, remote, cm>>, uids'.cm = uids.cm, NEW t \in Tasks,
           PodMayBecome(pods[t], pods'[t]), \A u \in Tasks \ {t} : pods'[u] = pods[u]
    PROVE  Life!Next \/ UNCHANGED Life!vars
<1>1. Tasks' = Tasks /\ Life!Tasks = Tasks /\ FullView(remote)' = FullView(remote)
  BY StaticSets, ShownPrimed DEF Life!Tasks, Tasks
<1>2. CASE Owner(pods'[t]) = Owner(pods[t])
  <2>1. Owners' = Owners
    BY <1>1, <1>2 DEF Owners, Owner
  <2> QED BY <2>1, LifeStutters DEF Instance
<1>3. CASE Owner(pods'[t]) # Owner(pods[t])
  <2>1. pods'[t] = NoObject /\ pods[t] # NoObject /\ pods[t].owner # 0
    BY <1>3 DEF PodMayBecome, Owner, ObjTyped, Pod
  <2>2. Owners' = [Owners EXCEPT ![t] = 0]
    BY <1>1, <2>1 DEF Owners, Owner
  <2>3. Life!RemovePod(t)
    BY <1>1, <2>1, <2>2 DEF Life!RemovePod, Owners, Owner
  <2> QED BY <1>1, <2>3 DEF Life!Next
<1> QED BY <1>2, <1>3

\* The sync of a task touches the pod of that task only.
LEMMA OtherPodsStay ==
    ASSUME SyncTask, pods \in [Tasks -> Pod \union {NoObject}]
    PROVE  \A u \in Tasks \ {Task} : pods'[u] = pods[u]
<1> USE DEF NoCall, objVars, FailTask
<1>1. ASSUME NEW uid, MarkPod(Task, uid) \/ ForcePod(Task, uid) \/ UNCHANGED pods \/ NewPod
      PROVE  \A u \in Tasks \ {Task} : pods'[u] = pods[u]
  BY <1>1 DEF MarkPod, ForcePod, NewPod
<1>2. CASE SkipCompletedTask \/ WaitForPod \/ PodDisappeared \/ WaitPodDeletion \/ ObservePod
           \/ RetryTask \/ CompleteTask
  BY <1>2 DEF SkipCompletedTask, WaitForPod, PodDisappeared, WaitPodDeletion, ObservePod,
     RetryTask, CompleteTask
<1>3. CASE CleanUpPod \/ GiveUpOnPod \/ RequestPodDeletion
  BY <1>1, <1>3 DEF CleanUpPod, GiveUpOnPod, RequestPodDeletion
<1>4. CASE PodDeleting \/ RejectPod \/ CreatePod
  BY <1>1, <1>4 DEF PodDeleting, RejectPod, CreatePod
<1> QED BY <1>2, <1>3, <1>4 DEF SyncTask
\* A pod is created while the attempts of the framework and of the task are open, for the
\* instance that is there.
LEMMA NewPodIsLife ==
    ASSUME StatusInv, Instances, SyncTask, NewPod, TS.state = "AttemptCreationPending",
           pods[Task] = NoObject, Status0.state \notin Completing
    PROVE  \E t \in Life!Tasks : Life!CreatePod(t)
<1>1. /\ Tasking /\ UNCHANGED <<specVars, statusVars, cm>>
  BY TaskCalls
<1>2. /\ UNCHANGED <<job, remote, cm>> /\ Tasks' = Tasks /\ Life!Tasks = Tasks
  BY <1>1, StaticSets DEF specVars, statusVars, Life!Tasks, Tasks
<1>3. /\ Task \in Tasks /\ Status0 \in Status /\ remote \in Status
      /\ Status0.state \notin Ended /\ Status0.uid \in Nat \ {0}
      /\ Status0.retried = remote.retried /\ Later(Status0, remote)
      /\ cm # NoObject /\ cm.uid = Status0.uid
      /\ remote.tasks[Task].state = "AttemptCreationPending"
  <2>1. remote \in Status /\ remote # NoStatus
    BY <1>1, TaskFacts, NotNothing
  <2> QED BY <1>1, <2>1, TaskFacts, TaskHolds DEF Exposed, SameInstance
<1>4. /\ uids'.cm = uids.cm /\ pods'[Task].owner = cm.uid /\ pods'[Task] # NoObject
      /\ \A t \in Tasks \ {Task} : pods'[t] = pods[t]
  BY <1>1, <1>2, <1>3, NewPodIsNew, NotNothing
<1>5. Phase(remote.state) = "open"
  <2>1. /\ Status0.state \in States /\ remote.state \in States
        /\ Rank(Status0.state) >= Rank(remote.state)
    BY <1>3 DEF Later, Status
  <2>2. Rank(Status0.state) <= 4
    BY <1>3, <2>1, Phased
  <2>3. Rank(remote.state) <= 4
    BY <2>1, <2>2, RankTyped
  <2> QED BY <2>1, <2>3, Phased
<1>6. Phase(remote.tasks[Task].state) = "open"
  BY <1>3 DEF Phase, Completing
<1>7. /\ FullView(remote) # NoStatus /\ FullView(remote).phase = "open"
      /\ FullView(remote).tasks[Task].phase = "open"
  <2>1. remote.tasks[Task] \in TaskStatus
    BY <1>3 DEF Status
  <2>2. FullView(remote).tasks[Task] = View(remote.tasks[Task])
    BY <1>3, FullyViewed
  <2> QED BY <1>3, <1>5, <1>6, <2>1, <2>2, FullyViewed, Viewed
<1>8. FullView(remote)' = FullView(remote)
  BY <1>2, ShownPrimed
<1>9. Owners[Task] = 0 /\ Owners' = [Owners EXCEPT ![Task] = cm.uid]
  BY <1>2, <1>3, <1>4 DEF Owners, Owner
<1>10. Instance = cm.uid /\ Instance # 0
  BY <1>3 DEF Instance
<1>11. ASSUME NEW t \in Tasks, t = Task PROVE Life!CreatePod(t)
  BY <1>2, <1>4, <1>7, <1>8, <1>9, <1>10, <1>11
  DEF Life!CreatePod, Life!Open, Owners, Owner, Instance
<1>12. PICK t \in Tasks : t = Task
  BY <1>3
<1>13. Life!CreatePod(t)
  BY <1>11, <1>12
<1> QED BY <1>2, <1>13

\* So every step of the sync of a task is one of AttemptLifecycle.
LEMMA SyncTaskIsLife ==
    ASSUME StatusInv, Instances, SyncTask
    PROVE  Life!Next \/ UNCHANGED Life!vars
<1>1. /\ Tasking /\ UNCHANGED <<specVars, statusVars, cm>> /\ ObjTyped
      /\ \/ PodsAge /\ UNCHANGED uids
         \/ /\ NewPod /\ TS.state = "AttemptCreationPending"
            /\ pods[Task] = NoObject /\ Status0.state \notin Completing
  BY TaskCalls, TypesByGroup DEF StatusInv
<1>2. UNCHANGED <<job, remote, cm>> /\ Life!Tasks = Tasks /\ Task \in Tasks
  BY <1>1, TaskIsLeft DEF specVars, statusVars, Life!Tasks, Tasks
<1>3. CASE PodsAge /\ UNCHANGED uids
  <2>1. PodMayBecome(pods[Task], pods'[Task])
    BY <1>2, <1>3 DEF PodsAge
  <2>2. \A u \in Tasks \ {Task} : pods'[u] = pods[u]
    BY <1>1, OtherPodsStay DEF ObjTyped
  <2> QED BY <1>1, <1>2, <1>3, <2>1, <2>2, OnePodGoes
<1>4. CASE /\ NewPod /\ TS.state = "AttemptCreationPending"
           /\ pods[Task] = NoObject /\ Status0.state \notin Completing
  BY <1>4, NewPodIsLife DEF Life!Next
<1> QED BY <1>1, <1>3, <1>4

\* The ConfigMap goes after its pods.
LEMMA RemoveIsLife ==
    ASSUME StatusInv, Instances, RemoveConfigMap
    PROVE  Life!Remove
<1>1. /\ UNCHANGED <<job, remote, pods, uids>> /\ cm # NoObject /\ cm' = NoObject
  BY DEF RemoveConfigMap, ClusterStep, statusVars
<1>2. Tasks' = Tasks /\ Life!Tasks = Tasks /\ FullView(remote)' = FullView(remote)
  BY <1>1, StaticSets, ShownPrimed DEF Life!Tasks, Tasks
<1>3. cm.foreground /\ PodsOwned /\ cm.uid # 0
  BY <1>1 DEF Instances, StatusInv, TypeOK, ConfigMap
<1>4. \A t \in Tasks : pods[t] = NoObject
  BY <1>1, <1>3 DEF RemoveConfigMap, PodsOwned
<1> QED BY <1>1, <1>2, <1>3, <1>4 DEF Life!Remove

\* What users, the cluster and the informers do.
LEMMA SurroundingsAreLife ==
    ASSUME StatusInv, Instances, InformerNext \/ ClusterNext \/ Restart \/ UNCHANGED vars
    PROVE  Life!Next \/ UNCHANGED Life!vars
<1>1. UNCHANGED <<job, remote, uids>> /\ Tasks' = Tasks /\ ObjTyped
  BY SurroundingsEffect, StaticSets, TypesByGroup DEF StatusInv
<1>2. CASE UNCHANGED <<cm, pods>>
  BY <1>1, <1>2, LifeStutters DEF Instance, Owners, Owner
<1>3. CASE RemoveConfigMap
  BY <1>3, RemoveIsLife DEF Life!Next
<1>4. CASE DeleteConfigMapByOthers
  <2>1. cm # NoObject /\ cm \in ConfigMap /\ UNCHANGED pods
    BY <1>1, <1>4 DEF DeleteConfigMapByOthers, ObjTyped
  <2>2. [cm EXCEPT !.deleting = TRUE] # NoObject /\ [cm EXCEPT !.deleting = TRUE].uid = cm.uid
    BY <2>1, NotNothing DEF ConfigMap
  <2>3. Instance' = Instance
    BY <1>4, <2>1, <2>2 DEF DeleteConfigMapByOthers, Instance
  <2> QED BY <1>1, <2>1, <2>3, LifeStutters DEF Owners, Owner
<1>5. ASSUME NEW t \in Tasks,
             StartPod(t) \/ RemovePod(t) \/ CollectPod(t) \/ DeletePodByOthers(t)
                \/ \E result \in Results : EndPod(t, result)
      PROVE  Life!Next \/ UNCHANGED Life!vars
  <2>1. UNCHANGED cm /\ \E p : pods' = [pods EXCEPT ![t] = p]
    BY <1>5 DEF StartPod, RemovePod, CollectPod, DeletePodByOthers, EndPod, PodStep
  <2>2. \A u \in Tasks \ {t} : pods'[u] = pods[u]
    BY <1>1, <2>1 DEF ObjTyped
  <2>3. PodsAge \/ UNCHANGED pods
    BY SurroundingsEffect
  <2> QED BY <1>1, <1>2, <2>1, <2>2, <2>3, OnePodGoes DEF PodsAge
<1>6. CASE InformerNext \/ Restart \/ UNCHANGED vars
  <2>1. UNCHANGED <<cm, pods>>
    BY <1>6 DEF InformerNext, SeeFramework, SeeConfigMap, SeePod, FireTimer, Restart, vars, objVars
  <2> QED BY <1>2, <2>1
<1>7. CASE ClusterNext
  <2>1. CASE \E e \in {"Start", "Stop"} : SetExecution(e)
    BY <1>2, <2>1 DEF SetExecution, objVars
  <2> QED BY <1>3, <1>4, <1>5, <1>7, <2>1 DEF ClusterNext
<1> QED BY <1>6, <1>7

\* Every step is a step of AttemptLifecycle, as long as nobody else deletes a ConfigMap.
LEMMA StepIsLife ==
    ASSUME StatusInv, StatusInv', InstanceInv, InstanceInv', MoveInv, Untouched, Untouched',
           [Next]_vars
    PROVE  Life!Next \/ UNCHANGED Life!vars
<1>1. Instances /\ Instances'
  BY DEF InstanceInv
<1>2. CASE PushExpectedStatus \/ UpdateStatus
  <2>1. UNCHANGED <<job, cm, pods, uids>>
    BY <1>2, WriteEffect DEF objVars
  <2> QED BY <1>1, <2>1, StepMoves, WriteIsLife
<1>3. CASE BeginSync
  <2>1. UNCHANGED <<job, remote, cm, pods, uids>>
    BY <1>3 DEF BeginSync, specVars, objVars
  <2> QED BY <2>1, LifeStutters, StaticSets DEF Instance, Owners, Owner
<1> QED
  BY <1>1, <1>2, <1>3, SyncFrameworkIsLife, SyncTaskIsLife, SurroundingsAreLife
  DEF Next, WorkerNext

\* The controller implements AttemptLifecycle as long as nobody else deletes the ConfigMap of
\* the framework: attempts come one after the other as the retry policy says, none is created
\* or given pods but while it is shown as open, and none is shown as over but when its objects
\* are gone, whatever is lost, late, repeated or restarted.
THEOREM ImplementsAttemptLifecycle == Spec => ([]Untouched => KeepsLifecycle)
<1>1. Init => Life!Init
  <2> SUFFICES ASSUME Init PROVE Life!Init
    OBVIOUS
  <2>1. FullView(remote) = NoStatus
    BY DEF Init, FullView
  <2> QED BY <2>1 DEF Init, Life!Init, Life!Tasks, Tasks
<1>2. ASSUME StatusInv, StatusInv', InstanceInv, InstanceInv', MoveInv, Untouched, Untouched',
             [Next]_vars
      PROVE  [Life!Next]_(Life!vars)
  BY <1>2, StepIsLife
<1> QED BY <1>1, <1>2, StatusInvHolds, InstanceInvHolds, MoveInvHolds, PTL
        DEF Spec, KeepsLifecycle, Life!Spec
=============================================================================
