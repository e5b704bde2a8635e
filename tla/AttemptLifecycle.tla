-------------------------- MODULE AttemptLifecycle --------------------------
(***************************************************************************)
(* What the framework controller promises about one framework, as clients  *)
(* of the API server see it: the status of its attempt and of the attempts *)
(* of its tasks, and the objects that run them.                            *)
(*                                                                         *)
(*   - Attempts come one after the other.  Each is over before the next    *)
(*     one begins, with a completion code that is given once.              *)
(*   - The retry policy decides, attempt by attempt, whether there is a    *)
(*     next one and whether it counts, for the framework and for its tasks.*)
(*   - An attempt has one instance at a time, and a task one pod, which    *)
(*     belongs to it.  They are created only while the attempt is open,    *)
(*     and they are gone when it is over.                                  *)
(*                                                                         *)
(* FrameworkController implements this module, as long as nobody else      *)
(* deletes the ConfigMap of the framework.                                 *)
(***************************************************************************)
EXTENDS Integers

CONSTANTS
    Codes,      \* the completion codes
    Transient,  \* those that a fancy retry policy retries for free
    Permanent,  \* those that it never retries
    Final,      \* those that no policy retries: the end was ordered
    NoCode,     \* not completed
    None        \* no status yet

VARIABLES
    job,        \* the framework: its tasks and its retry policy
    shown,      \* the status that clients see, or None
    instance,   \* the instance of the attempt that is there, or 0
    last,       \* the last instance that was created
    pods        \* per task: the instance its pod belongs to, or 0

objects == <<instance, last, pods>>
vars == <<job, shown, objects>>

Tasks   == job.tasks
Phases  == {"open", "closing", "over", "done"}
Attempt == [number : Nat, counted : Nat, phase : Phases, code : Codes \union {NoCode}]
Shown   == [number : Nat, counted : Nat, phase : Phases, code : Codes \union {NoCode},
            tasks : [Tasks -> Attempt]]

NewTask == [number |-> 0, counted |-> 0, phase |-> "open", code |-> NoCode]
New(number, counted) == [number |-> number, counted |-> counted, phase |-> "open",
                         code |-> NoCode, tasks |-> [t \in Tasks |-> NewTask]]

Init ==
    /\ shown = None
    /\ instance = 0 /\ last = 0
    /\ pods = [t \in Tasks |-> 0]

Bare == instance = 0 /\ \A t \in Tasks : pods[t] = 0

-----------------------------------------------------------------------------
(***************************************************************************)
(* What may be seen of an attempt after a, of the framework or of a task.  *)
(***************************************************************************)
Free(a, of) == job.fancy[of] /\ a.code \in Transient

GivenUp(a, of) ==
    \/ a.code \in Final
    \/ job.fancy[of] /\ a.code \in Permanent
    \/ /\ ~Free(a, of) /\ job.retries[of] # -2
       /\ a.code = "Succeeded" \/ job.retries[of] \in 0..a.counted

\* The attempt is the same, and how it completed is what it was.
Same(n, a) ==
    /\ n.number = a.number /\ n.counted = a.counted
    /\ a.code # NoCode => n.code = a.code
    /\ n.phase \in {"over", "done"} => n.code # NoCode

Advances(n, a) ==
    /\ Same(n, a)
    /\ \/ a.phase = "open" /\ n.phase \in {"open", "closing", "over"}
       \/ a.phase = "closing" /\ n.phase \in {"closing", "over"}
       \/ a.phase = "over" /\ n.phase = "over"
       \/ a.phase = "done" /\ n.phase = "done"

\* The next attempt; that of a task may end with the attempt of the framework at once.
Retried(n, a, of) ==
    /\ a.phase = "over" /\ ~GivenUp(a, of)
    /\ n.phase = "open" /\ n.code \in {NoCode} \union Final
    /\ n.number = a.number + 1
    /\ n.counted = a.counted + IF Free(a, of) THEN 0 ELSE 1

Finished(n, a, of) ==
    /\ a.phase = "over" /\ GivenUp(a, of)
    /\ n.phase = "done" /\ Same(n, a)

-----------------------------------------------------------------------------
(***************************************************************************)
(* What may be shown next.                                                 *)
(***************************************************************************)
Underway == {"open", "closing"}

Proceeds(n, s) ==
    /\ s.phase \in Underway /\ n.phase \in Underway
    /\ Advances(n, s)
    /\ \A t \in Tasks : \/ Advances(n.tasks[t], s.tasks[t])
                        \/ Retried(n.tasks[t], s.tasks[t], "task")
                        \/ Finished(n.tasks[t], s.tasks[t], "task")

\* The attempt ends, and all its tasks with it.
Completes(n, s) ==
    /\ s.phase \in Underway /\ n.phase = "over"
    /\ Advances(n, s)
    /\ \A t \in Tasks : n.tasks[t].phase = "done" /\ Same(n.tasks[t], s.tasks[t])

Retries(n, s) ==
    /\ Retried(n, s, "framework")
    /\ n = New(n.number, n.counted)

Finishes(n, s) ==
    /\ Finished(n, s, "framework")
    /\ n.tasks = s.tasks

Begin ==
    /\ shown = None
    /\ shown' = New(0, 0)
    /\ UNCHANGED <<job, objects>>

Show(n) ==
    /\ shown # None /\ n \in Shown
    /\ shown' = n
    /\ UNCHANGED <<job, objects>>

\* A task attempt is shown as completed only when its pod is gone.
Proceed ==
    /\ Show(shown') /\ Proceeds(shown', shown)
    /\ \A t \in Tasks : shown'.tasks[t].phase \in {"over", "done"} => pods[t] = 0

\* The attempt is shown as completed only when nothing of it is left.
Complete == Show(shown') /\ Completes(shown', shown) /\ Bare
Retry    == Show(shown') /\ Retries(shown', shown)
Finish   == Show(shown') /\ Finishes(shown', shown)

-----------------------------------------------------------------------------
(***************************************************************************)
(* The objects.                                                            *)
(***************************************************************************)
Open == shown # None /\ shown.phase = "open"

Create ==
    /\ Open /\ Bare
    /\ last' = last + 1 /\ instance' = last'
    /\ UNCHANGED <<job, shown, pods>>

CreatePod(t) ==
    /\ Open /\ shown.tasks[t].phase = "open"
    /\ instance # 0 /\ pods[t] = 0
    /\ pods' = [pods EXCEPT ![t] = instance]
    /\ UNCHANGED <<job, shown, instance, last>>

RemovePod(t) ==
    /\ pods[t] # 0
    /\ pods' = [pods EXCEPT ![t] = 0]
    /\ UNCHANGED <<job, shown, instance, last>>

\* Foreground deletion: the pods go first.
Remove ==
    /\ instance # 0 /\ \A t \in Tasks : pods[t] = 0
    /\ instance' = 0
    /\ UNCHANGED <<job, shown, last, pods>>

\* What no client sees: most steps of a controller.
Unseen == UNCHANGED vars

Next ==
    \/ Unseen
    \/ Begin \/ Proceed \/ Complete \/ Retry \/ Finish
    \/ Create \/ Remove
    \/ \E t \in Tasks : CreatePod(t) \/ RemovePod(t)

Spec == Init /\ [][Next]_vars
=============================================================================
