------------------------ MODULE MCFrameworkController -----------------------
(* The frameworks that TLC explores. *)
EXTENDS FrameworkController

Never == [framework |-> 0, task |-> 0]
Once  == [framework |-> 1, task |-> 1]

\* fancyRetryPolicy, of the framework and of its tasks.
GangJob  == [framework |-> TRUE, task |-> FALSE]
OtherJob == [framework |-> TRUE, task |-> TRUE]

AtMost(n, names) == [b \in BoundNames |-> IF b \in names THEN n ELSE 0]

\* With the completion policy of the platform: the first failed task fails the attempt.
Job(tasks, results, fancy, grace, retries, bounds) ==
    [tasks |-> tasks, results |-> results, fancy |-> fancy, grace |-> grace,
     retries |-> retries, minFailed |-> 1, minSucceeded |-> Cardinality(tasks),
     bounds |-> AtMost(1, bounds)]

Ends == {"Succeeded", "ContainerConflict"}

Retried  == { Job({1}, Ends, OtherJob, TRUE, Once, {"failures", "errors", "restarts"} \ {b}) :
                  b \in {"failures", "errors", "restarts"} }
Stopped  == { Job({1}, {"Succeeded"}, OtherJob, TRUE, Never, {"orders", b}) :
                  b \in {"timeouts", "podDeletes"} }

\* Of two tasks one is rejected while the other runs, succeeds or succeeded, or one fails
\* while the other is created, runs or is torn down.
TwoTasks == { Job({1, 2}, {end}, GangJob, FALSE, Never, {"failures"}) : end \in Ends }

\* Without a period of grace, as the manual wants it for its guarantees.
ConfigMapDeleted == { Job({1}, {"Succeeded"}, GangJob, FALSE, Never, {"cmDeletes"}) }

\* A retry of the framework that counts, and as many failures as its policy allows and
\* one more.
Counted  == { [Job({1}, {"Succeeded", "ContainerFailed"}, GangJob, FALSE,
                   [framework |-> 1, task |-> 0], {}) EXCEPT !.bounds["failures"] = 2] }

Explored == Retried \union Stopped \union TwoTasks \union Counted

Fair == { Job({1}, Ends, GangJob, FALSE, Once, {"failures", "errors"}),
          Job({1}, Ends, GangJob, FALSE, Once, {"cmDeletes"}),
          Job({1}, {"Succeeded"}, GangJob, FALSE, Never, {"orders"}) }
=============================================================================
