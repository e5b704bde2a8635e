--------------------------- MODULE MCAlertHandling ---------------------------
(***************************************************************************)
(* A validation job whose two tasks disagree, and what else may happen to  *)
(* the nodes it ran on.                                                    *)
(***************************************************************************)
EXTENDS AlertHandling

MCWanted == [j \in Jobs |-> IF j = "v" THEN {"RUNNING", "SUCCEEDED", "FAILED"}
                                      ELSE {"RUNNING", "STOPPED", "RETRIED"}]

MCResults == [j \in {"v"} |-> {[node |-> "n1", passed |-> FALSE], [node |-> "n2", passed |-> TRUE]}]

MCOutside == {[action |-> a, nodes |-> {"n1"}] : a \in {"uncordon", "drain", "reboot"}}

NoBudget == [fail |-> 0, reset |-> 0, anew |-> 0, status |-> 0, retry |-> 0, pods |-> 0, alerts |-> 0]

MCBudgets == {
    [NoBudget EXCEPT !.status = 1, !.fail = 2],
    [NoBudget EXCEPT !.status = 1, !.fail = 1, !.reset = 1],
    [NoBudget EXCEPT !.status = 2, !.retry = 1, !.anew = 1],
    [NoBudget EXCEPT !.status = 1, !.alerts = 1],
    [NoBudget EXCEPT !.alerts = 2, !.fail = 1, !.pods = 1],
    [NoBudget EXCEPT !.alerts = 2, !.pods = 2] }
=============================================================================
