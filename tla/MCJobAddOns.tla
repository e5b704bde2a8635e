----------------------------- MODULE MCJobAddOns -----------------------------
(* Jobs and bounds for TLC. *)
EXTENDS JobAddOns

Job(addOns, bounds) ==
    [given |-> addOns,
     budget |-> [b \in {"fail", "patch", "delete", "reject", "restart"} |-> IF b \in bounds THEN 1 ELSE 0]]

Disturbed == {
    Job(<<"usercred", "priority", "regcred">>, {"fail", "reject"}),
    Job(<<"usercred", "priority", "configcred">>, {"restart", "patch"}),
    Job(<<"priority", "regcred">>, {"fail", "delete"}) }
=============================================================================
