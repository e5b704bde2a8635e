-------------------------- MODULE MCAffinityGroups --------------------------
(* Two racks of two nodes with two leaf cells each, and two VCs.  A setting *)
(* gives the quota of the VCs in leaves, nodes and racks, the groups that   *)
(* are submitted, the number of node failures and of restarts.              *)
EXTENDS AffinityGroups

BinaryTree == <<0, 2, 2>>

Pods(vc, priority, size) == [vc |-> vc, priority |-> priority, size |-> size, lazy |-> FALSE]
Lazy(vc, priority, size) == [Pods(vc, priority, size) EXCEPT !.lazy = TRUE]
Submitted(a, b, c) == ("g1" :> a) @@ ("g2" :> b) @@ ("g3" :> c)
Cluster(quotaA, quotaB, spec, failures, restarts) ==
    [quota |-> ("A" :> quotaA) @@ ("B" :> quotaB), spec |-> spec,
     faults |-> failures, crashes |-> restarts, nodesFirst |-> TRUE]

\* Failures when all cells are promised to some VC: doomed bad cells are bound.
Doomed == Cluster(<<0, 2, 0>>, <<4, 0, 0>>,
    Submitted(Pods("A", 0, 1), Pods("B", 0, 1), Pods("A", 0, 1)), 1, 0)
TwiceDoomed == Cluster(<<0, 2, 0>>, <<4, 0, 0>>,
    ("g1" :> Pods("A", 0, 1)) @@ ("g2" :> Pods("B", 0, 1)), 2, 0)
\* Failures during preemption inside a VC, with cells to spare elsewhere.
Spared == Cluster(<<0, 1, 0>>, <<1, 0, 0>>,
    Submitted(Pods("A", 0, 1), Pods("B", 0, 1), Pods("A", 1, 2)), 2, 0)
\* Opportunistic pods are preempted, at once or after a reservation.
Opportunists == Cluster(<<0, 1, 0>>, <<2, 0, 0>>,
    Submitted(Pods("A", 0, 2), Pods("B", 0, 1), Pods("B", 0, 1))
        @@ ("g4" :> Pods("B", -1, 2)), 0, 0)
\* A restart, with opportunistic pods; and one with a failure and preemption.
Restart == Cluster(<<0, 1, 0>>, <<2, 0, 0>>,
    Submitted(Pods("A", 0, 1), Pods("B", 0, 1), Pods("B", -1, 1)), 0, 1)
FailureAndRestart == Cluster(<<0, 1, 0>>, <<1, 0, 0>>,
    Submitted(Pods("A", 0, 1), Pods("B", 0, 1), Pods("A", 1, 1)), 1, 1)
\* Gangs inside a rack preempt each other.
Rack == Cluster(<<0, 0, 1>>, <<2, 0, 0>>,
    Submitted(Pods("A", 0, 2), Pods("A", 1, 2), Pods("A", 0, 1))
        @@ ("g4" :> Pods("B", 1, 2)), 0, 0)
\* A group with lazy preemption is moved out of its VC.
LazyGroup == Cluster(<<0, 1, 0>>, <<2, 0, 0>>,
    Submitted(Lazy("A", 0, 1), Pods("A", 0, 1), Pods("A", 1, 2))
        @@ ("g4" :> Pods("B", 0, 1)), 0, 0)

AllSettings ==
    {Doomed, TwiceDoomed, Spared, Opportunists, Restart, FailureAndRestart, Rack, LazyGroup}

\* A gang and a restart.
GangRestart == {Cluster(<<0, 1, 0>>, <<0, 0, 0>>,
    "g1" :> Pods("A", 0, 2), 0, 1)}
=============================================================================
