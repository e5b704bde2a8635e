--------------------------- MODULE AffinityGroups ---------------------------
(***************************************************************************)
(* hivedscheduler: affinity groups (gangs of pods) get cells, preempt each *)
(* other and give the cells back, while nodes fail and the scheduler       *)
(* restarts.  All handlers run under one lock, so an action is a whole     *)
(* handler on the memory h (module CellAllocation).                        *)
(*                                                                         *)
(* Abstractions: one chain without pinned cells; every pod asks for one    *)
(* leaf cell, so a pod of a group is identified with its leaf; Kubernetes  *)
(* suggests every node.  A group is                                        *)
(*   [state, place, inVC, pods]   place: physical leaf to virtual leaf;    *)
(*                                inVC: virtualLeafCellPlacement # nil;    *)
(*                                pods: allocatedPods, the pod (its leaf)  *)
(*                                at each index.  The index of a leaf is   *)
(*                                its rank in the group, so it is written  *)
(*                                as that leaf.                            *)
(***************************************************************************)
EXTENDS CellAllocation

CONSTANTS
    Groups,     \* names of affinity groups
    Settings    \* what a behaviour may start with: [quota, spec, faults, crashes,
                \* nodesFirst]; spec gives the [vc, priority, size, lazy] of groups

VARIABLES
    setting,    \* the setting of this behaviour
    h,          \* the memory of the algorithm
    allocated,  \* the pods of each group that podScheduleStatuses knows
    down,       \* the nodes that are not healthy
    info,       \* the bind information kept with the pods of each group: by leaf of
                \* the pod, the level of the preassigned cell of every leaf of the
                \* group, 0 if there is none
    faults, crashes     \* node failures and restarts still to come

vars == <<setting, h, allocated, down, info, faults, crashes>>

Request(g) == setting.spec[g]
Known(m, g) == g \in DOMAIN m.groups

Bound(g) == DOMAIN info[g]

\* The nodes and pods of Kubernetes have all been delivered by the informers;
\* the web server starts only then.
Recovered ==
    /\ h.bad \intersect Nodes = down
    /\ \A g \in Groups : allocated[g] = Bound(g)

-----------------------------------------------------------------------------
(* Leaf cells.                                                             *)

BindLeafCell(m, c, v) == IF m.virt[c] = None THEN BindCell(m, c, v) ELSE m

AllocatePreassigned(m, v, vc) ==
    LET pc == m.phys[Preassigned(v)]
    IN  IF m.panic # "" THEN m
        ELSE IF pc = None THEN Panic(m, "nil: preassigned cell is not bound")
        ELSE AllocatePreassignedCell(m, pc, vc, FALSE)

AllocateLeafCell(m, c, v, p, vc) ==
    LET bound == BindLeafCell([m EXCEPT !.vpri[v] = p, !.pri[c] = p], c, v)
    IN  IF m.panic # "" THEN m
        ELSE IF v = None THEN [m EXCEPT !.pri[c] = OpportunisticPriority]
        ELSE IF m.phys[Preassigned(v)] # None THEN bound
        ELSE AllocatePreassigned(bound, v, vc)

\* Mutant: the preassigned cell is given back with the first of its leaves.
ReleasePreassignedEarly(m, pc, v, vc) ==
    IF m.panic # "" THEN m
    ELSE IF pc = None THEN Panic(m, "nil: preassigned cell is not bound")
    ELSE IF Contains(m.doomed[vc][Level(pc)], pc) THEN m
    ELSE ReleasePreassignedCell(m, pc, vc, FALSE)

ReleasePreassigned(m, pc, v, vc) ==
    IF m.panic # "" THEN m
    ELSE IF pc = None THEN Panic(m, "nil: preassigned cell is not bound")
    ELSE IF /\ VPriority(m, Preassigned(v)) < MinGuaranteedPriority
            /\ ~Contains(m.doomed[vc][Level(pc)], pc)
         THEN ReleasePreassignedCell(m, pc, vc, FALSE)
    ELSE m

ReleaseLeafCell(m, c, vc) ==
    LET v == m.virt[c]
        cleared == IF v = None THEN m ELSE [m EXCEPT !.vpri[v] = FreePriority]
    IN  [(IF v = None THEN m
          ELSE ReleasePreassigned(IF c \in m.bad THEN cleared ELSE UnbindFrom(cleared, v),
                                  m.phys[Preassigned(v)], v, vc))
            EXCEPT !.pri[c] = FreePriority]

\* A leaf of group g is released and allocated again.
MoveLeafCell(m, g, c, v, p) ==
    AllocateLeafCell(ReleaseLeafCell(m, c, Request(g).vc), c, v, p, Request(g).vc)

-----------------------------------------------------------------------------
(* Lazy preemption.                                                        *)

SetGroup(m, g, rec) == [m EXCEPT !.groups = (g :> rec) @@ @]
DropGroup(m, g) ==
    [m EXCEPT !.groups = [x \in DOMAIN m.groups \ {g} |-> m.groups[x]]]

RECURSIVE MoveOut(_, _, _)
MoveOut(m, g, virtual) ==
    LET v == FirstCell(virtual)
    IN  IF virtual = {} \/ m.panic # "" THEN m
        ELSE IF m.phys[v] = None THEN Panic(m, "nil: virtual leaf cell is not bound")
        ELSE MoveOut(MoveLeafCell(m, g, m.phys[v], None, OpportunisticPriority),
                     g, virtual \ {v})

\* Mutant: the physical placement is dropped as well.
LazyPreemptDropsPlacement(m, g) ==
    [MoveOut(m, g, {m.groups[g].place[c] : c \in DOMAIN m.groups[g].place} \ {None})
        EXCEPT !.groups[g].place = <<>>, !.groups[g].inVC = FALSE]

LazyPreemptAffinityGroup(m, g) ==
    LET place == m.groups[g].place
    IN  [MoveOut(m, g, {place[c] : c \in DOMAIN place} \ {None})
            EXCEPT !.groups[g].place = [c \in DOMAIN place |-> None], !.groups[g].inVC = FALSE]

\* lazyPreemptCell: whoever uses a virtual leaf in the cell has to leave the VC.
RECURSIVE LazyPreemptUsers(_, _)
LazyPreemptUsers(m, virtual) ==
    LET v == FirstCell(virtual)
        g == m.using[m.phys[v]]
    IN  IF virtual = {} \/ m.panic # "" THEN m
        ELSE LazyPreemptUsers(IF v \in m.vused THEN LazyPreemptAffinityGroup(m, g) ELSE m,
                              virtual \ {v})

RECURSIVE TryLazyPreempt(_, _)
TryLazyPreempt(m, W) ==
    LET v == FirstCell(W)
        c == m.phys[v]
        lazy == c # None /\ m.st[c] = "Used" /\ Request(m.using[c]).lazy
    IN  IF W = {} \/ m.panic # "" THEN m
        ELSE TryLazyPreempt(IF lazy THEN LazyPreemptAffinityGroup(m, m.using[c]) ELSE m,
                            W \ {v})

RECURSIVE MoveBack(_, _, _, _)
MoveBack(m, g, place, leaves) ==
    LET c == FirstCell(leaves)
    IN  IF leaves = {} \/ m.panic # "" THEN m
        ELSE MoveBack(MoveLeafCell(m, g, c, place[c], Request(g).priority),
                      g, place, leaves \ {c})

RevertLazyPreempt(m, g, place) ==
    [MoveBack(m, g, place, DOMAIN place) EXCEPT !.groups[g].place = place, !.groups[g].inVC = TRUE]

\* What tryLazyPreempt did since before is undone.
RECURSIVE RevertGroups(_, _, _)
RevertGroups(before, m, groups) ==
    LET g == CHOOSE x \in groups : TRUE
    IN  IF groups = {} \/ m.panic # "" THEN m
        ELSE RevertGroups(before, RevertLazyPreempt(m, g, before.groups[g].place), groups \ {g})
RevertAll(before, m) ==
    RevertGroups(before, m, {g \in DOMAIN m.groups : before.groups[g].inVC /\ ~m.groups[g].inVC})

-----------------------------------------------------------------------------
(* Recovery of an allocated group from the bind information of a pod.      *)

LowestPriorityVirtualCell(m, cells, p) ==
    LET free == {i \in DOMAIN cells : /\ VPriority(m, cells[i]) = FreePriority
                                      /\ m.phys[cells[i]] = None}
        lower == {i \in DOMAIN cells : /\ VPriority(m, cells[i]) # FreePriority
                                       /\ VPriority(m, cells[i]) < p}
        lowest == {i \in lower : \A j \in lower :
                        VPriority(m, cells[i]) <= VPriority(m, cells[j])}
    IN  IF free # {} THEN cells[Min(free)]
        ELSE IF lowest # {} THEN cells[Min(lowest)] ELSE None

RECURSIVE MapPhysicalCellToVirtual(_, _, _, _, _)
MapPhysicalCellToVirtual(m, c, vc, l, p) ==
    LET above == MapPhysicalCellToVirtual(m, Parent(c), vc, l, p)
    IN  IF m.virt[c] # None THEN m.virt[c]
        ELSE IF Level(c) = l THEN LowestPriorityVirtualCell(m, PreassignedCells(m, vc, l), p)
        ELSE IF Level(c) = Top THEN None
        ELSE IF above = None THEN None
        ELSE LowestPriorityVirtualCell(m, VChildren(above), p)

\* The group is still being put back into its VC.
Searching(m, g) == m.groups[g].inVC /\ ~m.unsafe

\* l: the level of the preassigned cell that the bind information gives for c
VirtualLeafOf(m, g, c, l) ==
    IF Searching(m, g) /\ l # 0
    THEN MapPhysicalCellToVirtual(m, c, Request(g).vc, l, Request(g).priority) ELSE None

NoteVirtualLeaf(m, g, c, l, v) ==
    IF ~Searching(m, g) THEN m
    ELSE IF l # 0 THEN [m EXCEPT !.groups[g].place[c] = v, !.unsafe = (v = None)]
    ELSE [m EXCEPT !.groups[g].inVC = FALSE,
                   !.groups[g].place = [x \in DOMAIN @ |-> None]]

\* The preassigned cell of v may be used by a group that is somewhere else now.
EvictFrom(m, c, v) ==
    IF v # None /\ InFreeCellList(m, c) /\ VPriority(m, Preassigned(v)) > FreePriority
    THEN LazyPreemptUsers(m, VirtualUnder(m, Preassigned(v))) ELSE m

UseLeafCell(m, g, c) == SetCellState([m EXCEPT !.using[c] = g], c, "Used")

RecoverLeafCell(m, g, c, l, v) ==
    UseLeafCell(AllocateLeafCell(EvictFrom(NoteVirtualLeaf(m, g, c, l, v), c, v),
                                 c, v, Request(g).priority, Request(g).vc), g, c)

RECURSIVE RecoverLeafCells(_, _, _, _)
RecoverLeafCells(m, g, levels, leaves) ==
    LET c == FirstCell(leaves)
    IN  IF leaves = {} \/ m.panic # "" THEN m
        ELSE RecoverLeafCells(
                RecoverLeafCell(m, g, c, levels[c], VirtualLeafOf(m, g, c, levels[c])),
                g, levels, leaves \ {c})

LazyPreemptIfUnsafe(m, g) == IF m.unsafe THEN LazyPreemptAffinityGroup(m, g) ELSE m
\* A group that cannot be put back into its VC safely is lazily preempted.
CreateAllocatedAffinityGroup(m, g, levels) ==
    LET empty == [state |-> "Allocated", place |-> [c \in DOMAIN levels |-> None],
                  inVC |-> TRUE, pods |-> <<>>]
    IN  LazyPreemptIfUnsafe(RecoverLeafCells(SetGroup(m, g, empty), g, levels, DOMAIN levels), g)

RECURSIVE TakeReserved(_, _, _)
TakeReserved(m, g, leaves) ==
    LET c == FirstCell(leaves)
    IN  IF leaves = {} THEN m
        ELSE TakeReserved(UseLeafCell([m EXCEPT !.rsv[c] = ""], g, c), g, leaves \ {c})

\* Mutant: the group stays preempting.
AllocatePreemptingStays(m, g) == TakeReserved(m, g, DOMAIN m.groups[g].place)

AllocatePreemptingAffinityGroup(m, g) ==
    [TakeReserved(m, g, DOMAIN m.groups[g].place) EXCEPT !.groups[g].state = "Allocated"]

\* Mutant: every pod is entered at the first index.
EnterPodFirst(m, g, index, leaf) ==
    IF m.panic # "" THEN m
    ELSE [m EXCEPT !.groups[g].pods = (FirstCell(DOMAIN m.groups[g].place) :> leaf) @@ @]

\* The pod is entered at the index of its leaf; the pod that creates the group
\* is entered at the first index.
EnterPod(m, g, index, leaf) ==
    IF m.panic # "" THEN m ELSE [m EXCEPT !.groups[g].pods = (index :> leaf) @@ @]

AddAllocatedPod(m, g, leaf, levels) ==
    IF ~Known(m, g)
    THEN EnterPod(CreateAllocatedAffinityGroup(m, g, levels), g, FirstCell(DOMAIN levels), leaf)
    ELSE EnterPod(IF m.groups[g].state = "Preempting"
                  THEN AllocatePreemptingAffinityGroup(m, g) ELSE m, g, leaf, leaf)

-----------------------------------------------------------------------------
(* Groups are deleted, and start or cancel a preemption.                   *)

FreeLeafCell(m, g, c) ==
    IF m.st[c] = "Used"
    THEN SetCellState(ReleaseLeafCell(m, c, Request(g).vc), c, "Free")
    ELSE SetCellState(m, c, "Reserved")

RECURSIVE FreeLeafCells(_, _, _)
FreeLeafCells(m, g, leaves) ==
    LET c == FirstCell(leaves)
    IN  IF leaves = {} \/ m.panic # "" THEN m
        ELSE FreeLeafCells(FreeLeafCell([m EXCEPT !.using[c] = ""], g, c), g, leaves \ {c})

DeleteAllocatedAffinityGroup(m, g) ==
    DropGroup(FreeLeafCells(m, g, DOMAIN m.groups[g].place), g)

\* A leaf that is used is taken from its group, which is being preempted from now on.
Preempted(m, c) ==
    IF m.st[c] = "Used"
    THEN [ReleaseLeafCell(m, c, Request(m.using[c]).vc)
            EXCEPT !.groups[m.using[c]].state = "BeingPreempted"]
    ELSE m

ReserveLeafCell(m, g, c, v) ==
    SetCellState([AllocateLeafCell(Preempted(m, c), c, v, Request(g).priority, Request(g).vc)
                    EXCEPT !.rsv[c] = g],
                 c, IF m.st[c] = "Used" THEN "Reserving" ELSE "Reserved")

RECURSIVE ReserveLeafCells(_, _, _, _)
ReserveLeafCells(m, g, place, leaves) ==
    LET c == FirstCell(leaves)
    IN  IF leaves = {} \/ m.panic # "" THEN m
        ELSE ReserveLeafCells(ReserveLeafCell(m, g, c, place[c]), g, place, leaves \ {c})

CreatePreemptingAffinityGroup(m, g, place) ==
    SetGroup(ReserveLeafCells(m, g, place, DOMAIN place), g,
             [state |-> "Preempting", place |-> place, inVC |-> TRUE, pods |-> <<>>])

\* Mutant: the leaf is handed back and not allocated again.
HandBackUnallocated(m, c) ==
    IF m.panic # "" THEN m
    ELSE IF m.rsv[c] = "" THEN Panic(m, "nil: cell has no reserving group")
    ELSE SetCellState([m EXCEPT !.rsv[c] = ""], c,
                      IF m.st[c] = "Reserving" THEN "Used" ELSE "Free")

\* The group that still uses a reserving leaf gets it back.
HandBack(m, c) ==
    LET u == m.using[c]
    IN  IF m.panic # "" THEN m
        ELSE IF m.rsv[c] = "" THEN Panic(m, "nil: cell has no reserving group")
        ELSE IF m.st[c] # "Reserving" THEN SetCellState([m EXCEPT !.rsv[c] = ""], c, "Free")
        ELSE AllocateLeafCell(SetCellState([m EXCEPT !.rsv[c] = ""], c, "Used"),
                              c, m.groups[u].place[c], Request(u).priority, Request(u).vc)

RECURSIVE HandBackAll(_, _, _)
HandBackAll(m, g, leaves) ==
    LET c == FirstCell(leaves)
    IN  IF leaves = {} \/ m.panic # "" THEN m
        ELSE HandBackAll(HandBack(ReleaseLeafCell(m, c, Request(g).vc), c), g, leaves \ {c})

DeletePreemptingAffinityGroup(m, g) ==
    DropGroup(HandBackAll(m, g, DOMAIN m.groups[g].place), g)

-----------------------------------------------------------------------------
(* Where a group is placed.  The intra-VC scheduler packs the pods: nodes  *)
(* that are used more come first, the order of others is left open; inside *)
(* a node free leaves come before preemptible ones.                        *)

\* The ways findNodesForPods and findLeafCellsInNode choose n of the leaves.
PackedChoices(leaves, n, NodeOf(_), Rank(_), IsFree(_)) ==
    LET First(a, b) == IF IsFree(a) # IsFree(b) THEN IsFree(a) ELSE PathBefore(a, b)
        nodes == {NodeOf(x) : x \in leaves}
        Packed(W) ==
            LET Rest(y) == {x \in leaves \ W : NodeOf(x) = y}
                picked == {NodeOf(x) : x \in W}
            IN  /\ \A y \in picked, x \in nodes :
                        x # y /\ Rest(x) # {} => Rank(y) >= Rank(x)
                /\ Cardinality({y \in picked : Rest(y) # {}}) <= 1
                /\ \A a \in W : \A b \in Rest(NodeOf(a)) : First(a, b)
    IN  {W \in kSubset(n, leaves) : Packed(W)}

VNodeOf(v) == SubSeq(v, 1, v[2] + 3 - Min({NodeLevel, v[2]}))

FirstNonEmpty(S, T) == IF S # {} THEN S ELSE T

\* defaultIntraVCScheduler.schedule: without preemption if possible.
IntraVCChoices(m, g) ==
    LET n == Request(g).size
        healthy == {v \in DOMAIN m.vpri : /\ VC(v) = Request(g).vc
                                          /\ m.phys[VNodeOf(v)] \notin m.bad}
        IsFree(v) == m.vpri[v] = FreePriority
        Used(y) == Cardinality({v \in VirtualUnder(m, y) : ~IsFree(v)})
        At(p) == PackedChoices({v \in healthy : m.vpri[v] < p}, n, VNodeOf, Used, IsFree)
    IN  FirstNonEmpty(At(OpportunisticPriority), At(Request(g).priority))

\* topologyAwareScheduler on the physical cells, for opportunistic pods, which
\* stay with their like and away from guaranteed pods.
OpportunisticChoices(m, g) ==
    LET free == {c \in Leaves : m.pri[c] = FreePriority /\ c \notin m.bad}
        NodeOf(c) == Ancestor(c, NodeLevel)
        Number(y, p) == Cardinality({c \in UnderOf[y][1] : m.pri[c] >= p})
        guaranteed(y) == Number(y, MinGuaranteedPriority)
        Rank(y) == (Number(y, OpportunisticPriority) - guaranteed(y))
                        * (Cardinality(Leaves) + 1) - guaranteed(y)
    IN  PackedChoices(free, Request(g).size, NodeOf, Rank, LAMBDA c : TRUE)

-----------------------------------------------------------------------------
(* The virtual placement W is mapped to physical cells.  s is the state of *)
(* the mapping: f the leaves mapped so far, fl and num the copies of the   *)
(* free list and of the numbers of free cells, end "" while it goes on.    *)

Opportunistic(m, c) ==
    Cardinality({x \in UnderOf[c][1] : m.pri[x] = OpportunisticPriority})
Preferred(m, c, d) ==
    IF Opportunistic(m, c) # Opportunistic(m, d)
    THEN Opportunistic(m, c) < Opportunistic(m, d) ELSE PathBefore(c, d)

\* getUsablePhysicalCells; a bad cell above the node may hold healthy nodes.
Usable(m, c) ==
    m.virt[c] = None /\ ~(Cardinality({Ancestor(x, NodeLevel) :
                            x \in UnderOf[c][1]}) = 1 /\ c \in m.bad)

\* The cells of the binding path below v.
VerticesBelow(W, v) ==
    {SubSeq(w, 1, Len(v) + 1) : w \in {x \in W : IsPrefix(v, x) /\ x # v}}

\* mapVirtualCellsToPhysical: the first embedding of the vertices into the
\* usable cells, as a set of at most one function from virtual to physical.
RECURSIVE MapVirtualCellsToPhysical(_, _, _, _)
MapVirtualCellsToPhysical(m, W, vertices, cells) ==
    LET v == Head(vertices)
        Inside(c) ==
            IF VLevel(v) = 1 THEN {v :> c}
            ELSE MapVirtualCellsToPhysical(m, W, SetToSortSeq(VerticesBelow(W, v), PathBefore),
                                           ChildrenOf[c])
        Whole(c) ==
            {a @@ b : a \in Inside(c),
                      b \in MapVirtualCellsToPhysical(m, W, Tail(vertices), cells \ {c})}
        good == {c \in cells : Usable(m, c) /\ Whole(c) # {}}
    IN  IF vertices = <<>> THEN {<<>>}
        ELSE IF good = {} THEN {}
        ELSE Whole(CHOOSE c \in good : \A d \in good \ {c} : Preferred(m, c, d))

\* The hosts for the preassigned cell v among the cells of its level, with the
\* fewest opportunistic pods.
Hosts(m, W, v, cells) ==
    LET works == {x \in cells : MapVirtualCellsToPhysical(m, W, <<v>>, {x}) # {}}
    IN  {x \in works : \A y \in works : Opportunistic(m, x) <= Opportunistic(m, y)}

Embedding(m, W, v, x) ==
    CHOOSE f \in MapVirtualCellsToPhysical(m, W, <<v>>, {x}) : TRUE

\* buddyAlloc from the lowest level k with free cells: the order of the free
\* list is open, that of the children of a cell is not.
BuddyAlloc(m, W, v, s, k) ==
    LET l == VLevel(v)
        works == {x \in UNION {UnderOf[c][l] : c \in {y \in s.fl : Level(y) = k}} :
                    /\ \A j \in l..k : Usable(m, Ancestor(x, j))
                    /\ MapVirtualCellsToPhysical(m, W, <<v>>, {x}) # {}}
        Beats(y, x) ==
            IF Ancestor(x, k) # Ancestor(y, k)
            THEN Opportunistic(m, Ancestor(y, k)) < Opportunistic(m, Ancestor(x, k))
            ELSE \E j \in l..(k - 1) : /\ Ancestor(x, j) # Ancestor(y, j)
                                       /\ Ancestor(x, j + 1) = Ancestor(y, j + 1)
                                       /\ Preferred(m, Ancestor(y, j), Ancestor(x, j))
        Split(x) == UNION {ChildrenOf[Ancestor(x, j + 1)] \ {Ancestor(x, j)} : j \in l..(k - 1)}
    IN  {[s EXCEPT !.f = Embedding(m, W, v, x) @@ @,
                   !.fl = (@ \ {Ancestor(x, k)}) \union Split(x),
                   !.num[l] = @ - 1] :
            x \in {y \in works : ~\E z \in works : Beats(z, y)}}

\* safeRelaxedBuddyAlloc, from level j on; spare: cells of each level that can
\* be split safely.
RECURSIVE Spare(_, _)
Spare(s, j) ==
    Cardinality({c \in s.fl : Level(c) = j}) - s.num[j]
        + (IF j = Top THEN 0 ELSE Spare(s, j + 1) * Arity[j + 1])

RECURSIVE RelaxedFrom(_, _, _, _, _, _)
RelaxedFrom(m, W, v, s, spare, j) ==
    LET l == VLevel(v)
        level == {c \in s.fl : Level(c) = j}
        n == Min({Cardinality(level), spare[j]})
        After(S) == [s EXCEPT !.fl = (@ \ S) \union UNION {UnderOf[c][l] : c \in S}]
        HostsAfter(S) == Hosts(m, W, v, {x \in After(S).fl : Level(x) = l})
    IN  IF j > Top THEN {[s EXCEPT !.end = "fail"]}
        ELSE IF n <= 0 THEN RelaxedFrom(m, W, v, s, spare, j + 1)
        ELSE UNION {IF HostsAfter(S) = {}
                    THEN RelaxedFrom(m, W, v, After(S), spare, j + 1)
                    ELSE {[After(S) EXCEPT !.f = Embedding(m, W, v, x) @@ @, !.fl = @ \ {x}] :
                             x \in HostsAfter(S)} : S \in kSubset(n, level)}

SafeRelaxedBuddyAlloc(m, W, v, s) ==
    LET above == (VLevel(v) + 1)..Top
        spare == [j \in above |-> Spare(s, j)]
    IN  IF \E j \in above : spare[j] < 0
        THEN {[s EXCEPT !.end = "VC Safety Broken: level is unsplittable"]}
        ELSE RelaxedFrom(m, W, v, s, spare, VLevel(v) + 1)

\* Mutant: the highest free cells are split first.
MapPreassignedCellHighest(m, W, v, s) ==
    LET filled == {k \in VLevel(v)..Top : \E c \in s.fl : Level(c) = k}
    IN  IF filled = {} THEN {[s EXCEPT !.end = "VC Safety Broken: free cell not found"]}
        ELSE FirstNonEmpty(BuddyAlloc(m, W, v, s, Max(filled)), SafeRelaxedBuddyAlloc(m, W, v, s))

MapPreassignedCell(m, W, v, s) ==
    LET filled == {k \in VLevel(v)..Top : \E c \in s.fl : Level(c) = k}
    IN  IF filled = {} THEN {[s EXCEPT !.end = "VC Safety Broken: free cell not found"]}
        ELSE FirstNonEmpty(BuddyAlloc(m, W, v, s, Min(filled)), SafeRelaxedBuddyAlloc(m, W, v, s))

\* mapVirtualPlacementToPhysical, after toBindingPaths: bound cells stay, unbound
\* preassigned cells get free ones, other cells follow the cell above them.
MapVirtualPlacementToPhysical(m, W) ==
    LET bound == {v \in W : m.phys[v] # None}
        start == [f |-> [v \in bound |-> m.phys[v]], fl |-> m.free,
                  num |-> [l \in Levels |-> AllVCFree(m, l)], end |-> ""]
        roots == SetToSortSeq({v \in {Preassigned(x) : x \in W} : m.phys[v] = None}, PathBefore)
        Map(v, s) == IF s.end = "" THEN MapPreassignedCell(m, W, v, s) ELSE {s}
        mapped == FoldLeft(LAMBDA acc, v : UNION {Map(v, s) : s \in acc}, {start}, roots)
        anchors == {v \in DOMAIN m.phys : /\ m.phys[v] # None
                        /\ \E x \in VerticesBelow(W, v) : m.phys[x] = None}
        Below1(v) == {x \in VerticesBelow(W, v) : m.phys[x] = None}
        Follow(v, acc) ==
            UNION {LET e == MapVirtualCellsToPhysical(m, W, SetToSortSeq(Below1(v), PathBefore),
                                                      ChildrenOf[m.phys[v]])
                   IN  IF s.end # "" THEN {s}
                       ELSE IF e = {} THEN {[s EXCEPT !.end = "fail"]}
                       ELSE {[s EXCEPT !.f = f @@ @] : f \in e} : s \in acc}
    IN  FoldLeft(LAMBDA acc, v : Follow(v, acc), mapped, SetToSortSeq(anchors, PathBefore))

-----------------------------------------------------------------------------
(* Handlers.  An action ranges over VCs in some order and leaves no trace  *)
(* of it; a step that panics stops the behaviour.                          *)

Init ==
    /\ setting \in Settings
    /\ down = {}
    /\ \E order \in SetToSeqs(VCs) :
            h = [ForEach(LAMBDA n, acc : SetHealthyNode(acc, n),
                         NewAlgorithm(setting.quota, order), Nodes)
                    EXCEPT !.ord = <<>>, !.unsafe = FALSE]
    /\ allocated = [g \in Groups |-> {}]
    /\ info = [g \in Groups |-> <<>>]
    /\ faults = setting.faults
    /\ crashes = setting.crashes

Running == h.panic = ""
Serving == Running /\ Recovered
Commit(m) == h' = [m EXCEPT !.ord = <<>>, !.unsafe = FALSE]
Started == {[h EXCEPT !.ord = order] : order \in SetToSeqs(VCs)}

Healthy(place) == \A c \in DOMAIN place : c \notin h.bad

\* collectPreemptionVictims
Victims(m, leaves) ==
    {c \in leaves : /\ m.st[c] \in {"Used", "Reserving"}
                    /\ m.groups[m.using[c]].pods # <<>>}
OverlappingPreemptors(m, leaves) ==
    {m.rsv[c] : c \in {x \in leaves : m.st[x] \in {"Reserving", "Reserved"}}}

\* The pod of g on leaf is decided to be bound, and assumed to be allocated.
BindPod(m, g, leaf, levels) ==
    /\ Commit(AddAllocatedPod(m, g, leaf, levels))
    /\ allocated' = [allocated EXCEPT ![g] = @ \union {leaf}]
    /\ info' = [info EXCEPT ![g] = (leaf :> levels) @@ @]

\* The outcomes of scheduling a new group: the memory, the physical placement
\* (None when there is none) and the level of the preassigned cell of each leaf.
PlacedOutcomes(m, m1, W) ==
    IF m1.panic # "" THEN {[mem |-> m1, place |-> None]}
    ELSE {[mem |-> CASE s.end = "" -> m1
                     [] s.end = "fail" -> RevertAll(m, m1)
                     [] OTHER -> Panic(m1, s.end),
           place |-> IF s.end # "" THEN None
                     ELSE [c \in {s.f[v] : v \in W} |-> CHOOSE v \in W : s.f[v] = c]] :
             s \in MapVirtualPlacementToPhysical(m1, W)}
GuaranteedOutcomes(m, g) ==
    UNION {PlacedOutcomes(m, TryLazyPreempt(m, W), W) : W \in IntraVCChoices(m, g)}
OpportunisticOutcomes(m, g) ==
    {[mem |-> m, place |-> [c \in W |-> None]] : W \in OpportunisticChoices(m, g)}
Outcomes(m, g) ==
    FirstNonEmpty(IF m.panic # "" THEN {}
                  ELSE IF Request(g).priority >= MinGuaranteedPriority
                  THEN GuaranteedOutcomes(m, g) ELSE OpportunisticOutcomes(m, g),
                  {[mem |-> m, place |-> None]})

\* The bind information: levels of preassigned cells, 0 without a virtual cell.
LevelsOf(place) == [c \in DOMAIN place |-> IF place[c] = None THEN 0 ELSE place[c][2]]

\* A pod of g waits for the scheduler.
Waiting(g) == g \in DOMAIN setting.spec /\ Cardinality(Bound(g)) < Request(g).size

\* filterRoutine, of a pod of a group that has its placement.  A pod of a group
\* that is being preempted writes to a nil map; the web server recovers from that
\* panic and refuses the pod, nothing having changed.
FilterOfExistingGroup(g) ==
    /\ Serving /\ Waiting(g) /\ Known(h, g)
    /\ LET rec == h.groups[g]
           missing == DOMAIN rec.place \ DOMAIN rec.pods
       IN  /\ \/ rec.state = "Allocated" /\ missing # {}
              \/ rec.state = "Preempting" /\ Victims(h, DOMAIN rec.place) = {}
           /\ \E m \in Started :
                BindPod(m, g, FirstCell(missing), LevelsOf(rec.place))
    /\ UNCHANGED <<setting, down, faults, crashes>>

\* filterRoutine, of a pod of a new group: without victims the group gets the
\* placement; otherwise only what the lazy preemption changed stays.
FilterOfNewGroup(g) ==
    /\ Serving /\ Waiting(g) /\ ~Known(h, g)
    /\ \E m \in Started : \E o \in Outcomes(m, g) :
            IF o.mem.panic = "" /\ o.place # None /\ Victims(o.mem, DOMAIN o.place) = {}
            THEN BindPod(o.mem, g, FirstCell(DOMAIN o.place), LevelsOf(o.place))
            ELSE Commit(o.mem) /\ UNCHANGED <<allocated, info>>
    /\ UNCHANGED <<setting, down, faults, crashes>>

\* Preemptions that overlap with the new placement are cancelled.
RECURSIVE CancelAll(_, _)
CancelAll(m, groups) ==
    LET g == CHOOSE x \in groups : TRUE
    IN  IF groups = {} \/ m.panic # "" THEN m
        ELSE CancelAll(DeletePreemptingAffinityGroup(m, g), groups \ {g})
CancelOverlapping(m, place) == CancelAll(m, OverlappingPreemptors(m, DOMAIN place))

ReserveIf(victims, m, g, place) ==
    IF victims = {} THEN m ELSE CreatePreemptingAffinityGroup(m, g, place)

StartPreemption(m, g, place) ==
    IF m.panic # "" \/ place = None THEN m
    ELSE ReserveIf(Victims(m, DOMAIN place), CancelOverlapping(m, place), g, place)

Withdrawn(m, g) == IF Known(m, g) THEN DeletePreemptingAffinityGroup(m, g) ELSE m

\* preemptRoutine: a preemption on bad cells is withdrawn and the group scheduled
\* again; with victims its cells are reserved.
Preempt(g) ==
    /\ Serving /\ Waiting(g)
    /\ Known(h, g) => /\ h.groups[g].state # "Allocated"
                      /\ ~Healthy(h.groups[g].place)
    /\ \E m \in Started : \E o \in Outcomes(Withdrawn(m, g), g) :
            Commit(StartPreemption(o.mem, g, o.place))
    /\ UNCHANGED <<setting, allocated, down, info, faults, crashes>>

\* deletePod of a bound pod: the group goes with the last pod it knows.
DeletePod(g, leaf) ==
    LET rest == [x \in DOMAIN h.groups[g].pods \ {leaf} |-> h.groups[g].pods[x]]
        Without(m) == [m EXCEPT !.groups[g].pods = rest]
    IN  /\ Running /\ leaf \in Bound(g)
        /\ info' = [info EXCEPT ![g] = [x \in Bound(g) \ {leaf} |-> info[g][x]]]
        /\ allocated' = [allocated EXCEPT ![g] = @ \ {leaf}]
        /\ \E m \in Started :
                Commit(IF leaf \notin allocated[g] \/ ~Known(h, g) THEN m
                       ELSE IF rest = <<>> THEN DeleteAllocatedAffinityGroup(Without(m), g)
                       ELSE Without(m))
        /\ UNCHANGED <<setting, down, faults, crashes>>

\* deletePod of the last pod that waits for the preemption of g
CancelPreemption(g) ==
    /\ Serving /\ Known(h, g) /\ h.groups[g].state = "Preempting"
    /\ \E m \in Started : Commit(DeletePreemptingAffinityGroup(m, g))
    /\ UNCHANGED <<setting, allocated, down, info, faults, crashes>>

\* updateNode and deleteNode
NodeFails(n) ==
    /\ Running /\ faults > 0 /\ n \notin down
    /\ faults' = faults - 1
    /\ down' = down \union {n}
    /\ \E m \in Started : Commit(SetBadNode(m, n))
    /\ UNCHANGED <<setting, allocated, info, crashes>>

NodeRecovers(n) ==
    /\ Running /\ n \in down
    /\ down' = down \ {n}
    /\ \E m \in Started : Commit(SetHealthyNode(m, n))
    /\ UNCHANGED <<setting, allocated, info, faults, crashes>>

\* The memory is lost, with the pods that were assumed and not bound yet or that
\* are deleted in the meantime.
Crash ==
    /\ Running /\ crashes > 0
    /\ crashes' = crashes - 1
    /\ \E lost \in SUBSET UNION {{g} \X Bound(g) : g \in Groups} :
            info' = [g \in Groups |->
                        [x \in {c \in Bound(g) : <<g, c>> \notin lost} |-> info[g][x]]]
    /\ allocated' = [g \in Groups |-> {}]
    /\ \E m \in Started : Commit(NewAlgorithm(setting.quota, m.ord))
    /\ UNCHANGED <<setting, down, faults>>

\* The informers deliver a healthy node (addNode) or a bound pod (addBoundPod).
RecoverNode(n) ==
    /\ Running /\ n \notin down /\ n \in h.bad
    /\ \E m \in Started : Commit(SetHealthyNode(m, n))
    /\ UNCHANGED <<setting, allocated, down, info, faults, crashes>>

RecoverPod(g, leaf) ==
    /\ Running /\ leaf \in Bound(g) \ allocated[g]
    /\ setting.nodesFirst => h.bad \intersect Nodes = down
    /\ \E m \in Started : Commit(AddAllocatedPod(m, g, leaf, info[g][leaf]))
    /\ allocated' = [allocated EXCEPT ![g] = @ \union {leaf}]
    /\ UNCHANGED <<setting, down, info, faults, crashes>>

Next ==
    \/ \E g \in Groups : \/ FilterOfExistingGroup(g)
                         \/ FilterOfNewGroup(g)
                         \/ Preempt(g)
                         \/ CancelPreemption(g)
    \/ \E g \in Groups, leaf \in Leaves : DeletePod(g, leaf) \/ RecoverPod(g, leaf)
    \/ \E n \in Nodes : NodeFails(n) \/ NodeRecovers(n) \/ RecoverNode(n)
    \/ Crash

Spec == Init /\ [][Next]_vars

-----------------------------------------------------------------------------
(* Properties.                                                             *)

TypeOK ==
    /\ setting \in Settings
    /\ h.free \subseteq Cells /\ h.split \subseteq Cells /\ h.bad \subseteq Cells
    /\ \A c \in Cells : h.virt[c] \in DOMAIN h.phys \union {None}
    /\ \A v \in DOMAIN h.phys : h.phys[v] \in Cells \union {None}
    /\ \A c \in Leaves : /\ h.st[c] \in {"Free", "Used", "Reserving", "Reserved"}
                         /\ {h.using[c], h.rsv[c]} \subseteq Groups \union {""}
    /\ \A g \in DOMAIN h.groups :
            /\ g \in Groups
            /\ h.groups[g].state \in {"Allocated", "Preempting", "BeingPreempted"}
            /\ Cardinality(DOMAIN h.groups[g].place) = Request(g).size
    /\ down \subseteq Nodes
    /\ \A g \in Groups : allocated[g] \subseteq Bound(g) /\ Bound(g) \subseteq Leaves

\* The physical cells that are bound to preassigned cells.
Assigned == {c \in Cells : h.virt[c] # None /\ VParent(h.virt[c]) = None}
Total(f, l) == MapThenSumSet(LAMBDA k : f[k] * Ratio[k][l], l..Top)

\* No handler runs into a nil pointer, an index out of range, or the panics by
\* which the buddy allocation says that it has run out of the cells it relies on.
NeverPanics == h.panic = ""

\* The books of the cells agree with each other: bindings go both ways and keep
\* the tree; every leaf lies under exactly one free or assigned cell, and the
\* split cells are those above them; the counters say how many cells can still be
\* had of each level and how many each VC has not taken; the lists of bad cells
\* hold the bad free cells and, per VC, some of its bad assigned cells.
BooksAgree ==
    LET roots == h.free \union Assigned
    IN  /\ \A c \in Cells : h.virt[c] # None =>
                /\ h.phys[h.virt[c]] = c /\ VLevel(h.virt[c]) = Level(c)
                /\ VParent(h.virt[c]) # None => h.virt[Parent(c)] = VParent(h.virt[c])
        /\ \A v \in DOMAIN h.phys : h.phys[v] # None => h.virt[h.phys[v]] = v
        /\ \A leaf \in Leaves : Cardinality({c \in roots : IsPrefix(c, leaf)}) = 1
        /\ h.split = {c \in Cells : \E d \in roots : IsStrictPrefix(c, d)}
        /\ \A l \in Levels :
                /\ h.left[l] = Total([k \in Levels |->
                        Cardinality({c \in h.free : Level(c) = k})], l)
                /\ \A vc \in VCs :
                        /\ h.vcFree[vc][l] = h.quota[vc][l] - Cardinality({c \in Assigned :
                                Level(c) = l /\ VC(h.virt[c]) = vc})
                        /\ IsInjective(h.doomed[vc][l])
                        /\ \A c \in ToSet(h.doomed[vc][l]) :
                                c \in h.bad \intersect Assigned /\ VC(h.virt[c]) = vc
                /\ IsInjective(h.badFree[l])
                /\ ToSet(h.badFree[l]) = {c \in h.bad : Level(c) = l
                        /\ \E d \in h.free : IsPrefix(d, c)}

\* Quota safety: whatever was split, merged, bound and preempted, the free cells
\* can be split into all the cells the VCs have not taken yet.
QuotaSafe ==
    \A l \in Levels :
        h.left[l] >= Total([k \in Levels |-> AllVCFree(h, k)], l)

\* What the comments on the states of cells and groups say: the state of a leaf
\* tells who uses and who has reserved it, its priority is that of the group
\* which holds it, and a group with a virtual placement holds virtual cells of
\* its own VC that are bound to its leaves.  A cell that was given back does not
\* stay with the VC: a preassigned cell is bound only while a leaf in it is held,
\* or because it is doomed to be bad.
OwnersAgree ==
    /\ \A c \in Assigned :
        \/ \E x \in UnderOf[c][1] : h.virt[x] # None /\ h.pri[x] >= MinGuaranteedPriority
        \/ \E vc \in VCs : Contains(h.doomed[vc][Level(c)], c)
    /\ \A c \in Leaves :
        LET u == h.using[c]
            r == h.rsv[c]
            holder == IF r # "" THEN r ELSE u
        IN  /\ (u # "") <=> h.st[c] \in {"Used", "Reserving"}
            /\ (r # "") <=> h.st[c] \in {"Reserving", "Reserved"}
            /\ h.st[c] = "Free" <=> h.pri[c] = FreePriority
            /\ u # "" => /\ Known(h, u) /\ c \in DOMAIN h.groups[u].place
                         /\ h.groups[u].state \in {"Allocated", "BeingPreempted"}
            /\ r # "" => /\ Known(h, r) /\ c \in DOMAIN h.groups[r].place
                         /\ h.groups[r].state = "Preempting"
            /\ holder # "" =>
                  IF h.groups[holder].inVC /\ h.groups[holder].place[c] # None
                  THEN /\ h.virt[c] = h.groups[holder].place[c]
                       /\ VC(h.virt[c]) = Request(holder).vc
                       /\ h.pri[c] = Request(holder).priority
                       /\ h.vpri[h.virt[c]] = h.pri[c]
                  ELSE h.pri[c] = OpportunisticPriority

\* While the scheduler serves, the leaf of every bound pod is used by the pod's
\* group and by no other: a group is deleted with its last pod, and not earlier
\* (e3 in state-machine.md).
PodsKeepTheirCells ==
    Serving => \A g \in Groups : \A leaf \in Bound(g) : h.using[leaf] = g
=============================================================================
