--------------------------- MODULE CellAllocation ---------------------------
(***************************************************************************)
(* The cell bookkeeping of hivedscheduler (pkg/algorithm), for one chain   *)
(* of cells: physical cells are split and merged as buddies, bound to the  *)
(* virtual cells that make up the quota of each virtual cluster (VC), and  *)
(* followed through the failures of their nodes.                           *)
(*                                                                         *)
(* The operators below are the functions of the code.  They take and       *)
(* return the memory m of the process (the fields of HivedAlgorithm and    *)
(* of its cells that decide anything):                                     *)
(*   quota    preassigned cells of each VC and level                       *)
(*   bad, split, free    sets of physical cells; free is freeCellList      *)
(*   virt, phys          bindings, physical to virtual and back            *)
(*   pri, vpri           priorities of the leaves; that of a higher cell   *)
(*                       is the highest of its leaves (setCellPriority)    *)
(*   vcFree, left        vcFreeCellNum and totalLeftCellNum                *)
(*   badFree, doomed     badFreeCells and vcDoomedBadCells                 *)
(*   st, vused           states of the physical leaves; virtual leaves     *)
(*                       whose state is Used                               *)
(*   using, rsv, groups  affinity groups (module AffinityGroups)           *)
(*   unsafe              an allocation broke safety in this step           *)
(*   ord                 the order in which this step ranges over VCs, a   *)
(*                       map, so every order is possible                   *)
(*   panic               why the process panicked, "" when it has not      *)
(* Lists whose first element is taken are sequences.  The free list is a   *)
(* set: the order in which it offers cells is left open.                   *)
(***************************************************************************)
EXTENDS Integers, Sequences, FiniteSets, SequencesExt, FiniteSetsExt

CONSTANTS
    Arity,      \* children of a cell of each level; Arity[1] = 0
    Tops,       \* cells of the highest level
    NodeLevel,  \* the level of a node
    VCs         \* virtual clusters

ASSUME CellsAssumption ==
    /\ Tops \in Nat \ {0} /\ Len(Arity) >= 1 /\ Arity[1] = 0
    /\ \A l \in 2..Len(Arity) : Arity[l] \in Nat \ {0}
    /\ NodeLevel \in 1..Len(Arity)

None == <<>>
\* The first place where two paths differ decides; a cell comes before those in it.
PathBefore(a, b) ==
    \/ IsStrictPrefix(a, b)
    \/ \E i \in DOMAIN a \intersect DOMAIN b :
            /\ \A j \in 1..(i - 1) : a[j] = b[j]
            /\ a[i] # b[i] /\ a[i] < b[i]

FirstCell(cells) == CHOOSE c \in cells : \A d \in cells \ {c} : PathBefore(c, d)

\* A loop over cells, in the order of their addresses.
ForEach(Step(_, _), m, cells) ==
    FoldLeft(LAMBDA acc, c : Step(c, acc), m, SetToSortSeq(cells, PathBefore))

FreePriority == -2
OpportunisticPriority == -1
MinGuaranteedPriority == 0

-----------------------------------------------------------------------------
(* Cells.  A physical cell is its path from the top; a virtual cell is     *)
(* <<vc, level of its preassigned cell, number>> and the path below.       *)

Top == Len(Arity)
Levels == 1..Top

RECURSIVE Below(_, _, _)
Below(cells, l, to) ==
    IF l = to THEN cells
    ELSE Below({Append(c, i) : c \in cells, i \in 1..Arity[l]}, l - 1, to)

Ratio == [l \in Levels |-> [to \in 1..l |-> Cardinality(Below({None}, l, to))]]

TopCells == {<<i>> : i \in 1..Tops}
Cells == UNION {Below(TopCells, Top, l) : l \in Levels}
Level(c) == Top + 1 - Len(c)
Leaves == {c \in Cells : Level(c) = 1}
Nodes == {c \in Cells : Level(c) = NodeLevel}
Parent(c) == Front(c)
ChildrenOf == [c \in Cells |-> {x \in Cells : x # <<>> /\ Front(x) = c}]
UnderOf == [c \in Cells |-> [l \in 1..Level(c) |-> Below({c}, Level(c), l)]]
Ancestor(c, l) == SubSeq(c, 1, Top + 1 - l)

VC(v) == v[1]
VLevel(v) == v[2] + 3 - Len(v)
Preassigned(v) == SubSeq(v, 1, 3)
VParent(v) == IF Len(v) = 3 THEN None ELSE Front(v)
VChildren(v) == [i \in 1..Arity[VLevel(v)] |-> Append(v, i)]
PreassignedCells(m, vc, l) == [i \in 1..m.quota[vc][l] |-> <<vc, l, i>>]
VirtualCells(quota) ==
    UNION {Below({<<vc, l, i>> : i \in 1..quota[vc][l]}, l, to) :
              <<vc, l, to>> \in {x \in VCs \X Levels \X Levels : x[3] <= x[2]}}
VirtualUnder(m, v) == {x \in DOMAIN m.vpri : IsPrefix(v, x)}

Priority(m, c) == Max({m.pri[x] : x \in UnderOf[c][1]})
VPriority(m, v) == Max({m.vpri[x] : x \in VirtualUnder(m, v)})

-----------------------------------------------------------------------------
(* Small steps on the memory.                                              *)

Panic(m, why) == [m EXCEPT !.panic = why]

\* Nothing runs after a panic.
Then(m, Step(_)) == IF m.panic = "" THEN Step(m) ELSE m

AllVCFree(m, l) == MapThenSumSet(LAMBDA vc : m.vcFree[vc][l], VCs)
HealthyLeft(m, l) == m.left[l] - Len(m.badFree[l])

\* CellList.remove: the last element takes the place of the removed one, and
\* a cell that is not in the list is a panic.
ListRemove(s, c) ==
    LET at == CHOOSE i \in DOMAIN s : s[i] = c
    IN  [i \in 1..(Len(s) - 1) |-> IF i = at THEN s[Len(s)] ELSE s[i]]

RemoveBadFree(m, c, l) ==
    IF Contains(m.badFree[l], c) THEN [m EXCEPT !.badFree[l] = ListRemove(@, c)]
    ELSE Panic(m, "remove: bad free cell not in the list")

RemoveDoomed(m, vc, c, l) ==
    IF Contains(m.doomed[vc][l], c)
    THEN [m EXCEPT !.doomed[vc][l] = ListRemove(@, c)]
    ELSE Panic(m, "remove: doomed cell not in the list")

RemoveFree(m, c) ==
    IF c \in m.free THEN [m EXCEPT !.free = @ \ {c}]
    ELSE Panic(m, "remove: cell not in the free list")

\* Both directions of a binding are set, or cleared, together.
Bind(m, c, v) ==
    IF v = None THEN Panic(m, "nil: no virtual cell to bind")
    ELSE [m EXCEPT !.virt[c] = v, !.phys[v] = c]
Unbind(m, c, v) ==
    [m EXCEPT !.virt[c] = None, !.phys[v] = None, !.vused = @ \ {v}]
UnbindIfBound(m, c) == IF m.virt[c] = None THEN m ELSE Unbind(m, c, m.virt[c])

\* setCellState of a leaf; the bound virtual cell takes the state over.
SetCellState(m, c, s) ==
    LET v == m.virt[c]
    IN  [m EXCEPT !.st[c] = s,
                  !.vused = IF v = None THEN @
                            ELSE IF s = "Used" THEN @ \union {v} ELSE @ \ {v}]

RECURSIVE InFreeCellList(_, _)
InFreeCellList(m, c) ==
    /\ m.virt[c] = None /\ c \notin m.split
    /\ \/ Level(c) = Top
       \/ Parent(c) \in m.split
       \/ InFreeCellList(m, Parent(c))

\* getUnboundVirtualCell, of a list of virtual cells
UnboundVirtualCell(m, cells) ==
    IF \E i \in DOMAIN cells : m.phys[cells[i]] = None
    THEN cells[Min({i \in DOMAIN cells : m.phys[cells[i]] = None})]
    ELSE None

\* The unbound child of the virtual cell that the parent of c is bound to.
UnboundBuddy(m, c) ==
    LET pv == m.virt[Parent(c)]
    IN  IF pv = None THEN None ELSE UnboundVirtualCell(m, VChildren(pv))
BindToBuddy(m, c) == IF m.virt[c] = None THEN Bind(m, c, UnboundBuddy(m, c)) ELSE m

RECURSIVE BindCell(_, _, _)
BindCell(m, c, v) ==
    IF m.phys[v] # None THEN m
    ELSE LET m1 == Bind(m, c, v)
         IN  IF VParent(v) = None THEN m1 ELSE BindCell(m1, Parent(c), VParent(v))

RECURSIVE UnbindFrom(_, _)
UnbindFrom(m, v) ==
    LET above == VParent(v)
        Up(m1) == IF \E i \in DOMAIN VChildren(above) : m1.phys[VChildren(above)[i]] # None
                  THEN m1 ELSE UnbindFrom(m1, above)
    IN  IF m.phys[v] = None THEN Panic(m, "nil: unbinding an unbound virtual cell")
        ELSE IF above = None THEN Unbind(m, m.phys[v], v)
        ELSE Up(Unbind(m, m.phys[v], v))

-----------------------------------------------------------------------------
(* The free list.  Splitting goes up to the first split ancestor, merging  *)
(* up to the first cell with a buddy that is not free.                     *)

RECURSIVE RemoveCellFromFreeList(_, _)
RemoveCellFromFreeList(m, c) ==
    IF Level(c) = Top \/ Parent(c) \in m.split
    THEN <<RemoveFree(m, c), Level(c)>>
    ELSE RemoveCellFromFreeList(
            RemoveFree([m EXCEPT !.free = @ \union ChildrenOf[Parent(c)],
                                 !.split = @ \union {Parent(c)}], c),
            Parent(c))

RECURSIVE AddCellToFreeList(_, _)
AddCellToFreeList(m, c) ==
    IF Level(c) < Top /\ ChildrenOf[Parent(c)] \ {c} \subseteq m.free
    THEN AddCellToFreeList(
            [m EXCEPT !.free = @ \ ChildrenOf[Parent(c)], !.split = @ \ {Parent(c)}],
            Parent(c))
    ELSE <<[m EXCEPT !.free = @ \union {c}], Level(c)>>

-----------------------------------------------------------------------------
(* Doomed bad cells, and the allocation of preassigned cells, which call   *)
(* each other.  Whether the nested allocations are safe is not looked at.  *)

RECURSIVE TryBindDoomedBadCell(_, _)
RECURSIVE TryUnbindDoomedBadCell(_, _)
RECURSIVE BindDoomed(_, _, _)
RECURSIVE UnbindDoomed(_, _, _)
RECURSIVE AllocatePreassignedCell(_, _, _, _)
RECURSIVE ReleasePreassignedCell(_, _, _, _)
RECURSIVE AllocateUpwards(_, _, _, _)
RECURSIVE AllocateDownwards(_, _, _, _)
RECURSIVE ReleaseUpwards(_, _, _, _)
RECURSIVE ReleaseDownwards(_, _, _, _)

TryBindDoomedBadCell(m, l) ==
    FoldLeft(LAMBDA acc, vc : BindDoomed(acc, vc, l), m, m.ord)

BindDoomed(m, vc, l) ==
    LET c == Head(m.badFree[l])
        Listed(x) == [x EXCEPT !.doomed[vc][l] = Append(@, c)]
        Allocated(x) == [AllocatePreassignedCell(x, c, vc, TRUE) EXCEPT !.unsafe = m.unsafe]
    IN  IF m.panic # "" \/ m.vcFree[vc][l] <= HealthyLeft(m, l) THEN m
        ELSE IF m.badFree[l] = <<>> THEN Panic(m, "index: no bad free cell to bind")
        ELSE BindDoomed(
                Then(Then(Bind(m, c, UnboundVirtualCell(m, PreassignedCells(m, vc, l))), Listed),
                     Allocated),
                vc, l)

TryUnbindDoomedBadCell(m, l) ==
    FoldLeft(LAMBDA acc, vc : UnbindDoomed(acc, vc, l), m, m.ord)

UnbindDoomed(m, vc, l) ==
    LET c == Head(m.doomed[vc][l])
    IN  IF m.panic # "" \/ m.doomed[vc][l] = <<>> \/ m.vcFree[vc][l] >= HealthyLeft(m, l)
        THEN m
        ELSE IF m.virt[c] = None THEN Panic(m, "nil: doomed cell is not bound")
        ELSE UnbindDoomed(Then(RemoveDoomed(Unbind(m, c, m.virt[c]), vc, c, l),
                               LAMBDA x : ReleasePreassignedCell(x, c, vc, TRUE)),
                          vc, l)

\* A bad cell that is allocated has its bad children bound as well, so that
\* the VC sees them.
RECURSIVE AllocateBadCell(_, _)
AllocateBadCell(m, c) ==
    ForEach(LAMBDA x, acc : AllocateBadCell(acc, x),
            BindToBuddy(IF Contains(m.badFree[Level(c)], c)
                        THEN RemoveBadFree(m, c, Level(c)) ELSE m, c),
            ChildrenOf[c] \intersect m.bad)

RECURSIVE ReleaseBadCell(_, _)
ReleaseBadCell(m, c) ==
    ForEach(LAMBDA x, acc : ReleaseBadCell(acc, x),
            UnbindIfBound([m EXCEPT !.badFree[Level(c)] = Append(@, c)], c),
            ChildrenOf[c] \intersect m.bad)

TakeLeft(m, l, number) ==
    [m EXCEPT !.left[l] = @ - number,
              !.unsafe = @ \/ m.left[l] - number < AllVCFree(m, l)]

AllocateUpwards(m, c, l, upTo) ==
    LET a == Ancestor(c, l)
        Track(x) == IF a \in x.bad THEN RemoveBadFree(x, a, l) ELSE TryBindDoomedBadCell(x, l)
    IN  IF l > upTo \/ m.panic # "" THEN m
        ELSE AllocateUpwards(Track(TakeLeft(m, l, 1)), c, l + 1, upTo)

AllocateDownwards(m, l, number, doomed) ==
    LET Track(x) == IF doomed THEN x ELSE TryBindDoomedBadCell(x, l)
    IN  IF l = 0 \/ m.panic # "" THEN m
        ELSE AllocateDownwards(Track(TakeLeft(m, l, number)), l - 1, number * Arity[l], doomed)

AllocatePreassignedCell(m, c, vc, doomed) ==
    LET l == Level(c)
        Split(r) == AllocateUpwards(r[1], c, l + 1, r[2])
        AsBad(x) == IF doomed THEN x ELSE TryUnbindDoomedBadCell(x, l)
        Track(x) == IF c \in x.bad THEN AsBad(AllocateBadCell(x, c))
                    ELSE TryBindDoomedBadCell(x, l)
    IN  Then(Split(RemoveCellFromFreeList(
                [m EXCEPT !.vcFree[vc][l] = @ - 1, !.left[l] = @ - 1], c)),
             LAMBDA x : AllocateDownwards(Track(x), l - 1, Arity[l], doomed))

ReleaseUpwards(m, c, l, upTo) ==
    LET a == Ancestor(c, l)
        Track(x) == IF a \in x.bad THEN [x EXCEPT !.badFree[l] = Append(@, a)]
                    ELSE TryUnbindDoomedBadCell(x, l)
    IN  IF l > upTo \/ m.panic # "" THEN m
        ELSE ReleaseUpwards(Track([m EXCEPT !.left[l] = @ + 1]), c, l + 1, upTo)

ReleaseDownwards(m, l, number, doomed) ==
    LET Track(x) == IF doomed THEN x ELSE TryUnbindDoomedBadCell(x, l)
    IN  IF l = 0 \/ m.panic # "" THEN m
        ELSE ReleaseDownwards(Track([m EXCEPT !.left[l] = @ + number]), l - 1,
                              number * Arity[l], doomed)

ReleasePreassignedCell(m, c, vc, doomed) ==
    LET l == Level(c)
        Merged(r) == ReleaseUpwards(r[1], c, l + 1, r[2])
        AsBad(x) == IF doomed THEN x ELSE TryBindDoomedBadCell(x, l)
        Track(x) == IF c \in x.bad THEN AsBad(ReleaseBadCell(x, c))
                    ELSE TryUnbindDoomedBadCell(x, l)
    IN  Then(Merged(AddCellToFreeList(
                [m EXCEPT !.vcFree[vc][l] = @ + 1, !.left[l] = @ + 1], c)),
             LAMBDA x : ReleaseDownwards(Track(x), l - 1, Arity[l], doomed))

-----------------------------------------------------------------------------
(* Nodes fail and recover; a cell is bad if any of its children is.        *)

RECURSIVE SetBadCell(_, _)
SetBadCell(m, c) ==
    LET l == Level(c)
        marked == [m EXCEPT !.bad = @ \union {c}]
        AddBadFree(x) == IF AllVCFree(x, l) > HealthyLeft(x, l)
                         THEN TryBindDoomedBadCell(x, l) ELSE x
        Track(x) == IF InFreeCellList(x, c)
                    THEN AddBadFree([x EXCEPT !.badFree[l] = Append(@, c)])
                    ELSE IF c \in x.split THEN x ELSE BindToBuddy(x, c)
    IN  IF c \in m.bad \/ m.panic # "" THEN m
        ELSE Then(IF l = Top THEN marked ELSE SetBadCell(marked, Parent(c)), Track)

RECURSIVE SetHealthyCell(_, _)
SetHealthyCell(m, c) ==
    LET l == Level(c)
        v == m.virt[c]
        inUse == Priority(m, c) >= MinGuaranteedPriority
        Track(x) ==
            IF InFreeCellList(x, c)
            THEN Then(RemoveBadFree(x, c, l), LAMBDA y : TryUnbindDoomedBadCell(y, l))
            ELSE IF v = None \/ inUse THEN x
            ELSE IF VParent(v) # None THEN Unbind(x, c, v)
            ELSE Then(RemoveDoomed(Unbind(x, c, v), VC(v), c, l),
                      LAMBDA y : ReleasePreassignedCell(y, c, VC(v), TRUE))
        Up(x) == IF l = Top \/ ChildrenOf[Parent(c)] \intersect x.bad # {} THEN x
                 ELSE SetHealthyCell(x, Parent(c))
    IN  IF c \notin m.bad \/ m.panic # "" THEN m
        ELSE Up(Track([m EXCEPT !.bad = @ \ {c}]))

SetBadNode(m, n) ==
    ForEach(LAMBDA c, acc : SetBadCell(acc, c), m, UnderOf[n][1])
SetHealthyNode(m, n) ==
    ForEach(LAMBDA c, acc : SetHealthyCell(acc, c), m, UnderOf[n][1])

\* NewHivedAlgorithm: everything is free, then all nodes are bad until
\* Kubernetes reports them.
NewAlgorithm(quota, order) ==
    LET virtual == VirtualCells(quota)
        empty == [quota |-> quota, bad |-> {}, split |-> {}, free |-> TopCells,
                  virt |-> [c \in Cells |-> None], phys |-> [v \in virtual |-> None],
                  pri |-> [c \in Leaves |-> FreePriority],
                  vpri |-> [v \in {x \in virtual : VLevel(x) = 1} |-> FreePriority],
                  vcFree |-> quota, left |-> [l \in Levels |-> Tops * Ratio[Top][l]],
                  badFree |-> [l \in Levels |-> <<>>],
                  doomed |-> [vc \in VCs |-> [l \in Levels |-> <<>>]],
                  st |-> [c \in Leaves |-> "Free"], vused |-> {},
                  using |-> [c \in Leaves |-> ""], rsv |-> [c \in Leaves |-> ""],
                  groups |-> <<>>, unsafe |-> FALSE, ord |-> order, panic |-> ""]
    IN  ForEach(LAMBDA n, acc : SetBadNode(acc, n), empty, Nodes)
=============================================================================
