------------------------------ MODULE BTreeSteps ------------------------------
(***************************************************************************)
(* An insertion and an erasure node by node (rebalance_or_split, erase and *)
(* what they call in storage/btree/btree.tcc): a step is what the code     *)
(* does between one recursive call, or one turn of the loop, and the next. *)
(* rebalance_or_split calls itself for the parent of the node it has no    *)
(* room beside; the calls that have not returned are a stack.              *)
(*                                                                         *)
(* The order of the keys is left to BTree: any entry may be inserted at    *)
(* any position of a leaf.  erase first exchanges a value of an internal   *)
(* node with one of a leaf, which changes nothing but values, so here it   *)
(* begins at a position of a leaf too.                                     *)
(***************************************************************************)
EXTENDS BTreeBalance, BTreeMethods

VARIABLES
  tree,      \* the nodes and the root
  pc,        \* what the code does next
  it,        \* the iterator of internal_insert or erase
  waiting,   \* the iterators of the calls of rebalance_or_split under way
  level      \* how far above the leaves each node is; no action reads it

vars == <<tree, pc, it, waiting, level>>

Init ==
  /\ tree = NoTree /\ pc = "idle" /\ it = NoIterator /\ waiting = <<>> /\ level = <<>>

InLeaf(n, p) ==
  n \in DOMAIN tree.node /\ Leaf(tree, n) /\ p \in 0..NodeCount(tree, n)

-------------------------------------------------------------------------------
\* internal_insert, up to where a value goes in: the leaf has room, or is a
\* root that can grow, or a call of rebalance_or_split makes room.
InsertsAt(n, p) == pc = "idle" /\ SizeOf(tree) < MaxSize /\ InLeaf(n, p)

InsertIntoEmpty ==
  /\ pc = "idle" /\ SizeOf(tree) < MaxSize /\ tree.root = NoNode
  /\ tree' = NewLeafRoot(tree, 1)
  /\ it' = It(tree'.root, 0) /\ pc' = "insert"
  /\ level' = [m \in DOMAIN tree'.node |-> 0]
  /\ UNCHANGED waiting

InsertWhereRoom(n, p) ==
  /\ InsertsAt(n, p) /\ ~Full(tree, n)
  /\ tree' = Counted(tree)
  /\ it' = It(n, p) /\ pc' = "insert"
  /\ UNCHANGED <<waiting, level>>

InsertIntoGrown(n, p) ==
  /\ InsertsAt(n, p) /\ Full(tree, n) /\ MaxCount(tree, n) < kNodeValues
  /\ tree' = GrowRoot(Check(tree, n = tree.root))
  /\ it' = It(tree'.root, p) /\ pc' = "insert"
  /\ level' = [m \in DOMAIN tree'.node |-> 0]
  /\ UNCHANGED waiting

InsertIntoFull(n, p) ==
  /\ InsertsAt(n, p) /\ Full(tree, n) /\ MaxCount(tree, n) >= kNodeValues
  /\ waiting' = <<It(n, p)>> /\ pc' = "make room"
  /\ UNCHANGED <<tree, it, level>>

-------------------------------------------------------------------------------
\* rebalance_or_split, at the iterator it was called with last.
Call == Last(waiting)
Called == Check(tree, Full(tree, Call.node))

\* The call has turned the tree into r.t and its iterator into r.it.  The call
\* below it splits its node; if there is none, the leaf has room.
Returns(r) ==
  /\ waiting' = Front(waiting)
  /\ IF Len(waiting) = 1 THEN tree' = Counted(r.t) /\ it' = r.it /\ pc' = "insert"
     ELSE tree' = r.t /\ pc' = "split" /\ UNCHANGED it

BelowRoot == pc = "make room" /\ Call.node # tree.root
CannotMove == ~CanGoLeft(tree, Call) /\ ~CanGoRight(tree, Call)

MoveLeft ==
  /\ BelowRoot /\ CanGoLeft(tree, Call)
  /\ Returns(GoLeft(Called, Call))
  /\ UNCHANGED level

MoveRight ==
  /\ BelowRoot /\ ~CanGoLeft(tree, Call) /\ CanGoRight(tree, Call)
  /\ Returns(GoRight(Called, Call))
  /\ UNCHANGED level

\* The parent needs room first: rebalance_or_split(&parent_iter).
CallForParent ==
  /\ BelowRoot /\ CannotMove /\ Full(tree, Parent(tree, Call.node))
  /\ tree' = Called
  /\ waiting' = Append(waiting, It(Parent(tree, Call.node), Position(tree, Call.node)))
  /\ UNCHANGED <<pc, it, level>>

\* Mutant: that the parent has room taken for granted.
ParentHasRoomUnchecked ==
  /\ BelowRoot /\ CannotMove
  /\ tree' = Called /\ pc' = "split"
  /\ UNCHANGED <<it, waiting, level>>

ParentHasRoom ==
  /\ BelowRoot /\ CannotMove /\ ~Full(tree, Parent(tree, Call.node))
  /\ tree' = Called /\ pc' = "split"
  /\ UNCHANGED <<it, waiting, level>>

\* The node of the split is new, or n; it is as far up as n.
SplitUnderParent ==
  /\ pc = "split"
  /\ Returns(SplitNode(tree, Call.node, Call.position))
  /\ level' = [m \in DOMAIN tree'.node |->
                 IF m \in DOMAIN tree.node THEN level[m] ELSE level[Call.node]]

\* The tree gets higher by one: everything new is as far up as the root was.
RaiseAndSplit ==
  /\ pc = "make room" /\ Call.node = tree.root
  /\ Returns(SplitRaised(RaiseRoot(Called), Call.position))
  /\ level' = [m \in DOMAIN tree'.node |->
                 IF m = tree'.root THEN level[tree.root] + 1
                 ELSE IF m \in DOMAIN tree.node THEN level[m] ELSE level[tree.root]]

\* internal_insert goes on: insert_value.
Insert(e) ==
  /\ pc = "insert"
  /\ tree' = InsertValue(tree, it.node, it.position, e)
  /\ pc' = "idle" /\ it' = NoIterator
  /\ UNCHANGED <<waiting, level>>

-------------------------------------------------------------------------------
\* erase: the value goes, then the loop walks back up the tree.
Erase(n, p) ==
  /\ pc = "idle" /\ InLeaf(n, p) /\ p < NodeCount(tree, n)
  /\ tree' = RemoveValue(Uncounted(tree), n, p)
  /\ it' = It(n, p) /\ pc' = "repair"
  /\ UNCHANGED <<waiting, level>>

Done == pc' = "idle" /\ it' = NoIterator

Shrink ==
  /\ pc = "repair" /\ it.node = tree.root
  /\ tree' = TryShrink(tree)
  /\ level' = IF tree' = tree THEN level
              ELSE [m \in DOMAIN tree'.node |->
                      IF m = tree'.root THEN level[tree.root] - 1 ELSE level[m]]
  /\ Done
  /\ UNCHANGED waiting

LeaveAsIs ==
  /\ pc = "repair" /\ it.node # tree.root /\ ~BelowMinimum(tree, it.node)
  /\ Done
  /\ UNCHANGED <<tree, waiting, level>>

\* Mutant: the walk back up ends with the first merge.
MergeOrRebalanceOnce ==
  /\ pc = "repair" /\ it.node # tree.root /\ BelowMinimum(tree, it.node)
  /\ tree' = TryMergeOrRebalance(tree, it).t
  /\ level' = [m \in DOMAIN tree'.node |-> level[m]]
  /\ Done
  /\ UNCHANGED waiting

MergeOrRebalance ==
  /\ pc = "repair" /\ it.node # tree.root /\ BelowMinimum(tree, it.node)
  /\ LET step == TryMergeOrRebalance(tree, it)
     IN /\ tree' = step.t
        /\ IF step.merged
           THEN it' = It(Parent(step.t, step.it.node), step.it.position) /\ UNCHANGED pc
           ELSE Done
  /\ level' = [m \in DOMAIN tree'.node |-> level[m]]
  /\ UNCHANGED waiting

-------------------------------------------------------------------------------
InsertSteps ==
  \/ InsertIntoEmpty
  \/ \E n \in DOMAIN tree.node : \E p \in 0..NodeCount(tree, n) :
       InsertWhereRoom(n, p) \/ InsertIntoGrown(n, p) \/ InsertIntoFull(n, p)
  \/ MoveLeft \/ MoveRight \/ CallForParent \/ ParentHasRoom
  \/ SplitUnderParent \/ RaiseAndSplit
  \/ \E e \in Entry : Insert(e)
EraseSteps ==
  \/ \E n \in DOMAIN tree.node : \E p \in 0..NodeCount(tree, n) : Erase(n, p)
  \/ Shrink \/ LeaveAsIs \/ MergeOrRebalance
Next == InsertSteps \/ EraseSteps

Spec == Init /\ [][Next]_vars

-------------------------------------------------------------------------------
\* Every node but the root is where its parent says, and the other way round:
\* no node is out of the tree's reach.
Attached(t) ==
  /\ Linked(t)
  /\ \A n \in DOMAIN t.node : ChildPerGap(t, n) /\ (n # t.root => IsChild(t, n))

\* lev counts the levels from the leaves up, whichever way it goes down, and
\* the root is on top.
Graded(t, lev) ==
  /\ DOMAIN lev = DOMAIN t.node
  /\ \A n \in DOMAIN t.node :
       /\ lev[n] \in Nat
       /\ Leaf(t, n) <=> lev[n] = 0
       /\ n # t.root => (lev[Parent(t, n)] = lev[n] + 1 /\ lev[n] < lev[t.root])

\* The one node with room for rightmost and size is a root that is not a leaf;
\* the only one that may be smaller than others is a root that is one.
Sized(t) ==
  \A n \in DOMAIN t.node :
    /\ t.node[n].fields = "root" <=> (n = t.root /\ ~Leaf(t, n))
    /\ MaxCount(t, n) \in 1..kNodeValues
    /\ MaxCount(t, n) = kNodeValues \/ (n = t.root /\ Leaf(t, n))
    /\ NodeCount(t, n) <= MaxCount(t, n)

\* From the leaf a the way up to the root is by first (last) children only.
AtEdge(t, a, edge) ==
  \E E \in SUBSET edge :
    /\ a \in E /\ Leaf(t, a)
    /\ \A n \in E : n # t.root => Parent(t, n) \in E
FirstChildren(t) == {n \in DOMAIN t.node : n = t.root \/ Position(t, n) = 0}
LastChildren(t) ==
  {n \in DOMAIN t.node : n = t.root \/ Position(t, n) = NodeCount(t, Parent(t, n))}
Edged(t) ==
  /\ AtEdge(t, Leftmost(t), FirstChildren(t))
  /\ AtEdge(t, Rightmost(t), LastChildren(t))

\* The node that a value is about to be put into, or that one has left.
Unsettled ==
  CASE pc = "split" -> {Parent(tree, Call.node)}
    [] pc = "insert" \/ pc = "repair" -> {it.node}
    [] OTHER -> {}

-------------------------------------------------------------------------------
\* The tree is a record of nodes, and the calls under way have iterators.
TypeOK ==
  /\ Tree(tree) /\ IsFiniteSet(DOMAIN tree.node) /\ NoNode \notin DOMAIN tree.node
  /\ pc \in {"idle", "make room", "split", "insert", "repair"}
  /\ waiting \in Seq([node : DOMAIN tree.node, position : Nat])
  /\ pc \in {"insert", "repair"} => it \in [node : DOMAIN tree.node, position : Nat]

\* No assert() of rebalance_or_split, merge_nodes, try_merge_or_rebalance,
\* try_shrink, make_root, delete_internal_node and the methods of btree_node
\* that they call ever fails (btree.tcc:630-827, btree.h and btree.tcc).
AssertsHold == tree.asserts

\* Between any two steps of an insertion or an erasure every node but the root
\* is the child its parent has for it, children know their parent and position,
\* and an internal node has a child on either side of each value; without a
\* root there is no node left
\* (btree.tcc:630-827: set_child, set_position and the deletes of nodes).
NodesAttached == Attached(tree) /\ (tree.root = NoNode => DOMAIN tree.node = {})

\* All leaves are on one level, between any two steps (btree.tcc:630-827).
Balanced == tree.root # NoNode => Graded(tree, level)

\* A node is never over its max_count, and only a root that is a leaf has one
\* that is not kNodeValues, or the fields of the root that it does not need
\* (btree.tcc:701, 711, 721, 728, 855: which init and what size a node gets).
NodesSized == Sized(tree)

\* leftmost() and rightmost() are the first and the last leaf, between any two
\* steps (btree.tcc:697-714, 723-725, 741-744, 806-824, btree.h make_root).
EdgesKnown == tree.root # NoNode => Edged(tree)

\* A node without a value is one that an insertion is about to fill, or an
\* erasure about to repair: neither leaves one behind (btree.tcc:533-553,
\* 630-736, 752-798).
NoneLeftEmpty ==
  \A n \in DOMAIN tree.node \ Unsettled : NodeCount(tree, n) >= 1

\* The calls of rebalance_or_split under way are for a full leaf and the full
\* nodes straight above it, each at the position of the one below; when the
\* call for the parent returns, the parent the node has then (perhaps another
\* than before) has room; and there is room in the leaf to insert into
\* (btree.tcc:689-694, 732-735, 861).
CallsAreAPath ==
  /\ \A i \in DOMAIN waiting :
       LET n == waiting[i].node
       IN /\ Full(tree, n) /\ MaxCount(tree, n) = kNodeValues
          /\ waiting[i].position <= NodeCount(tree, n)
          /\ level[n] = i - 1
          /\ i < Len(waiting) =>
               n # tree.root /\ waiting[i + 1] = It(Parent(tree, n), Position(tree, n))
  /\ waiting # <<>> <=> pc \in {"make room", "split"}
  /\ pc = "split" => Call.node # tree.root /\ ~Full(tree, Parent(tree, Call.node))
  /\ pc = "insert" =>
       ~Full(tree, it.node) /\ Leaf(tree, it.node) /\ it.position <= NodeCount(tree, it.node)
===============================================================================
