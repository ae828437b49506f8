------------------------------ MODULE BTreeBalance ------------------------------
(***************************************************************************)
(* What btree does to a node and its neighbours (storage/btree/btree.tcc): *)
(* moving values to a sibling, splitting a node and raising the root to    *)
(* make room for an insertion; merging with a sibling, taking values from  *)
(* one and shrinking the root after an erasure.  BTreeOps calls them again *)
(* and again until the tree is in order; BTreeSteps takes each for a step. *)
(***************************************************************************)
EXTENDS BTreeNodes

\* kMinNodeValues is half of kNodeValues, rounded down.
BelowMinimum(t, n) == NodeCount(t, n) < kNodeValues \div 2
AboveMinimum(t, n) == NodeCount(t, n) > kNodeValues \div 2

-------------------------------------------------------------------------------
\* Iterators: a node and a position in it.
It(n, p) == [node |-> n, position |-> p]
NoIterator == It(NoNode, -1)

-------------------------------------------------------------------------------
\* rebalance_or_split: make room at it, a position in a full node.
LeftSibling(t, n)  == Child(t, Parent(t, n), Position(t, n) - 1)
RightSibling(t, n) == Child(t, Parent(t, n), Position(t, n) + 1)
HasLeft(t, n)  == Position(t, n) > 0
HasRight(t, n) == Position(t, n) < NodeCount(t, Parent(t, n))

Room(t, n) == MaxCount(t, n) - NodeCount(t, n)

\* How many values go to a sibling: all its room if the insertion is at the
\* far end, else half of it.
ToLeft(t, it) ==
  LET left == LeftSibling(t, it.node)
  IN Max({1, Room(t, left) \div (IF it.position < MaxCount(t, left) THEN 2 ELSE 1)})
ToRight(t, it) ==
  Max({1, Room(t, RightSibling(t, it.node)) \div (IF it.position > 0 THEN 2 ELSE 1)})

\* Mutant: that the sibling keeps room for the value to insert not checked.
CanGoLeftAny(t, it) ==
  HasLeft(t, it.node) /\ Room(t, LeftSibling(t, it.node)) > 0
CanGoLeft(t, it) ==
  /\ HasLeft(t, it.node)
  /\ LET left == LeftSibling(t, it.node)
     IN /\ Room(t, left) > 0
        /\ it.position - ToLeft(t, it) >= 0 \/ ToLeft(t, it) < Room(t, left)
CanGoRight(t, it) ==
  /\ HasRight(t, it.node)
  /\ LET right == RightSibling(t, it.node)
     IN /\ Room(t, right) > 0
        /\ \/ it.position <= NodeCount(t, it.node) - ToRight(t, it)
           \/ ToRight(t, it) < Room(t, right)

\* Mutant: the delimiter that went left not counted.
WentLeftShort(t, it, left, to_move) ==
  LET p == it.position - to_move
  IN [t |-> t, it |-> IF p < 0 THEN It(left, p + NodeCount(t, left)) ELSE It(it.node, p)]

\* Mutant: the iterator not moved to the left node.
WentLeftStays(t, it, left, to_move) ==
  [t |-> Check(t, Room(t, it.node) = to_move), it |-> It(it.node, it.position - to_move)]

\* to_move values have gone left: where the insertion now belongs.
WentLeft(t, it, left, to_move) ==
  LET p == it.position - to_move
      at == IF p < 0 THEN It(left, p + NodeCount(t, left) + 1) ELSE It(it.node, p)
  IN [t |-> Check(t, Room(t, it.node) = to_move /\ Room(t, at.node) > 0), it |-> at]
WentRight(t, it, right) ==
  LET p == it.position - NodeCount(t, it.node) - 1
      at == IF p >= 0 THEN It(right, p) ELSE it
  IN [t |-> Check(t, Room(t, at.node) > 0), it |-> at]

GoLeft(t, it) ==
  LET left == LeftSibling(t, it.node)
  IN WentLeft(RebalanceRightToLeft(t, left, it.node, ToLeft(t, it)), it, left, ToLeft(t, it))
GoRight(t, it) ==
  LET right == RightSibling(t, it.node)
  IN WentRight(RebalanceLeftToRight(t, it.node, right, ToRight(t, it)), it, right)

\* init_root: a new root takes over what the old one, a leaf, says of the tree.
InitRoot(t) ==
  [t EXCEPT !.rightmost = Leftmost(t), !.size = NodeCount(t, Leftmost(t))]

\* The root is full.  A leaf gets a new root above it; an internal root stays
\* where it is and its contents move to a new node below it.
RaiseRoot(t) ==
  LET a == FreshAddress(t)
      above == [SetChild(InitRoot(Allocate(t, RootNode(Leftmost(t)))), a, 0, t.root)
                  EXCEPT !.root = a]
      below == Allocate(t, InternalNode(Leftmost(t)))
  IN IF Leaf(t, t.root)
     THEN [t |-> Check(above, above.rightmost = Child(above, a, 0)), node |-> t.root]
     ELSE [t |-> Swap(SetChild(below, a, 0, a), a, t.root), node |-> a]

\* Mutants: an internal node is split into itself and a leaf; a new leaf has
\* room for less than kNodeValues.
NewSiblingLeaf(t, n) == LeafNode(Parent(t, n), kNodeValues)
NewSiblingSmall(t, n) ==
  IF Leaf(t, n) THEN LeafNode(Parent(t, n), kNodeValues - 1) ELSE InternalNode(Parent(t, n))

\* new_leaf_node(parent) or new_internal_node(parent).  The code's parent was read
\* before the parent itself was split; Split sets the one that counts.
NewSibling(t, n) ==
  IF Leaf(t, n) THEN LeafNode(Parent(t, n), kNodeValues) ELSE InternalNode(Parent(t, n))

\* Mutant: rightmost left where it is.
MoveRightmostNever(t, one, other) == t

\* The last leaf is no longer one but the other.
MoveRightmost(t, one, other) ==
  IF t.rightmost = one THEN [t EXCEPT !.rightmost = other] ELSE t

\* n was split into n and dest.
AfterSplit(t, n, dest, p) ==
  [t |-> IF Leaf(t, n) THEN MoveRightmost(t, n, dest) ELSE t,
   it |-> IF p > NodeCount(t, n) THEN It(dest, p - NodeCount(t, n) - 1) ELSE It(n, p)]

\* Split n, whose parent has room, for an insertion at position p.
SplitNode(t, n, p) ==
  LET dest == FreshAddress(t)
  IN AfterSplit(Split(Allocate(t, NewSibling(t, n)), n, dest, p), n, dest, p)

\* raised is a tree and a node of it to split.
SplitRaised(raised, p) == SplitNode(raised.t, raised.node, p)

-------------------------------------------------------------------------------
NewLeafRoot(t, max_count) ==
  [Allocate(t, LeafNode(FreshAddress(t), max_count)) EXCEPT !.root = FreshAddress(t)]

\* Mutant: twice its size even if that is more than a node holds.
GrowRootUncapped(t) ==
  LET a == FreshAddress(t)
      t1 == Allocate(t, LeafNode(a, 2 * MaxCount(t, t.root)))
  IN [Free(Swap(t1, a, t.root), t.root) EXCEPT !.root = a]

\* A root leaf smaller than a full node is replaced by one twice its size.
GrowRoot(t) ==
  LET a == FreshAddress(t)
      t1 == Allocate(t, LeafNode(a, Min({kNodeValues, 2 * MaxCount(t, t.root)})))
  IN [Free(Swap(t1, a, t.root), t.root) EXCEPT !.root = a]

\* The size of a tree whose root is not a leaf is counted in the root.
Counted(t) == IF Leaf(t, t.root) THEN t ELSE [t EXCEPT !.size = @ + 1]
Uncounted(t) == IF Leaf(t, t.root) THEN t ELSE [t EXCEPT !.size = @ - 1]

\* r is a tree and a position in a leaf that has room.
InsertInLeaf(r, e) ==
  [t |-> InsertValue(r.t, r.it.node, r.it.position, e), it |-> r.it, n |-> 1]

-------------------------------------------------------------------------------
\* right was merged into left and is empty.
DeleteMerged(t, left, right) ==
  IF Leaf(t, right) THEN Free(MoveRightmost(t, right, left), right)
  ELSE DeleteInternalNode(t, right)

\* merge_nodes: right's values and the delimiter go to left.
MergeNodes(t, left, right) == DeleteMerged(Merge(t, left, right), left, right)

\* The two nodes and the value between them fit into one: it is the sibling's
\* max_count that the code looks at, whichever side the sibling is on.
Mergeable(t, n, sibling) == 1 + NodeCount(t, n) + NodeCount(t, sibling) <= MaxCount(t, sibling)

\* Mutant: an empty node skipped too.
CanTakeFromRightSkipsEmpty(t, it) ==
  /\ HasRight(t, it.node)
  /\ AboveMinimum(t, RightSibling(t, it.node))
  /\ it.position > 0

\* Moving values is skipped when the first (last) value was erased, unless the
\* node is empty.
CanTakeFromRight(t, it) ==
  /\ HasRight(t, it.node)
  /\ AboveMinimum(t, RightSibling(t, it.node))
  /\ NodeCount(t, it.node) = 0 \/ it.position > 0
CanTakeFromLeft(t, it) ==
  /\ HasLeft(t, it.node)
  /\ AboveMinimum(t, LeftSibling(t, it.node))
  /\ NodeCount(t, it.node) = 0 \/ it.position < NodeCount(t, it.node)

\* Half the difference, but never all of the sibling's values.
ToTake(t, sibling, n) ==
  Min({(NodeCount(t, sibling) - NodeCount(t, n)) \div 2, NodeCount(t, sibling) - 1})

\* try_merge_or_rebalance: it is where a value left its node, or, on the levels
\* above the leaf, a parent with the position the iterator had below.
TryMergeOrRebalance(t, it) ==
  LET n == it.node
      left == LeftSibling(t, n)
      right == RightSibling(t, n)
      Result(u, at, merged) == [t |-> u, it |-> at, merged |-> merged]
      taken == ToTake(t, left, n)
  IN IF HasLeft(t, n) /\ Mergeable(t, n, left)
     THEN Result(MergeNodes(t, left, n), It(left, it.position + 1 + NodeCount(t, left)), TRUE)
     ELSE IF HasRight(t, n) /\ Mergeable(t, n, right)
     THEN Result(MergeNodes(t, n, right), it, TRUE)
     ELSE IF CanTakeFromRight(t, it)
     THEN Result(RebalanceRightToLeft(t, n, right, ToTake(t, right, n)), it, FALSE)
     ELSE IF CanTakeFromLeft(t, it)
     THEN Result(RebalanceLeftToRight(t, left, n, taken), It(n, it.position + taken), FALSE)
     ELSE Result(t, it, FALSE)

\* btree_node::make_root: a child of the root becomes the root.
MakeRoot(t, n) ==
  [Check(t, IsRoot(t, Parent(t, n))) EXCEPT !.node[n].parent = Parent(t, Parent(t, n)),
                                            !.root = n, !.rightmost = NoNode, !.size = 0]

\* The last value has left the root leaf.
DeleteRootLeaf(t) == [Free(Check(t, SizeOf(t) = 0), t.root) EXCEPT !.root = NoNode]

\* Mutant: the root that gives way to a leaf is not freed.
TryShrinkLeaks(t) ==
  LET child == Child(t, t.root, 0)
  IN IF NodeCount(t, t.root) > 0 THEN t
     ELSE IF Leaf(t, t.root) THEN DeleteRootLeaf(t)
     ELSE IF Leaf(t, child) THEN MakeRoot(t, child)
     ELSE DeleteInternalNode(Swap(t, child, t.root), child)

\* Mutant: an only child becomes the root whatever its kind.
TryShrinkMakesRoot(t) ==
  IF NodeCount(t, t.root) > 0 THEN t
  ELSE IF Leaf(t, t.root) THEN DeleteRootLeaf(t)
  ELSE [Free(MakeRoot(t, Child(t, t.root, 0)), t.root)
          EXCEPT !.rightmost = t.rightmost, !.size = t.size]

\* try_shrink: an empty root gives way to its only child, if it has one.
TryShrink(t) ==
  LET child == Child(t, t.root, 0)
  IN IF NodeCount(t, t.root) > 0 THEN t
     ELSE IF Leaf(t, t.root) THEN DeleteRootLeaf(t)
     ELSE IF Leaf(t, child) THEN Free(MakeRoot(t, child), t.root)
     ELSE DeleteInternalNode(Swap(t, child, t.root), child)
===============================================================================
