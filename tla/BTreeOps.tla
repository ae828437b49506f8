------------------------------- MODULE BTreeOps -------------------------------
(***************************************************************************)
(* The operations of btree (storage/btree/btree.tcc) on its nodes: moving  *)
(* an iterator, searching, inserting with all the rebalancing and          *)
(* splitting an insertion may need, erasing with all the merging,          *)
(* rebalancing and shrinking an erasure may need.  Each is an operator     *)
(* from a tree to a tree; module BTree makes actions of them.              *)
(***************************************************************************)
EXTENDS BTreeBalance

CONSTANT CompareTo   \* TRUE if key_compare is a compare-to function (string keys)

ASSUME CompareToAssumption == CompareTo \in BOOLEAN

-------------------------------------------------------------------------------
\* Iterators.
Begin(t) == It(Leftmost(t), 0)
End(t) == It(Rightmost(t), IF Rightmost(t) = NoNode THEN 0 ELSE NodeCount(t, Rightmost(t)))

At(t, it) == Values(t, it.node)[it.position + 1]
KeyAt(t, it) == At(t, it).key

RECURSIVE FirstLeaf(_, _)
FirstLeaf(t, n) == IF Leaf(t, n) THEN n ELSE FirstLeaf(t, Child(t, n, 0))

RECURSIVE LastLeaf(_, _)
LastLeaf(t, n) == IF Leaf(t, n) THEN n ELSE LastLeaf(t, Child(t, n, NodeCount(t, n)))

RECURSIVE ClimbRight(_, _)
ClimbRight(t, it) ==
  IF it.position = NodeCount(t, it.node) /\ ~IsRoot(t, it.node)
  THEN ClimbRight(t, It(Parent(t, it.node), Position(t, it.node)))
  ELSE it

RECURSIVE ClimbLeft(_, _)
ClimbLeft(t, it) ==
  IF it.position < 0 /\ ~IsRoot(t, it.node)
  THEN ClimbLeft(t, It(Parent(t, it.node), Position(t, it.node) - 1))
  ELSE it

\* Mutant: at the end of the tree the iterator is left at the root.
IncrementSlowToRoot(t, it) ==
  IF Leaf(t, it.node) THEN ClimbRight(t, it)
  ELSE It(FirstLeaf(t, Child(t, it.node, it.position + 1)), 0)

IncrementSlow(t, it) ==
  LET up == ClimbRight(t, it)
  IN IF ~Leaf(t, it.node) THEN It(FirstLeaf(t, Child(t, it.node, it.position + 1)), 0)
     ELSE IF up.position = NodeCount(t, up.node) THEN it ELSE up

\* In a leaf the position moves by d, whether it is still within the leaf or not.
Moved(t, it, d) == IF Leaf(t, it.node) THEN It(it.node, it.position + d) ELSE it
WithinLeaf(t, it) == Leaf(t, it.node) /\ it.position \in 0..NodeCount(t, it.node) - 1

Increment(t, it) ==
  LET next == Moved(t, it, 1)
  IN IF WithinLeaf(t, next) THEN next ELSE IncrementSlow(t, next)

DecrementSlow(t, it) ==
  LET up == ClimbLeft(t, it)
      last == LastLeaf(t, Child(t, it.node, it.position))
  IN IF ~Leaf(t, it.node) THEN It(last, NodeCount(t, last) - 1)
     ELSE IF up.position < 0 THEN it ELSE up

Decrement(t, it) ==
  LET prev == Moved(t, it, -1)
  IN IF WithinLeaf(t, prev) THEN prev ELSE DecrementSlow(t, prev)

\* The asserts of increment_slow and decrement_slow, on the way up and before it.
WhereItSays(t, n) == Child(t, Parent(t, n), Position(t, n)) = n

RECURSIVE ClimbRightHolds(_, _)
ClimbRightHolds(t, it) ==
  it.position = NodeCount(t, it.node) /\ ~IsRoot(t, it.node) =>
    /\ WhereItSays(t, it.node)
    /\ ClimbRightHolds(t, It(Parent(t, it.node), Position(t, it.node)))

RECURSIVE ClimbLeftHolds(_, _)
ClimbLeftHolds(t, it) ==
  it.position < 0 /\ ~IsRoot(t, it.node) =>
    /\ WhereItSays(t, it.node)
    /\ ClimbLeftHolds(t, It(Parent(t, it.node), Position(t, it.node) - 1))

IncrementHolds(t, it) ==
  LET next == Moved(t, it, 1)
  IN \/ WithinLeaf(t, next)
     \/ Leaf(t, it.node) /\ next.position >= NodeCount(t, it.node) /\ ClimbRightHolds(t, next)
     \/ ~Leaf(t, it.node) /\ it.position < NodeCount(t, it.node)

DecrementHolds(t, it) ==
  LET prev == Moved(t, it, -1)
  IN \/ WithinLeaf(t, prev)
     \/ Leaf(t, it.node) /\ prev.position <= -1 /\ ClimbLeftHolds(t, prev)
     \/ ~Leaf(t, it.node) /\ it.position >= 0

\* std::distance, which erase(begin, end) and count_multi call.
RECURSIVE Distance(_, _, _)
Distance(t, first, last) ==
  IF first = last THEN 0 ELSE 1 + Distance(t, Increment(t, first), last)

-------------------------------------------------------------------------------
\* Searches.  btree_node::lower_bound and upper_bound (see NodeSearch).
NodeLowerBound(t, n, k) ==
  LET i == SelectInSeq(Values(t, n), LAMBDA v : v.key >= k)
  IN IF i = 0 THEN NodeCount(t, n) ELSE i - 1
NodeUpperBound(t, n, k) ==
  LET i == SelectInSeq(Values(t, n), LAMBDA v : v.key > k)
  IN IF i = 0 THEN NodeCount(t, n) ELSE i - 1

\* The leaf position at which the search for k ends.
RECURSIVE LeafLowerBound(_, _, _)
LeafLowerBound(t, n, k) ==
  LET p == NodeLowerBound(t, n, k)
  IN IF Leaf(t, n) THEN It(n, p) ELSE LeafLowerBound(t, Child(t, n, p), k)

RECURSIVE LeafUpperBound(_, _, _)
LeafUpperBound(t, n, k) ==
  LET p == NodeUpperBound(t, n, k)
  IN IF Leaf(t, n) THEN It(n, p) ELSE LeafUpperBound(t, Child(t, n, p), k)

\* internal_last: up from a position at the end of its node; node NoNode if
\* there is nothing there.
RECURSIVE InternalLast(_, _)
InternalLast(t, it) ==
  IF it.node = NoNode \/ it.position # NodeCount(t, it.node) THEN it
  ELSE InternalLast(t, It(IF IsRoot(t, it.node) THEN NoNode ELSE Parent(t, it.node),
                          Position(t, it.node)))

InternalLowerBound(t, k) ==
  IF t.root = NoNode THEN It(NoNode, 0) ELSE InternalLast(t, LeafLowerBound(t, t.root, k))
InternalUpperBound(t, k) ==
  IF t.root = NoNode THEN It(NoNode, 0) ELSE InternalLast(t, LeafUpperBound(t, t.root, k))

InternalEnd(t, it) == IF it.node = NoNode THEN End(t) ELSE it

\* internal_locate_plain_compare: down to a leaf, saying nothing of a match.
InternalLocatePlain(t, n, k) == [it |-> LeafLowerBound(t, n, k), exact |-> FALSE]

\* Mutant: a match in an internal node is missed.
RECURSIVE InternalLocateInLeaf(_, _, _)
InternalLocateInLeaf(t, n, k) ==
  LET p == NodeLowerBound(t, n, k)
      exact == p < NodeCount(t, n) /\ KeyAt(t, It(n, p)) = k
  IN IF Leaf(t, n) THEN [it |-> It(n, p), exact |-> exact]
     ELSE InternalLocateInLeaf(t, Child(t, n, p), k)

\* internal_locate_compare_to: down to the first node that has the key.
RECURSIVE InternalLocateCompareTo(_, _, _)
InternalLocateCompareTo(t, n, k) ==
  LET p == NodeLowerBound(t, n, k)
      exact == p < NodeCount(t, n) /\ KeyAt(t, It(n, p)) = k
  IN IF exact \/ Leaf(t, n) THEN [it |-> It(n, p), exact |-> exact]
     ELSE InternalLocateCompareTo(t, Child(t, n, p), k)

InternalLocate(t, n, k) ==
  IF CompareTo THEN InternalLocateCompareTo(t, n, k) ELSE InternalLocatePlain(t, n, k)

\* it if the entry there has key k, else node NoNode.
Match(t, k, it) ==
  IF it.node # NoNode /\ ~(k < KeyAt(t, it)) THEN it ELSE It(NoNode, 0)

\* The entry with key k that the search from the root finds, or node NoNode.
LocateExisting(t, k) ==
  LET res == InternalLocate(t, t.root, k)
  IN IF ~CompareTo THEN Match(t, k, InternalLast(t, res.it))
     ELSE IF res.exact THEN res.it ELSE It(NoNode, 0)

InternalFindUnique(t, k) ==
  IF t.root = NoNode THEN It(NoNode, 0) ELSE LocateExisting(t, k)

InternalFindMulti(t, k) == Match(t, k, InternalLowerBound(t, k))

-------------------------------------------------------------------------------
\* rebalance_or_split: make room at it, a position in a full node.
RECURSIVE RebalanceOrSplit(_, _)
RebalanceOrSplit(t0, it) ==
  LET n == it.node
      t == Check(t0, Full(t0, n))
      parent == Parent(t, n)
      RoomAbove == IF n = t.root THEN RaiseRoot(t)
                   ELSE [t |-> IF Full(t, parent)
                               THEN RebalanceOrSplit(t, It(parent, Position(t, n))).t ELSE t,
                         node |-> n]
  IN IF n # t.root /\ CanGoLeft(t, it) THEN GoLeft(t, it)
     ELSE IF n # t.root /\ CanGoRight(t, it) THEN GoRight(t, it)
     ELSE SplitRaised(RoomAbove, it.position)

\* Room for a value at it, a position in a leaf.
MakeRoom(t, it) ==
  LET InRoot(u) == [t |-> u, it |-> It(u.root, it.position)]
      Added(r) == [r EXCEPT !.t = Counted(@)]
  IN IF ~Full(t, it.node) THEN [t |-> Counted(t), it |-> it]
     ELSE IF MaxCount(t, it.node) < kNodeValues
     THEN InRoot(GrowRoot(Check(t, it.node = t.root)))
     ELSE Added(RebalanceOrSplit(t, it))

\* An internal position stands for the one after the value before it, in a leaf.
LeafPosition(t, it) ==
  LET prev == Decrement(t, it)
  IN IF Leaf(t, it.node) THEN it ELSE It(prev.node, prev.position + 1)

\* internal_insert: e immediately before it.
InternalInsert(t, it, e) == InsertInLeaf(MakeRoom(t, LeafPosition(t, it)), e)

Existing(t, it) == [t |-> t, it |-> it, n |-> 0]

\* A first node for an empty tree.
Rooted(t) == IF t.root = NoNode THEN NewLeafRoot(t, 1) ELSE t

\* insert_unique(key, value)
UniqueInsertion(t0, e) ==
  LET t == Rooted(t0)
      found == LocateExisting(t, e.key)
  IN IF found.node # NoNode THEN Existing(t, found)
     ELSE InternalInsert(t, InternalLocate(t, t.root, e.key).it, e)

\* insert_multi(key, value)
MultiInsertion(t0, e) ==
  LET t == Rooted(t0)
  IN InternalInsert(t, InternalEnd(t, InternalUpperBound(t, e.key)), e)

\* insert_unique(position, v)
UniqueHintInsertion(t, h, e) ==
  LET k == e.key
      BeforeNext(it) == it # End(t) => k < KeyAt(t, it)
      FitsBefore == BeforeNext(h) /\ (h # Begin(t) => KeyAt(t, Decrement(t, h)) < k)
      FitsAfter == ~BeforeNext(h) /\ KeyAt(t, h) < k /\ BeforeNext(Increment(t, h))
      Here == ~BeforeNext(h) /\ ~(KeyAt(t, h) < k)
  IN IF t.root = NoNode \/ ~(FitsBefore \/ FitsAfter \/ Here) THEN UniqueInsertion(t, e)
     ELSE IF Here THEN Existing(t, h)
     ELSE InternalInsert(t, IF FitsBefore THEN h ELSE Increment(t, h), e)

\* insert_multi(position, v)
MultiHintInsertion(t, h, e) ==
  LET k == e.key
      BeforeNext(it) == it # End(t) => ~(KeyAt(t, it) < k)
      FitsBefore == BeforeNext(h) /\ (h # Begin(t) => ~(k < KeyAt(t, Decrement(t, h))))
      FitsAfter == ~BeforeNext(h) /\ BeforeNext(Increment(t, h))
  IN IF t.root = NoNode \/ ~(FitsBefore \/ FitsAfter) THEN MultiInsertion(t, e)
     ELSE InternalInsert(t, IF FitsBefore THEN h ELSE Increment(t, h), e)

\* insert_unique(b, e): each entry of the range with end() for its hint.
UniqueRangeInsertion(t, range) ==
  FoldLeft(LAMBDA u, e : UniqueHintInsertion(u, End(u), e).t, t, range)

\* assign, on a tree just cleared: the entries of another tree, in its order
\* and without a comparison.
Assignment(t, range) ==
  FoldLeft(LAMBDA u, e : IF u.root = NoNode THEN MultiInsertion(u, e).t
                         ELSE InternalInsert(u, End(u), e).t,
           t, range)

-------------------------------------------------------------------------------
\* The loop of erase that walks back up the tree; res is the leaf position the
\* iterator to return is computed from.  RepairAbove goes on after a step.
RECURSIVE Repair(_, _, _), RepairAbove(_, _)
RepairAbove(step, res) ==
  LET at == IF Leaf(step.t, step.it.node) THEN step.it ELSE res
  IN IF ~step.merged THEN [t |-> step.t, it |-> at]
     ELSE Repair(step.t, It(Parent(step.t, step.it.node), step.it.position), at)
Repair(t, it, res) ==
  IF it.node = t.root THEN [t |-> TryShrink(t), it |-> res]
  ELSE IF ~BelowMinimum(t, it.node) THEN [t |-> t, it |-> res]
  ELSE RepairAbove(TryMergeOrRebalance(t, it), res)

\* What erase returns, done being what the loop leaves: the position after the
\* value erased, one further if that was the one before an internal position.
Erased(done, internal) ==
  LET t == done.t
      at == done.it
      res == IF at.position = NodeCount(t, at.node)
             THEN Increment(t, It(at.node, at.position - 1)) ELSE at
  IN [t |-> t, n |-> 1,
      it |-> IF t.root = NoNode THEN End(t)
             ELSE IF internal THEN Increment(t, res) ELSE res]

EraseInLeaf(t, it) ==
  Repair(RemoveValue(Uncounted(t), it.node, it.position), it, it)

\* erase(iterator): a value in an internal node is exchanged with the one
\* before it, which is in a leaf, and erased there.
Erasure(t, it) ==
  LET internal == ~Leaf(t, it.node)
      at == IF internal THEN Decrement(t, it) ELSE it
      swapped == ValueSwap(Check(t, Leaf(t, at.node) /\ ~(KeyAt(t, it) < KeyAt(t, at))),
                           at.node, at.position, it.node, it.position)
  IN Erased(EraseInLeaf(IF internal THEN swapped ELSE t, at), internal)

\* erase(begin, end): count times erase(begin), begin being what it returned.
RECURSIVE Erasures(_, _)
Erasures(r, count) ==
  IF count = 0 THEN r.t ELSE Erasures(Erasure(r.t, r.it), count - 1)

RangeErasure(t, first, last) ==
  LET count == Distance(t, first, last)
  IN [t |-> Erasures([t |-> t, it |-> first], count), it |-> NoIterator, n |-> count]

\* erase_unique(key)
UniqueErasure(t, k) ==
  LET it == InternalFindUnique(t, k)
  IN IF it.node = NoNode THEN [t |-> t, it |-> NoIterator, n |-> 0]
     ELSE [t |-> Erasure(t, it).t, it |-> NoIterator, n |-> 1]

\* erase_multi(key)
MultiErasure(t, k) ==
  LET first == InternalLowerBound(t, k)
  IN IF first.node = NoNode THEN [t |-> t, it |-> NoIterator, n |-> 0]
     ELSE RangeErasure(t, first, InternalEnd(t, InternalUpperBound(t, k)))

\* The nodes of the subtree rooted at n.
RECURSIVE Subtree(_, _)
Subtree(t, n) ==
  {n} \cup (IF Leaf(t, n) THEN {}
            ELSE UNION {Subtree(t, Child(t, n, i)) : i \in 0..NodeCount(t, n)})

\* internal_clear: n and all below it.
InternalClear(t, n) == [t EXCEPT !.node = Restrict(@, DOMAIN @ \ Subtree(t, n))]

\* clear, which is also the destructor.
Clearing(t) ==
  LET cleared == IF t.root = NoNode THEN t ELSE InternalClear(t, t.root)
  IN [t |-> [cleared EXCEPT !.root = NoNode, !.rightmost = NoNode, !.size = 0],
      it |-> NoIterator, n |-> 0]
===============================================================================
