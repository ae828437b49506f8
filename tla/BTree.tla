--------------------------------- MODULE BTree ---------------------------------
(***************************************************************************)
(* A btree container (storage/btree/btree_container.h) over the nodes of   *)
(* BTreeOps: every call a container forwards to its tree is one action     *)
(* that runs the whole of the code behind it.  Implements BTreeSeq, and    *)
(* through it OrderedEntries.                                              *)
(***************************************************************************)
EXTENDS BTreeOps

VARIABLES
  tree,      \* the nodes and the root
  contents,  \* what iterating over tree yields; no action reads it
  ret,       \* what the last call returned: an iterator, as its rank, and a count
  call       \* the last call and its arguments, iterators as ranks; no action reads it

vars == <<tree, contents, ret, call>>

Calls(name, arguments) == call' = <<name, arguments>>

\* The iterators to the entries of t in order, found without ++ and --.
RECURSIVE Walk(_, _, _)
Walk(t, n, i) ==   \* from position i of node n on
  LET below == IF Leaf(t, n) THEN <<>> ELSE Walk(t, Child(t, n, i), 0)
  IN IF i = NodeCount(t, n) THEN below
     ELSE below \o <<It(n, i)>> \o Walk(t, n, i + 1)

Iterators(t) == IF t.root = NoNode THEN <<>> ELSE Walk(t, t.root, 0)
\* The iterators callers have, each at its rank.
Positions == Append(Iterators(tree), End(tree))

\* Where it stands among the iterators w of t; NoRank if it is none of them.
RankOf(t, w, it) ==
  IF it = End(t) THEN Len(w) + 1
  ELSE IF \E i \in DOMAIN w : w[i] = it THEN CHOOSE i \in DOMAIN w : w[i] = it
  ELSE NoRank

Init ==
  /\ tree = NoTree /\ contents = <<>>
  /\ ret = Return(NoRank, 0) /\ call = <<"construct", <<>> >>

-------------------------------------------------------------------------------
\* The call has turned the tree into r.t and returns r.it and r.n.
Returns(r) ==
  LET w == Iterators(r.t)
  IN /\ tree' = r.t
     /\ contents' = [i \in DOMAIN w |-> At(r.t, w[i])]
     /\ ret' = Return(RankOf(r.t, w, r.it), r.n)

\* An insertion, if there is room for another entry.
Inserts(r) == (r.n = 1 => SizeOf(tree) < MaxSize) /\ Returns(r)

InsertUnique(e) == Inserts(UniqueInsertion(tree, e))
InsertUniqueHint(h, e) == Inserts(UniqueHintInsertion(tree, h, e))
Subscript(k) == InsertUnique(DefaultEntry(k))
InsertMulti(e) == Inserts(MultiInsertion(tree, e))
InsertMultiHint(h, e) == Inserts(MultiHintInsertion(tree, h, e))

Erase(it) == Returns(Erasure(tree, it))
EraseRange(first, last) == Returns(RangeErasure(tree, first, last))
EraseUnique(k) == Returns(UniqueErasure(tree, k))
EraseMulti(k) == Returns(MultiErasure(tree, k))
Clear == Returns(Clearing(tree))

\* The copy constructor: the container goes on as a copy of itself.
Copy == Returns([t |-> Assignment(NoTree, contents), it |-> NoIterator, n |-> 0])

LowerBound(k) == Returns(Existing(tree, InternalEnd(tree, InternalLowerBound(tree, k))))
UpperBound(k) == Returns(Existing(tree, InternalEnd(tree, InternalUpperBound(tree, k))))
FindUnique(k) == Returns(Existing(tree, InternalEnd(tree, InternalFindUnique(tree, k))))
FindMulti(k) == Returns(Existing(tree, InternalEnd(tree, InternalFindMulti(tree, k))))

Counts(n) == Returns([t |-> tree, it |-> NoIterator, n |-> n])
CountUnique(k) == Counts(IF InternalFindUnique(tree, k).node = NoNode THEN 0 ELSE 1)
CountMulti(k) ==
  Counts(Distance(tree, InternalEnd(tree, InternalLowerBound(tree, k)),
                        InternalEnd(tree, InternalUpperBound(tree, k))))

-------------------------------------------------------------------------------
UniqueNext ==
  /\ ~Multi
  /\ \/ \E k \in Keys, d \in Data : LET e == [key |-> k, data |-> d] IN
          \/ Calls("insert", <<NoRank, e>>) /\ InsertUnique(e)
          \/ \E h \in DOMAIN Positions :
               Calls("insert", <<h, e>>) /\ InsertUniqueHint(Positions[h], e)
     \/ \E k \in Keys :
          \/ Calls("subscript", <<k>>) /\ Subscript(k)
          \/ Calls("erase key", <<k>>) /\ EraseUnique(k)
          \/ Calls("find", <<k>>) /\ FindUnique(k)
          \/ Calls("count", <<k>>) /\ CountUnique(k)

MultiNext ==
  /\ Multi
  /\ \/ \E k \in Keys, d \in Data : LET e == [key |-> k, data |-> d] IN
          \/ Calls("insert", <<NoRank, e>>) /\ InsertMulti(e)
          \/ \E h \in DOMAIN Positions :
               Calls("insert", <<h, e>>) /\ InsertMultiHint(Positions[h], e)
     \/ \E k \in Keys :
          \/ Calls("erase key", <<k>>) /\ EraseMulti(k)
          \/ Calls("find", <<k>>) /\ FindMulti(k)
          \/ Calls("count", <<k>>) /\ CountMulti(k)

CommonNext ==
  \/ \E i \in 1..Len(contents) : Calls("erase", <<i>>) /\ Erase(Positions[i])
  \/ \E i, j \in DOMAIN Positions :
       Calls("erase range", <<i, j>>) /\ i <= j /\ EraseRange(Positions[i], Positions[j])
  \/ \E k \in Keys :
       \/ Calls("lower bound", <<k>>) /\ LowerBound(k)
       \/ Calls("upper bound", <<k>>) /\ UpperBound(k)
  \/ Calls("clear", <<>>) /\ Clear
  \/ Calls("copy", <<>>) /\ Copy

Next == UniqueNext \/ MultiNext \/ CommonNext

Spec == Init /\ [][Next]_vars

-------------------------------------------------------------------------------
Node == [fields : {"leaf", "internal", "root"}, position : 0..kNodeValues, max_count : 1..kNodeValues,
         parent : Nat, values : Seq(Entry), children : Seq(Nat)]

TypeOK ==
  /\ \A n \in DOMAIN tree.node : n \in Nat /\ tree.node[n] \in Node
  /\ tree.root \in DOMAIN tree.node \cup {NoNode}
  /\ tree.rightmost \in DOMAIN tree.node \cup {NoNode}
  /\ tree.size \in 0..MaxSize
  /\ contents \in Seq(Entry)
  /\ ret \in [at : Nat, n : Nat]

(***************************************************************************)
(* No assert() of a call that changes the tree fails: not those of the     *)
(* node methods, which bound what may be moved between which siblings, nor *)
(* those of erase, try_shrink and internal_insert.  Every one depends on   *)
(* earlier calls having left counts, parents and positions right.  (Those  *)
(* of ++ and --, which leave the tree alone, are in IterationWalksEntries.)*)
(***************************************************************************)
AssertsHold == tree.asserts

Methods == INSTANCE BTreeMethods

(***************************************************************************)
(* Whatever calls made the tree, its nodes can be rebalanced, merged,      *)
(* split and swapped in every way the methods of btree_node allow, not     *)
(* only as the next insertion or erasure would: each keeps the entries and *)
(* the children in order, every link, and all the nodes it has no business *)
(* with.                                                                   *)
(***************************************************************************)
MethodsHold == Methods!Tree(tree) /\ Methods!Linked(tree) /\ Methods!MethodsKeep(tree)

\* internal_verify on the subtree of n, whose keys lie between lo and hi.
RECURSIVE InternalVerify(_, _, _, _)
InternalVerify(t, n, lo, hi) ==
  LET v == Values(t, n) c == Len(v)
  IN /\ c > 0 /\ c <= MaxCount(t, n)
     /\ \A i \in 1..c : lo <= v[i].key /\ v[i].key <= hi
     /\ \A i \in 2..c : v[i - 1].key <= v[i].key
     /\ ~Leaf(t, n) =>
          \A i \in 0..c :
            /\ Child(t, n, i) # NoNode
            /\ Parent(t, Child(t, n, i)) = n
            /\ Position(t, Child(t, n, i)) = i
            /\ InternalVerify(t, Child(t, n, i), IF i = 0 THEN lo ELSE v[i].key,
                                                 IF i = c THEN hi ELSE v[i + 1].key)

(***************************************************************************)
(* What btree::verify() asserts holds after every call: keys in order      *)
(* within and between nodes, no node empty or overfull, every child        *)
(* knowing its parent and position, the size counter of the root equal to  *)
(* the entries there are, and the leftmost and rightmost leaves where the  *)
(* root's fields say.                                                      *)
(***************************************************************************)
Verified ==
  IF tree.root = NoNode
  THEN SizeOf(tree) = 0 /\ Leftmost(tree) = NoNode /\ Rightmost(tree) = NoNode
  ELSE /\ InternalVerify(tree, tree.root, Min(Keys), Max(Keys))
       /\ SizeOf(tree) = Len(Iterators(tree))
       /\ Leftmost(tree) = FirstLeaf(tree, tree.root)
       /\ Rightmost(tree) = LastLeaf(tree, tree.root)

(***************************************************************************)
(* The nodes allocated are the nodes of the tree: a merge, a shrink or a   *)
(* root that grew leaves no node behind and frees none that is in use, and *)
(* no node has two parents.                                                *)
(***************************************************************************)
NoNodeLeaks ==
  LET nodes == IF tree.root = NoNode THEN {} ELSE Subtree(tree, tree.root)
      links == MapThenSumSet(LAMBDA n : Len(Children(tree, n)), nodes)
  IN /\ DOMAIN tree.node = nodes
     /\ tree.root # NoNode => links = Cardinality(nodes) - 1

(***************************************************************************)
(* An internal root is the one node allocated with root_fields, whichever  *)
(* way the tree gained and lost levels: rightmost and size, which every    *)
(* insertion writes, lie within the root's allocation, and each node is    *)
(* given back with the size it was allocated with.                         *)
(***************************************************************************)
RootHasRootFields ==
  \A n \in DOMAIN tree.node :
    tree.node[n].fields = "root" <=> n = tree.root /\ ~Leaf(tree, n)

\* internal_stats on the subtree of n.
RECURSIVE InternalStats(_, _)
InternalStats(t, n) ==
  LET below == [i \in 0..NodeCount(t, n) |-> InternalStats(t, Child(t, n, i))]
      Total(count(_)) == MapThenSumSet(LAMBDA i : count(below[i]), DOMAIN below)
  IN IF n = NoNode THEN [leaf_nodes |-> 0, internal_nodes |-> 0]
     ELSE IF Leaf(t, n) THEN [leaf_nodes |-> 1, internal_nodes |-> 0]
     ELSE [leaf_nodes |-> Total(LAMBDA x : x.leaf_nodes),
           internal_nodes |-> 1 + Total(LAMBDA x : x.internal_nodes)]

\* Mutant: a tree that is one leaf is not told apart.
BytesUsedByFullNodes(t) ==
  LET stats == InternalStats(t, t.root)
  IN SizeOfFields("root", kNodeValues) - SizeOfFields("internal", kNodeValues)
     + stats.leaf_nodes * SizeOfFields("leaf", kNodeValues)
     + stats.internal_nodes * SizeOfFields("internal", kNodeValues)

\* bytes_used() less sizeof(*this)
BytesUsed(t) ==
  LET stats == InternalStats(t, t.root)
  IN IF stats.leaf_nodes = 1 /\ stats.internal_nodes = 0
     THEN SizeOfFields("leaf", MaxCount(t, t.root))
     ELSE SizeOfFields("root", kNodeValues) - SizeOfFields("internal", kNodeValues)
          + stats.leaf_nodes * SizeOfFields("leaf", kNodeValues)
          + stats.internal_nodes * SizeOfFields("internal", kNodeValues)

Nodes(t) ==
  LET stats == InternalStats(t, t.root) IN stats.leaf_nodes + stats.internal_nodes

\* fullness() and overhead() (this less sizeof(*this)), as <<dividend, divisor>>.
Fullness(t) == <<SizeOf(t), Nodes(t) * kNodeValues>>
Overhead(t) == <<BytesUsed(t) - SizeOf(t) * kValueSize, SizeOf(t)>>

(***************************************************************************)
(* What the walks over the tree report is what the allocator handed out:   *)
(* nodes() as many nodes, bytes_used() as many bytes.  No node reports     *)
(* more values than there is room for, and the overhead is at least the    *)
(* fields every node has.  (Of an empty tree bytes_used() is 16 too many:  *)
(* the formula adds what root_fields has over internal_fields without a    *)
(* root; and fullness() divides 0 by 0.)                                   *)
(***************************************************************************)
StatsMatchAllocator ==
  tree.root # NoNode =>
    /\ Nodes(tree) = Cardinality(DOMAIN tree.node)
    /\ BytesUsed(tree) = MapThenSumSet(LAMBDA n : SizeOfFields(tree.node[n].fields, MaxCount(tree, n)),
                                       DOMAIN tree.node)
    /\ Fullness(tree)[1] \in 1..Fullness(tree)[2]
    /\ Overhead(tree)[1] >= SizeOfFields("leaf", 0) * Nodes(tree)

\* The depths at which the subtree of n has leaves.
RECURSIVE LeafDepths(_, _)
LeafDepths(t, n) ==
  IF Leaf(t, n) THEN {1}
  ELSE {d + 1 : d \in UNION {LeafDepths(t, Child(t, n, i)) : i \in 0..NodeCount(t, n)}}

\* btree::height: from the root, round through the leftmost leaf, back up.
RECURSIVE StepsTo(_, _, _)
StepsTo(t, n, root) == IF n = root THEN 1 ELSE 1 + StepsTo(t, Parent(t, n), root)
Height(t) == IF t.root = NoNode THEN 0 ELSE StepsTo(t, Parent(t, t.root), t.root)

(***************************************************************************)
(* All leaves are at one depth, and it is the height() the circular walk   *)
(* over the parent pointers computes.                                      *)
(***************************************************************************)
Balanced == tree.root # NoNode => LeafDepths(tree, tree.root) = {Height(tree)}

(***************************************************************************)
(* Only a root leaf is smaller than a full node: internal_insert takes any *)
(* leaf that is full below kNodeValues to be the root and grows it.        *)
(***************************************************************************)
OnlyRootLeafSmall ==
  \A n \in DOMAIN tree.node : MaxCount(tree, n) < kNodeValues => n = tree.root /\ Leaf(tree, n)

(***************************************************************************)
(* ++ from begin() visits every entry in order and ends at end(), and --   *)
(* from end() visits them backwards and ends at begin().  On the way no    *)
(* assert() of increment_slow and decrement_slow fails.                    *)
(***************************************************************************)
IterationWalksEntries ==
  LET all == Positions
  IN /\ all[1] = Begin(tree)
     /\ \A i \in 1..Len(all) - 1 :
          /\ IncrementHolds(tree, all[i]) /\ Increment(tree, all[i]) = all[i + 1]
          /\ DecrementHolds(tree, all[i + 1]) /\ Decrement(tree, all[i + 1]) = all[i]

(***************************************************************************)
(* The nodes are in order: those allocated are those of the tree, all      *)
(* leaves are on one level, only a root leaf is small, and the root fields *)
(* are the root's.  BTreeSteps states as much between the steps of a call. *)
(***************************************************************************)
TreeInOrder == NoNodeLeaks /\ Balanced /\ OnlyRootLeafSmall /\ RootHasRootFields

-------------------------------------------------------------------------------
\* What BTreeSeq says of the contents.
Contents == INSTANCE BTreeSeq
  WITH entries <- contents
===============================================================================
