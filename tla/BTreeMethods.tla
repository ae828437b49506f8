------------------------------ MODULE BTreeMethods ------------------------------
(***************************************************************************)
(* What the methods of btree_node that move values and children promise of *)
(* the tree they are called on: a rebalancing, a merge, a split and a swap *)
(* keep the entries and the children of the nodes concerned in the order   *)
(* in which iteration meets them, keep the links between parents and       *)
(* children of the whole tree, touch no other node, and fail none of their *)
(* asserts.                                                                *)
(***************************************************************************)
EXTENDS BTreeNodes

Node == [fields : {"leaf", "internal", "root"}, position : Nat, max_count : Nat,
         parent : Nat, values : Seq(Entry), children : Seq(Nat)]

Tree(t) ==
  /\ t = [node |-> t.node, root |-> t.root, rightmost |-> t.rightmost, size |-> t.size,
          asserts |-> t.asserts]
  /\ DOMAIN t.node \subseteq Nat
  /\ t.node \in [DOMAIN t.node -> Node]
  /\ t.root \in DOMAIN t.node \cup {NoNode}
  /\ t.asserts \in BOOLEAN

\* The children of n say that they are, and where.  The root is nobody's child.
Links(t, n) == \A i \in 1..Len(Children(t, n)) :
  LET c == Children(t, n)[i]
  IN c \in DOMAIN t.node /\ c # t.root /\ Parent(t, c) = n /\ Position(t, c) = i - 1
Linked(t) == \A n \in DOMAIN t.node : Links(t, n)

\* An internal node has one child more than it has values.
ChildPerGap(t, n) == Len(Children(t, n)) = IF Leaf(t, n) THEN 0 ELSE NodeCount(t, n) + 1

\* n is the child of another node, at the position it has.
IsChild(t, n) ==
  /\ n \in DOMAIN t.node
  /\ Parent(t, n) \in DOMAIN t.node
  /\ Parent(t, n) # n
  /\ Position(t, n) < Len(Children(t, Parent(t, n)))
  /\ Child(t, Parent(t, n), Position(t, n)) = n
  /\ ChildPerGap(t, n)
  /\ ChildPerGap(t, Parent(t, n))

\* l and r are children of one parent, next to each other, on one level.
Neighbours(t, l, r) ==
  IsChild(t, l) /\ IsChild(t, r) /\ Siblings(t, l, r) /\ Leaf(t, l) = Leaf(t, r)

\* The entries of l, the one between l and r, those of r.
Around(t, l, r) == Values(t, l) \o <<Delimiter(t, l)>> \o Values(t, r)

\* What none of the methods changes.
SameFrame(t, u) ==
  /\ DOMAIN u.node = DOMAIN t.node
  /\ u.root = t.root /\ u.rightmost = t.rightmost /\ u.size = t.size
  /\ \A m \in DOMAIN t.node :
       u.node[m].fields = t.node[m].fields /\ MaxCount(u, m) = MaxCount(t, m)

\* Outside S nodes keep their values and their children.
SameElsewhere(t, u, S) ==
  \A m \in DOMAIN t.node \ S : Values(u, m) = Values(t, m) /\ Children(u, m) = Children(t, m)

-------------------------------------------------------------------------------
\* u is t after k values went from r to l (-k from l to r), by way of the
\* delimiter: iteration meets the same entries and the same children as before.
Rebalanced(t, u, l, r, k) ==
  LET above == Parent(t, l)
  IN /\ Tree(u) /\ Linked(u) /\ SameFrame(t, u) /\ u.asserts = t.asserts
     /\ Leftmost(u) = Leftmost(t)
     /\ Neighbours(u, l, r) /\ Parent(u, l) = above /\ Position(u, l) = Position(t, l)
     /\ NodeCount(u, l) = NodeCount(t, l) + k
     /\ Around(u, l, r) = Around(t, l, r)
     /\ Children(u, l) \o Children(u, r) = Children(t, l) \o Children(t, r)
     /\ Values(u, above) = [Values(t, above) EXCEPT ![Position(t, l) + 1] = Delimiter(u, l)]
     /\ Children(u, above) = Children(t, above)
     /\ SameElsewhere(t, u, {l, r, above})

\* u is t after r emptied into l: l has the entries and the children of both
\* and the entry that was between them, which its parent no longer has.
Merged(t, u, l, r) ==
  LET above == Parent(t, l)
      at == Position(t, l)
  IN /\ Tree(u) /\ Linked(u) /\ SameFrame(t, u) /\ u.asserts = t.asserts
     /\ Leftmost(u) = Leftmost(t)
     /\ IsChild(u, l) /\ Parent(u, l) = above /\ Position(u, l) = at
     /\ Values(u, l) = Around(t, l, r)
     /\ Children(u, l) = Children(t, l) \o Children(t, r)
     /\ Values(u, r) = <<>> /\ Children(u, r) = <<>>
     /\ \A m \in DOMAIN t.node : ~Contains(Children(u, m), r)
     /\ Values(u, above) = RemoveAt(Values(t, above), at + 1)
     /\ Children(u, above) = RemoveAt(Children(t, above), at + 2)
     /\ SameElsewhere(t, u, {l, r, above})

\* n, a child with something in it, can be split into dest: an empty node of
\* the same level, fresh from the allocator and so far the child of none.
CanSplit(t, n, dest) ==
  /\ NoNode \notin DOMAIN t.node
  /\ IsChild(t, n) /\ NodeCount(t, n) >= 1
  /\ dest \in DOMAIN t.node /\ dest # n /\ dest # Parent(t, n) /\ dest # t.root
  /\ \A m \in DOMAIN t.node : ~Contains(Children(t, m), dest)
  /\ Leaf(t, dest) = Leaf(t, n) /\ Values(t, dest) = <<>> /\ Children(t, dest) = <<>>

\* u is t after the split: what n held is in n, between n and dest, and in dest,
\* and both of them have room for another value.
HasSplit(t, u, n, dest) ==
  LET above == Parent(t, n)
      at == Position(t, n)
  IN /\ Tree(u) /\ Linked(u) /\ SameFrame(t, u) /\ u.asserts = t.asserts
     /\ Leftmost(u) = Leftmost(t)
     /\ Neighbours(u, n, dest) /\ Parent(u, n) = above /\ Position(u, n) = at
     /\ Around(u, n, dest) = Values(t, n)
     /\ Children(u, n) \o Children(u, dest) = Children(t, n)
     /\ NodeCount(u, n) < NodeCount(t, n) /\ NodeCount(u, dest) < NodeCount(t, n)
     /\ Values(u, above) = InsertAt(Values(t, above), at + 1, Delimiter(u, n))
     /\ Children(u, above) = InsertAt(Children(t, above), at + 2, dest)
     /\ SameElsewhere(t, u, {n, dest, above})

\* u is t with the contents of x and y exchanged.
Swapped(t, u, x, y) ==
  /\ Tree(u) /\ Linked(u) /\ SameFrame(t, u) /\ u.asserts = t.asserts
  /\ Leftmost(u) = Leftmost(t)
  /\ Values(u, x) = Values(t, y) /\ Children(u, x) = Children(t, y)
  /\ Values(u, y) = Values(t, x) /\ Children(u, y) = Children(t, x)
  /\ SameElsewhere(t, u, {x, y})
  /\ \A m \in DOMAIN t.node : Position(u, m) = Position(t, m)
  /\ \A m \in DOMAIN t.node : ~Contains(Children(t, x), m) /\ ~Contains(Children(t, y), m) =>
       Parent(u, m) = Parent(t, m)

-------------------------------------------------------------------------------
\* An empty node like n, for n to be split into.
EmptyLike(t, n) == [t.node[n] EXCEPT !.values = <<>>, !.children = <<>>]

\* Every call of these methods that the nodes of t allow.
MethodsKeep(t) ==
  /\ \A l, r \in DOMAIN t.node : Neighbours(t, l, r) =>
       /\ Merged(t, Merge(t, l, r), l, r)
       /\ NodeCount(t, r) >= NodeCount(t, l) /\ NodeCount(t, r) <= MaxCount(t, r) =>
            \A to_move \in 1..NodeCount(t, r) :
              Rebalanced(t, RebalanceRightToLeft(t, l, r, to_move), l, r, to_move)
       /\ NodeCount(t, l) >= NodeCount(t, r) =>
            \A to_move \in 1..NodeCount(t, l) :
              Rebalanced(t, RebalanceLeftToRight(t, l, r, to_move), l, r, 0 - to_move)
  /\ \A n \in DOMAIN t.node : IsChild(t, n) /\ NodeCount(t, n) >= 1 =>
       LET dest == FreshAddress(t)
           u == Allocate(t, EmptyLike(t, n))
       IN \A insert_position \in 0..NodeCount(t, n) :
            HasSplit(u, Split(u, n, dest, insert_position), n, dest)
  /\ \A x, y \in DOMAIN t.node : x # y /\ Leaf(t, x) = Leaf(t, y) =>
       Swapped(t, Swap(t, x, y), x, y)
===============================================================================
