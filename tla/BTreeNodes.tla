------------------------------ MODULE BTreeNodes ------------------------------
(***************************************************************************)
(* The nodes of a btree in memory and the methods of btree_node that move  *)
(* values and children between them (storage/btree/btree.h and btree.tcc). *)
(*                                                                         *)
(* A tree is a record: node maps each allocated address to a node, root is *)
(* the address in root_, rightmost and size are the fields of the internal *)
(* root node (NoNode and 0 while there is none), and asserts says whether  *)
(* every assert() executed so far held.  Positions count from 0, as in the *)
(* code; the sequences that hold values and children count from 1.         *)
(***************************************************************************)
EXTENDS EntrySeq

CONSTANT kNodeValues   \* how many values fit in a node
ASSUME kNodeValuesAssumption == kNodeValues \in Nat /\ kNodeValues >= 3

NoNode == 0

NoTree == [node |-> <<>>, root |-> NoNode, rightmost |-> NoNode, size |-> 0,
           asserts |-> TRUE]

Check(t, condition) == [t EXCEPT !.asserts = @ /\ condition]

-------------------------------------------------------------------------------
\* Fields of the node at address n.
Leaf(t, n)     == t.node[n].fields = "leaf"
Position(t, n) == t.node[n].position
Parent(t, n)   == t.node[n].parent
Values(t, n)   == t.node[n].values
MaxCount(t, n) == t.node[n].max_count
Children(t, n) == t.node[n].children
NodeCount(t, n) == Len(Values(t, n))
Child(t, n, i)  == Children(t, n)[i + 1]
Full(t, n)      == NodeCount(t, n) = MaxCount(t, n)

\* The parent of the root is the leftmost leaf.
IsRoot(t, n) == Leaf(t, Parent(t, n))

Rightmost(t) ==
  IF t.root = NoNode \/ Leaf(t, t.root) THEN t.root ELSE t.rightmost
Leftmost(t) == IF t.root = NoNode THEN NoNode ELSE Parent(t, t.root)
SizeOf(t) ==
  IF t.root = NoNode THEN 0
  ELSE IF Leaf(t, t.root) THEN NodeCount(t, t.root) ELSE t.size

-------------------------------------------------------------------------------
\* init_leaf, init_internal and init_root.  Only a root node is allocated with
\* room for rightmost and size.
LeafNode(parent, max_count) ==
  [fields |-> "leaf", position |-> 0, max_count |-> max_count, parent |-> parent,
   values |-> <<>>, children |-> <<>>]
InternalNode(parent) == [LeafNode(parent, kNodeValues) EXCEPT !.fields = "internal"]
RootNode(parent) == [InternalNode(parent) EXCEPT !.fields = "root"]

\* The address the allocator hands out next: the least one not in use.
FreshAddress(t) ==
  CHOOSE n \in 1..(Cardinality(DOMAIN t.node) + 1) :
    /\ n \notin DOMAIN t.node
    /\ \A m \in 1..(n - 1) : m \in DOMAIN t.node

Allocate(t, node) ==
  LET a == FreshAddress(t)
  IN [t EXCEPT !.node = [m \in DOMAIN t.node \cup {a} |-> IF m = a THEN node ELSE t.node[m]]]

Free(t, n) == [t EXCEPT !.node = Restrict(@, DOMAIN @ \ {n})]

\* delete_internal_node: never the root.
DeleteInternalNode(t, n) == Free(Check(t, n # t.root), n)

\* sizeof the fields a node is allocated with: base_fields, then values, children,
\* and rightmost and size, of 8 bytes each.
kValueSize == 8
SizeOfFields(fields, max_count) ==
  16 + kValueSize * max_count
     + 8 * CASE fields = "leaf" -> 0
             [] fields = "internal" -> max_count + 1
             [] fields = "root" -> max_count + 3

-------------------------------------------------------------------------------
SetValues(t, n, values) == [t EXCEPT !.node[n].values = values]

\* The index of c in s.
IndexIn(s, c) == SelectInSeq(s, LAMBDA x : x = c)

\* set_child(first + i, kids[i + 1]) for each of kids; the indices after them
\* are no longer in use.
SetChildren(t, n, first, kids) ==
  [t EXCEPT !.node = [m \in DOMAIN t.node |->
    LET old == IF m = n
               THEN [t.node[m] EXCEPT !.children = SubSeq(@, 1, first) \o kids]
               ELSE t.node[m]
    IN IF ~Contains(kids, m) THEN old
       ELSE [old EXCEPT !.parent = n,
                        !.position = first + IndexIn(kids, m) - 1]]]

DropChildren(t, n, first) == SetChildren(t, n, first, <<>>)

\* set_child(i, c)
SetChild(t, n, i, c) ==
  [t EXCEPT !.node[n].children = IF i < Len(@) THEN ReplaceAt(@, i + 1, c) ELSE Append(@, c),
            !.node[c].parent = n,
            !.node[c].position = i]

\* Children from index first on have moved by one: set_position each.
Renumber(t, n, first) ==
  LET moved == SubSeq(Children(t, n), first + 1, Len(Children(t, n)))
  IN [t EXCEPT !.node = [m \in DOMAIN t.node |->
       IF Contains(moved, m)
       THEN [t.node[m] EXCEPT !.position = first + IndexIn(moved, m) - 1]
       ELSE t.node[m]]]

\* Mutant: the children that moved keep the positions they had.
InsertValueNoRenumber(t, n, i, v) ==
  LET t1 == SetValues(Check(t, i <= NodeCount(t, n)), n, InsertAt(Values(t, n), i + 1, v))
  IN IF Leaf(t, n) THEN t1
     ELSE [t1 EXCEPT !.node[n].children = InsertAt(@, i + 2, NoNode)]

\* btree_node::insert_value: on an internal node, child i+1 is left null.
InsertValue(t, n, i, v) ==
  LET t1 == SetValues(Check(t, i <= NodeCount(t, n)), n, InsertAt(Values(t, n), i + 1, v))
  IN IF Leaf(t, n) THEN t1
     ELSE Renumber([t1 EXCEPT !.node[n].children = InsertAt(@, i + 2, NoNode)], n, i + 2)

\* Mutant: likewise.
RemoveValueNoRenumber(t, n, i) ==
  LET t1 == SetValues(t, n, RemoveAt(Values(t, n), i + 1))
  IN IF Leaf(t, n) THEN t1 ELSE [t1 EXCEPT !.node[n].children = RemoveAt(@, i + 2)]

\* btree_node::remove_value: on an internal node, child i+1 goes with value i.
RemoveValue(t, n, i) ==
  LET t1 == SetValues(t, n, RemoveAt(Values(t, n), i + 1))
  IN IF Leaf(t, n) THEN t1
     ELSE Renumber([Check(t1, NodeCount(t, Child(t, n, i + 1)) = 0)
                      EXCEPT !.node[n].children = RemoveAt(@, i + 2)], n, i + 1)

\* btree_node::value_swap
ValueSwap(t, n, i, m, j) ==
  [t EXCEPT !.node[n].values[i + 1] = Values(t, m)[j + 1],
            !.node[m].values[j + 1] = Values(t, n)[i + 1]]

\* The three values lists of rebalancing: left, delimiter, right.
SetAround(t, l, r, lvalues, delimiter, rvalues) ==
  [t EXCEPT !.node[l].values = lvalues,
            !.node[r].values = rvalues,
            !.node[Parent(t, l)].values[Position(t, l) + 1] = delimiter]

Delimiter(t, l) == Values(t, Parent(t, l))[Position(t, l) + 1]

Siblings(t, l, r) ==
  Parent(t, l) = Parent(t, r) /\ Position(t, l) + 1 = Position(t, r)

\* btree_node::rebalance_right_to_left: l takes the delimiter and the first
\* to_move - 1 values of r, whose to_move-th becomes the delimiter.
RebalanceRightToLeft(t, l, r, to_move) ==
  LET lv == Values(t, l)
      rv == Values(t, r)
      t1 == Check(t, /\ Siblings(t, l, r)
                     /\ Len(rv) >= Len(lv)
                     /\ to_move \in 1..Len(rv)
                     /\ Leaf(t, l) \/ Len(rv) <= MaxCount(t, r))
      t2 == SetAround(t1, l, r,
                      lv \o <<Delimiter(t, l)>> \o SubSeq(rv, 1, to_move - 1),
                      rv[to_move],
                      SubSeq(rv, to_move + 1, Len(rv)))
      kids == Children(t, r)
  IN IF Leaf(t, l) THEN t2
     ELSE SetChildren(SetChildren(t2, l, Len(lv) + 1, SubSeq(kids, 1, to_move)),
                      r, 0, SubSeq(kids, to_move + 1, Len(kids)))

\* btree_node::rebalance_left_to_right, the mirror image.
RebalanceLeftToRight(t, l, r, to_move) ==
  LET lv == Values(t, l)
      rv == Values(t, r)
      keep == Len(lv) - to_move
      t1 == Check(t, /\ Siblings(t, l, r)
                     /\ Len(lv) >= Len(rv)
                     /\ to_move \in 1..Len(lv))
      t2 == SetAround(t1, l, r,
                      SubSeq(lv, 1, keep),
                      lv[keep + 1],
                      SubSeq(lv, keep + 2, Len(lv)) \o <<Delimiter(t, l)>> \o rv)
      kids == Children(t, l)
  IN IF Leaf(t, l) THEN t2
     ELSE DropChildren(SetChildren(t2, r, 0, SubSeq(kids, keep + 2, Len(kids)) \o Children(t, r)),
                       l, keep + 1)

\* How many values btree_node::split moves, biased by where the insertion is.
SplitCount(t, n, insert_position) ==
  IF insert_position = 0 THEN NodeCount(t, n) - 1
  ELSE IF insert_position = MaxCount(t, n) THEN 0
  ELSE NodeCount(t, n) \div 2

\* btree_node::split: the largest value left of dest's goes up to the parent.
Split(t, n, dest, insert_position) ==
  LET v == Values(t, n)
      keep == Len(v) - SplitCount(t, n, insert_position) - 1
      kids == Children(t, n)
      right == SubSeq(kids, keep + 2, Len(kids))
      t1 == Check(t, /\ NodeCount(t, dest) = 0
                     /\ keep >= 0
                     /\ Leaf(t, n) \/ ~Contains(right, NoNode))
      t2 == SetValues(SetValues(t1, dest, SubSeq(v, keep + 2, Len(v))), n, SubSeq(v, 1, keep))
      t3 == InsertValue(t2, Parent(t, n), Position(t, n), v[keep + 1])
      t4 == SetChild(t3, Parent(t, n), Position(t, n) + 1, dest)
  IN IF Leaf(t, n) THEN t4
     ELSE DropChildren(SetChildren(t4, dest, 0, right), n, keep + 1)

\* btree_node::merge: r empties into l and the delimiter leaves the parent.
Merge(t, l, r) ==
  LET lv == Values(t, l)
      t1 == SetValues(SetValues(Check(t, Siblings(t, l, r)), r, <<>>),
                      l, lv \o <<Delimiter(t, l)>> \o Values(t, r))
      t2 == IF Leaf(t, l) THEN t1
            ELSE DropChildren(SetChildren(t1, l, Len(lv) + 1, Children(t, r)), r, 0)
  IN RemoveValue(t2, Parent(t, l), Position(t, l))

\* btree_node::swap: contents only; position, parent and max_count stay.
Swap(t, x, y) ==
  LET Owned(n) == {Children(t, n)[i] : i \in DOMAIN Children(t, n)}
      t1 == [Check(t, Leaf(t, x) = Leaf(t, y))
              EXCEPT !.node[x].values = Values(t, y), !.node[x].children = Children(t, y),
                     !.node[y].values = Values(t, x), !.node[y].children = Children(t, x)]
  IN [t1 EXCEPT !.node = [m \in DOMAIN t.node |->
        IF m \in Owned(x) THEN [t1.node[m] EXCEPT !.parent = y]
        ELSE IF m \in Owned(y) THEN [t1.node[m] EXCEPT !.parent = x] ELSE t1.node[m]]]
===============================================================================
