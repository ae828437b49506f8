-------------------------------- MODULE MCTrees --------------------------------
(***************************************************************************)
(* A tree without the addresses of its nodes, for the views of TLC: each   *)
(* node is named by its place in a preorder walk of the tree, and          *)
(* everything else the nodes hold is kept.                                 *)
(***************************************************************************)
EXTENDS BTreeNodes

RECURSIVE Preorder(_, _)
Preorder(t, n) ==
  <<n>> \o FlattenSeq([i \in DOMAIN Children(t, n) |-> Preorder(t, Children(t, n)[i])])

Order(t) == IF t.root = NoNode THEN <<>> ELSE Preorder(t, t.root)

\* The nodes with places for addresses (0 for an address outside the tree),
\* and Shown(v) for the values v of each.
Renamed(t, Shown(_)) ==
  LET order == Order(t)
      places == [a \in ToSet(order) |-> IndexIn(order, a)]
      Place(a) == IF a \in DOMAIN places THEN places[a] ELSE 0
  IN [nodes |-> [i \in DOMAIN order |->
                   LET node == t.node[order[i]]
                   IN [node EXCEPT !.parent = Place(@),
                                   !.values = Shown(@),
                                   !.children = [j \in DOMAIN @ |-> Place(@[j])]]],
      allocated |-> Cardinality(DOMAIN t.node),
      rightmost |-> Place(t.rightmost), size |-> t.size, asserts |-> t.asserts]
===============================================================================
