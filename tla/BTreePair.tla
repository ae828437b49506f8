------------------------------- MODULE BTreePair -------------------------------
(***************************************************************************)
(* A container and another one of its type: what the members that take     *)
(* another container (swap and operator=) do to both, and the destructor   *)
(* of the other.  Calls on either alone are those of BTree; the other's    *)
(* turn comes by swapping.                                                 *)
(***************************************************************************)
EXTENDS MCBTree

VARIABLE other   \* the tree of the other container

pairVars == <<vars, other>>

Entries(t) == LET w == Iterators(t) IN [i \in DOMAIN w |-> At(t, w[i])]

\* What either container may be the argument of a member of the first.
Sides == {"itself", "other"}

-------------------------------------------------------------------------------
\* Mutant: x is not compared with the container itself.
AssignedUnguarded(x) ==
  Assignment(Clearing(tree).t,
             Entries(IF x = "itself" THEN Clearing(tree).t ELSE other))

\* operator=: assign(x), unless x is the container itself.
Assigned(x) ==
  IF x = "itself" THEN tree ELSE Assignment(Clearing(tree).t, Entries(other))

Assign(x) ==
  /\ Returns([t |-> Assigned(x), it |-> NoIterator, n |-> 0])
  /\ UNCHANGED other

\* swap: the roots change places, and with them all the nodes.
SwapWith(x) ==
  /\ Returns([t |-> IF x = "itself" THEN tree ELSE other, it |-> NoIterator, n |-> 0])
  /\ other' = IF x = "itself" THEN other ELSE tree

\* The destructor of the other, in whose place a new one is constructed.
Destroy == Returns([t |-> tree, it |-> NoIterator, n |-> 0]) /\ other' = Clearing(other).t

PairInit == Init /\ other = NoTree

PairNext ==
  \/ \E x \in Sides : \/ Calls("assign", <<x>>) /\ Assign(x)
                      \/ Calls("swap", <<x>>) /\ SwapWith(x)
  \/ Calls("destroy", <<>>) /\ Destroy
  \/ Next /\ UNCHANGED other

-------------------------------------------------------------------------------
\* What a member that takes x does to the contents of the two containers.
PairChanges ==
  LET mine == contents
      others == Entries(other)
      x == call'[2][1]
  IN CASE call'[1] = "assign" ->
            /\ contents' = IF x = "itself" THEN mine ELSE others
            /\ Entries(other)' = others
       [] call'[1] = "swap" ->
            /\ contents' = IF x = "itself" THEN mine ELSE others
            /\ Entries(other)' = IF x = "itself" THEN others ELSE mine
       [] call'[1] = "destroy" -> contents' = mine /\ Entries(other)' = <<>>
       [] OTHER -> ContentsChange /\ Entries(other)' = others
===============================================================================
