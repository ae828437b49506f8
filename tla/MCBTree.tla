-------------------------------- MODULE MCBTree --------------------------------
(***************************************************************************)
(* BTree for TLC.  States that differ in nothing but the addresses of the  *)
(* nodes are one state (MCTrees).                                          *)
(***************************************************************************)
EXTENDS BTree, MCTrees

\* TLC keeps a function value unevaluated until something compares it, and
\* a view leaves some of the state out; the comparison has it evaluated.
Evaluated == tree \in {tree} /\ contents \in {contents} /\ ret \in {ret} /\ call \in {call}

\* The last call and what it returned are left out: no action reads them, and
\* each step is compared with BTreeSeq, call and return included, whether its
\* successor is new or not.
View == <<Evaluated, Renamed(tree, LAMBDA v : v)>>

\* What BTreeSeq says of the call that a step is: Contents!Next, but the call is
\* looked at, not searched for.
ContentsChange ==
  LET name == call'[1]
      arguments == call'[2]
      here == arguments[1]
      hinted == here # NoRank
  IN CASE name = "insert" /\ Multi ->
            IF hinted THEN Contents!InsertMultiHint(here, arguments[2])
            ELSE Contents!InsertMulti(arguments[2])
       [] name = "insert" /\ ~Multi ->
            IF hinted THEN Contents!InsertUniqueHint(here, arguments[2])
            ELSE Contents!InsertUnique(arguments[2])
       [] name = "subscript" -> Contents!Subscript(here)
       [] name = "erase key" /\ Multi -> Contents!EraseMulti(here)
       [] name = "erase key" /\ ~Multi -> Contents!EraseUnique(here)
       [] name = "count" /\ Multi -> Contents!CountMulti(here)
       [] name = "count" /\ ~Multi -> Contents!CountUnique(here)
       [] name = "erase" -> Contents!Erase(here)
       [] name = "erase range" -> Contents!EraseRange(here, arguments[2])
       [] name = "lower bound" -> Contents!LowerBound(here)
       [] name = "upper bound" -> Contents!UpperBound(here)
       [] name = "find" -> Contents!Find(here)
       [] name = "clear" -> Contents!Clear
       [] name = "copy" -> Contents!Copy
===============================================================================
