----------------------------- MODULE MCBTreeShapes -----------------------------
(***************************************************************************)
(* Every shape a tree of up to MaxSize entries can take.  One key and a    *)
(* multi container: a hinted insertion then inserts where the caller says, *)
(* so insertions and erasures reach every node from every side.  Entries   *)
(* differ in their data, which no operation looks at.                      *)
(***************************************************************************)
EXTENDS MCBTree

\* The inserted entry differs from all those in the tree.
New(k) ==
  [key |-> k,
   data |-> Min(Data \ {contents[i].data : i \in DOMAIN contents})]

ShapesNext ==
  LET here == Positions
  IN \/ \E k \in Keys :
          \/ Calls("insert", <<NoRank, New(k)>>) /\ InsertMulti(New(k))
          \/ \E h \in DOMAIN here :
               Calls("insert", <<h, New(k)>>) /\ InsertMultiHint(here[h], New(k))
     \/ \E i \in 1..Len(contents) : Calls("erase", <<i>>) /\ Erase(here[i])
     \/ Calls("clear", <<>>) /\ Clear
===============================================================================
