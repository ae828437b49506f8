------------------------------ MODULE MCBTreeCalls ------------------------------
(***************************************************************************)
(* Every shape of tree for nodes of 3 values and for nodes of 4            *)
(* (MCBTreeShapes): an even width has a minimum of 2 values, with merging  *)
(* and moving choices that nodes of 3 do not have.  And every call on four *)
(* kinds of container: a unique and a multi container built up from        *)
(* nothing; two unique containers, one assigned to and swapped with the    *)
(* other; and a unique container with a compare-to function (string keys)  *)
(* that the range constructor built, of three levels, from keys in         *)
(* ascending, descending and mixed order.                                  *)
(***************************************************************************)
EXTENDS BTreePair

CONSTANTS
  MaxThrees, MaxFours,     \* bounds on the entries in nodes of 3 and of 4, which
                           \* their Data tell apart
  UniqueKeys, MultiKeys,   \* the keys of the containers built up from nothing
  SmallData,               \* the data of their entries
  MaxSmall,                \* bound on their entries
  PairKeys, MaxPair,       \* the keys of two containers, and bound for each
  Length,                  \* how many keys the range constructor is given
  MaxCalls                 \* how many calls are made on what it built

VARIABLES
  kind,   \* one of Shapes, "unique", "multi", "pair" or "strings"
  calls   \* how many calls were made on a container of strings

callsVars == <<pairVars, kind, calls>>

Shapes == {"threes", "fours"}

Threes == INSTANCE MCBTreeShapes
  WITH Keys <- {1}, MaxSize <- MaxThrees, kNodeValues <- 3,
       Multi <- TRUE, CompareTo <- FALSE
Fours == INSTANCE MCBTreeShapes
  WITH Keys <- {1}, MaxSize <- MaxFours, kNodeValues <- 4,
       Multi <- TRUE, CompareTo <- FALSE
Uniques == INSTANCE MCBTree
  WITH Keys <- UniqueKeys, Data <- SmallData, MaxSize <- MaxSmall, Multi <- FALSE,
       CompareTo <- FALSE
Multis == INSTANCE MCBTree
  WITH Keys <- MultiKeys, Data <- SmallData, MaxSize <- MaxSmall, Multi <- TRUE,
       CompareTo <- FALSE
Pairs == INSTANCE BTreePair
  WITH Keys <- PairKeys, Data <- {DefaultData}, MaxSize <- MaxPair, Multi <- FALSE,
       CompareTo <- FALSE
Strings == INSTANCE MCBTree
  WITH Data <- {DefaultData}, Multi <- FALSE, CompareTo <- TRUE

Ascending == [i \in 1..Length |-> 2 * i]
\* The odd places of the ascending sequence, then the even ones backwards.
Mixed ==
  [i \in 1..Length |-> Ascending[IF 2 * i - 1 <= Length THEN 2 * i - 1 ELSE 2 * (Length - i + 1)]]

Built(order) ==
  Strings!UniqueRangeInsertion(NoTree, [i \in DOMAIN order |-> DefaultEntry(order[i])])

CallsInit ==
  /\ calls = 0 /\ other = NoTree
  /\ \/ kind \in Shapes \cup {"unique", "multi", "pair"} /\ Init
     \/ /\ kind = "strings"
        /\ \E order \in {Ascending, Reverse(Ascending), Mixed} : tree = Built(order)
        /\ contents = [i \in DOMAIN Ascending |-> DefaultEntry(Ascending[i])]
        /\ ret = Return(NoRank, 0) /\ call = <<"construct", <<>> >>

CallsNext ==
  /\ UNCHANGED kind
  /\ \/ kind = "threes" /\ Threes!ShapesNext /\ UNCHANGED <<other, calls>>
     \/ kind = "fours" /\ Fours!ShapesNext /\ UNCHANGED <<other, calls>>
     \/ kind = "unique" /\ (Uniques!UniqueNext \/ Uniques!CommonNext) /\ UNCHANGED <<other, calls>>
     \/ kind = "multi" /\ (Multis!MultiNext \/ Multis!CommonNext) /\ UNCHANGED <<other, calls>>
     \/ kind = "pair" /\ Pairs!PairNext /\ UNCHANGED calls
     \/ /\ kind = "strings" /\ calls < MaxCalls /\ (Strings!UniqueNext \/ Strings!CommonNext)
        /\ calls' = calls + 1 /\ UNCHANGED other

CallsSpec == CallsInit /\ [][CallsNext]_callsVars

(***************************************************************************)
(* MethodsHold, of the trees of every shape: their nodes can be            *)
(* rebalanced, merged, split and swapped in every way the methods of       *)
(* btree_node allow, and keep the entries, the children and every link.    *)
(***************************************************************************)
MethodsHoldInShapes ==
  /\ kind = "threes" => Threes!MethodsHold
  /\ kind = "fours" => Fours!MethodsHold

(***************************************************************************)
(* TreeInOrder, of the trees of every shape: no node leaked or freed while *)
(* in use, all leaves on one level, only a root leaf small, the root       *)
(* fields where the root is.  And the types of the other kinds, whose root *)
(* leaves grow and whose counters are bounded.                             *)
(***************************************************************************)
TreesInOrder ==
  /\ kind = "threes" => Threes!TreeInOrder
  /\ kind = "fours" => Fours!TreeInOrder
  /\ kind \notin Shapes => TypeOK

(***************************************************************************)
(* StatsMatchAllocator, of the trees of every shape: nodes() and           *)
(* bytes_used() report what the allocator handed out.                      *)
(***************************************************************************)
StatsMatchInShapes ==
  /\ kind = "threes" => Threes!StatsMatchAllocator
  /\ kind = "fours" => Fours!StatsMatchAllocator

(***************************************************************************)
(* Whatever is moved, split, merged or freed on the way, each call on a    *)
(* container of each kind changes the contents exactly as BTreeSeq says    *)
(* and returns an iterator to the entry BTreeSeq says: the one inserted,   *)
(* the one found, the one after the one erased.  Two containers change as  *)
(* PairChanges says: assigning copies, swapping exchanges, and nothing     *)
(* else reaches the other.  The contents of one the range constructor      *)
(* built are the keys of the range in order, whatever order they were      *)
(* given in.                                                               *)
(***************************************************************************)
ImplementsSeq ==
  /\ contents = [i \in DOMAIN Iterators(tree) |-> At(tree, Iterators(tree)[i])]
  /\ [][CASE kind = "threes" -> Threes!ContentsChange
          [] kind = "fours" -> Fours!ContentsChange
          [] kind = "unique" -> Uniques!ContentsChange
          [] kind = "multi" -> Multis!ContentsChange
          [] kind = "pair" -> Pairs!PairChanges
          [] kind = "strings" -> Strings!ContentsChange]_pairVars

CallsView ==
  <<kind, calls, IF kind \in Shapes THEN Renamed(tree, Len) ELSE View, Evaluated,
    other \in {other}, Renamed(other, LAMBDA v : v)>>
===============================================================================
