--------------------------- MODULE BTreeStepsProofs ---------------------------
(***************************************************************************)
(* The steps of an insertion and of an erasure, in any number and order,   *)
(* keep a tree balanced and linked, and the recursion of                   *)
(* rebalance_or_split makes room where it is called for: BTreeSteps'       *)
(* invariants, for every width of node, every height of tree and every set *)
(* of keys.                                                                *)
(***************************************************************************)
EXTENDS BTreeBalanceProofs

-------------------------------------------------------------------------------
\* The calls of rebalance_or_split under way.

Path(t, lev, w) ==
  /\ w \in Seq([node : DOMAIN t.node, position : Nat])
  /\ \A i \in DOMAIN w :
       LET n == w[i].node
       IN /\ Full(t, n) /\ MaxCount(t, n) = kNodeValues
          /\ w[i].position <= NodeCount(t, n)
          /\ lev[n] = i - 1
          /\ i < Len(w) => n # t.root /\ w[i + 1] = It(Parent(t, n), Position(t, n))

LEMMA SeqOver ==
  ASSUME NEW T, NEW w \in Seq(T), NEW S, \A i \in 1..Len(w) : w[i] \in S
  PROVE  w \in Seq(S)
<1>1. w \in [1..Len(w) -> S] /\ Len(w) \in Nat
  BY LenProperties
<1> QED
  BY <1>1, SeqDef

LEMMA FrontLast ==
  ASSUME NEW S, NEW w \in Seq(S), w # <<>>
  PROVE  /\ Front(w) \in Seq(S) /\ Len(Front(w)) = Len(w) - 1 /\ Len(w) \in Nat /\ Len(w) >= 1
         /\ \A i \in 1..Len(w) - 1 : Front(w)[i] = w[i]
         /\ Last(w) = w[Len(w)] /\ Last(w) \in S
<1>1. Len(w) \in Nat /\ Len(w) # 0
  BY EmptySeq, LenProperties
<1>2. Len(w) - 1 \in 0..Len(w) /\ Len(w) \in 1..Len(w)
  BY <1>1
<1>3. /\ Front(w) \in Seq(S) /\ Len(Front(w)) = Len(w) - 1
      /\ \A i \in 1..Len(w) - 1 : Front(w)[i] = w[i]
  BY <1>2, Prefix DEF Front
<1>4. w[Len(w)] \in S
  BY <1>2, ElementOfSeq
<1> QED
  BY <1>1, <1>3, <1>4 DEF Last

\* What the call that was made last is for.
CallOf(t, lev, w, n, p) ==
  /\ Path(t, lev, w) /\ w # <<>> /\ n = Last(w).node /\ p = Last(w).position

LEMMA CallFacts ==
  ASSUME NEW t, NEW lev, NEW w, NEW n, NEW p, CallOf(t, lev, w, n, p)
  PROVE  /\ n \in DOMAIN t.node /\ p \in Nat /\ p <= NodeCount(t, n)
         /\ Full(t, n) /\ MaxCount(t, n) = kNodeValues
         /\ Len(w) \in Nat /\ Len(w) >= 1 /\ lev[n] = Len(w) - 1 /\ Last(w) = It(n, p)
<1> DEFINE S == [node : DOMAIN t.node, position : Nat]
<1>1. w \in Seq(S) /\ w # <<>> /\ n = Last(w).node /\ p = Last(w).position
  BY DEF CallOf, Path
<1>2. Len(w) \in Nat /\ Len(w) >= 1 /\ Last(w) = w[Len(w)] /\ Last(w) \in S
  BY <1>1, FrontLast
<1>3. Len(w) \in DOMAIN w
  <2>1. DOMAIN w = 1..Len(w)
    BY <1>1, LenProperties
  <2> QED
    BY <1>2, <2>1
<1>4. /\ Full(t, n) /\ MaxCount(t, n) = kNodeValues /\ p <= NodeCount(t, n) /\ lev[n] = Len(w) - 1
  BY <1>1, <1>2, <1>3 DEF CallOf, Path
<1>5. Last(w) = It(n, p)
  BY <1>1, <1>2 DEF It
<1> QED
  BY <1>1, <1>2, <1>4, <1>5

OneCall(w) == Len(w) = 1

LEMMA LastCall ==
  ASSUME NEW t, NEW lev, NEW w, NEW n, NEW p, CallOf(t, lev, w, n, p)
  PROVE  OneCall(w) => Front(w) = <<>> /\ lev[n] = 0
<1> DEFINE S == [node : DOMAIN t.node, position : Nat]
           len == Len(w)
<1>1. len \in Nat /\ len >= 1 /\ lev[n] = len - 1
  BY CallFacts
<1>2. w \in Seq(S) /\ w # <<>>
  BY DEF CallOf, Path
<1>3. Front(w) \in Seq(S) /\ Len(Front(w)) = len - 1
  BY <1>2, FrontLast
<1>4. Len(Front(w)) = 0 => Front(w) = <<>>
  BY <1>3, EmptySeq
<1> HIDE DEF len, S
<1>5. len = 1 => Front(w) = <<>> /\ lev[n] = 0
  BY <1>1, <1>3, <1>4
<1> QED
  BY <1>5, Zenon DEF len, OneCall

\* The calls that are left once the last has returned to one below it.
Shortened(u, new, w, at) ==
  /\ Path(u, new, Front(w)) /\ Front(w) # <<>>
  /\ Last(Front(w)).node # u.root /\ Parent(u, Last(Front(w)).node) = at.node

LEMMA PathShortens ==
  ASSUME NEW t, NEW u, NEW lev, NEW new, NEW w, NEW n, NEW p, NEW at,
         CallOf(t, lev, w, n, p), ~OneCall(w), Shape(t, lev),
         RoomMade(t, u, lev, new, n, p, at)
  PROVE  Shortened(u, new, w, at)
<1> DEFINE S == [node : DOMAIN t.node, position : Nat]
           f == Front(w)
           len == Len(w)
<1>1. /\ n \in DOMAIN t.node /\ lev[n] = len - 1 /\ Last(w) = It(n, p) /\ Path(t, lev, w)
      /\ w \in Seq(S) /\ w # <<>>
  <2>1. n \in DOMAIN t.node /\ lev[n] = len - 1 /\ Last(w) = It(n, p)
    BY CallFacts
  <2>2. Path(t, lev, w) /\ w \in Seq(S) /\ w # <<>>
    BY DEF CallOf, Path
  <2> QED
    BY <2>1, <2>2
<1>2. /\ f \in Seq(S) /\ Len(f) = len - 1 /\ len \in Nat /\ len > 1
      /\ \A i \in 1..len - 1 : f[i] = w[i]
      /\ Last(w) = w[len] /\ DOMAIN w = 1..len
  <2>1. len # 1
    BY Zenon DEF OneCall
  <2> HIDE DEF len
  <2>2. /\ f \in Seq(S) /\ Len(f) = len - 1 /\ len \in Nat /\ len >= 1
        /\ \A i \in 1..len - 1 : f[i] = w[i]
        /\ Last(w) = w[len] /\ DOMAIN w = 1..len
    BY <1>1, FrontLast, LenProperties DEF len
  <2> QED
    BY <2>1, <2>2
<1> HIDE DEF S, f, len
<1>3. /\ BelowKept(t, u, lev, new, n) /\ \A c : Sits(t, c, n, p) => Parent(u, c) = at.node
  BY DEF RoomMade
<1>4. ASSUME NEW i \in 1..len - 1
      PROVE  LET m == w[i].node
             IN /\ m \in DOMAIN t.node /\ w[i] \in S /\ lev[m] = i - 1 /\ m # t.root
                /\ Full(t, m) /\ MaxCount(t, m) = kNodeValues /\ w[i].position <= NodeCount(t, m)
                /\ w[i + 1] = It(Parent(t, m), Position(t, m))
  <2>1. i \in DOMAIN w /\ i < Len(w)
    BY <1>2 DEF len
  <2>2. w[i] \in S
    BY <1>1, <1>2, <2>1, ElementOfSeq DEF len
  <2>3. w[i].node \in DOMAIN t.node
    BY <2>2 DEF S
  <2> QED
    BY <1>1, <2>1, <2>2, <2>3 DEF Path
<1>5. ASSUME NEW i \in 1..len - 1
      PROVE  LET m == w[i].node
             IN /\ m \in DOMAIN u.node /\ m # u.root /\ new[m] = i - 1
                /\ Full(u, m) /\ MaxCount(u, m) = kNodeValues /\ w[i].position <= NodeCount(u, m)
                /\ i < len - 1 => w[i + 1] = It(Parent(u, m), Position(u, m))
  <2> DEFINE m == w[i].node
  <2>1. /\ m \in DOMAIN t.node /\ lev[m] = i - 1 /\ m # t.root
        /\ Full(t, m) /\ MaxCount(t, m) = kNodeValues /\ w[i].position <= NodeCount(t, m)
        /\ w[i + 1] = It(Parent(t, m), Position(t, m))
    BY <1>4
  <2> HIDE DEF m
  <2>2. lev[m] < lev[n]
    BY <1>1, <1>2, <2>1
  <2>3. /\ m \in DOMAIN u.node /\ m # u.root /\ new[m] = lev[m]
        /\ NodeCount(u, m) = NodeCount(t, m) /\ MaxCount(u, m) = MaxCount(t, m)
        /\ lev[Parent(t, m)] < lev[n] =>
             Parent(u, m) = Parent(t, m) /\ Position(u, m) = Position(t, m)
    BY <1>3, <2>1, <2>2 DEF BelowKept
  <2>4. ASSUME i < len - 1
        PROVE  w[i + 1] = It(Parent(u, m), Position(u, m))
    <3>1. i + 1 \in 1..len - 1
      BY <1>2, <2>4
    <3>2. lev[w[i + 1].node] = (i + 1) - 1
      BY <1>4, <3>1
    <3>3. w[i + 1].node = Parent(t, m)
      BY <2>1 DEF It
    <3>4. lev[Parent(t, m)] < lev[n]
      BY <1>1, <1>2, <2>4, <3>2, <3>3
    <3> QED
      BY <2>1, <2>3, <3>4
  <2> QED
    BY <2>1, <2>3, <2>4 DEF m, Full
<1>6. f \in Seq([node : DOMAIN u.node, position : Nat])
  <2>1. \A i \in 1..Len(f) : f[i] \in [node : DOMAIN u.node, position : Nat]
    <3> SUFFICES ASSUME NEW i \in 1..len - 1
                 PROVE  w[i] \in [node : DOMAIN u.node, position : Nat]
      BY <1>2
    <3>1. w[i] \in S /\ w[i].node \in DOMAIN u.node
      BY <1>4, <1>5
    <3> QED
      BY <3>1 DEF S
  <2> QED
    BY <1>2, <2>1, SeqOver
<1>7. DOMAIN f = 1..len - 1
  BY <1>2, LenProperties
<1>8. Path(u, new, f)
  <2>1. ASSUME NEW i \in DOMAIN f
        PROVE  LET m == f[i].node
               IN /\ Full(u, m) /\ MaxCount(u, m) = kNodeValues
                  /\ f[i].position <= NodeCount(u, m)
                  /\ new[m] = i - 1
                  /\ i < Len(f) => m # u.root /\ f[i + 1] = It(Parent(u, m), Position(u, m))
    <3>1. i \in 1..len - 1 /\ f[i] = w[i]
      BY <1>2, <1>7
    <3>2. i < Len(f) => i < len - 1 /\ f[i + 1] = w[i + 1]
      BY <1>2, <3>1
    <3> QED
      BY <1>5, <3>1, <3>2
  <2> QED
    BY <1>6, <2>1 DEF Path
<1>9. f # <<>> /\ Last(f) = w[len - 1] /\ len - 1 \in 1..len - 1
  <2>1. f # <<>>
    <3>1. Len(f) # 0
      BY <1>2
    <3> QED
      BY <3>1
  <2>2. len - 1 \in 1..len - 1
    BY <1>2
  <2> QED
    BY <1>2, <2>1, <2>2, FrontLast
<1>10. Parent(u, Last(f).node) = at.node
  <2> DEFINE c == w[len - 1].node
  <2>1. /\ c \in DOMAIN t.node /\ c # t.root
        /\ w[(len - 1) + 1] = It(Parent(t, c), Position(t, c))
    BY <1>4, <1>9
  <2>2. w[len] = It(n, p) /\ (len - 1) + 1 = len
    BY <1>1, <1>2
  <2> HIDE DEF c
  <2>3. Parent(t, c) = n /\ Position(t, c) = p
    BY <2>1, <2>2 DEF It
  <2>4. Sits(t, c, n, p)
    <3>1. InOrder(t) /\ Graded(t, lev)
      BY DEF Shape
    <3> QED
      BY <2>1, <2>3, <3>1, SitsBelow
  <2> QED
    BY <1>3, <1>9, <2>4 DEF c
<1> QED
  BY <1>5, <1>8, <1>9, <1>10 DEF f, Shortened

-------------------------------------------------------------------------------
\* The machine.

Ready ==
  /\ pc = "split" => Call.node # tree.root /\ ~Full(tree, Parent(tree, Call.node))
  /\ pc = "insert" =>
       ~Full(tree, it.node) /\ Leaf(tree, it.node) /\ it.position <= NodeCount(tree, it.node)

Inv ==
  /\ TypeOK /\ AssertsHold /\ NodesAttached /\ Balanced /\ NodesSized /\ EdgesKnown
  /\ NoneLeftEmpty /\ CallsAreAPath

LEMMA PathOfCalls ==
  ASSUME TypeOK
  PROVE  CallsAreAPath <=>
           /\ Path(tree, level, waiting) /\ (waiting # <<>> <=> pc \in {"make room", "split"})
           /\ Ready
  BY DEF TypeOK, CallsAreAPath, Path, Ready

\* What the invariant says of a tree that is not empty.
LEMMA InvGives ==
  ASSUME Inv
  PROVE  /\ tree.root # NoNode => Shape(tree, level)
         /\ tree.root = NoNode => DOMAIN tree.node = {}
         /\ Tree(tree) /\ tree.asserts /\ IsFiniteSet(DOMAIN tree.node)
         /\ pc \in {"idle", "make room", "split", "insert", "repair"}
         /\ Path(tree, level, waiting) /\ (waiting # <<>> <=> pc \in {"make room", "split"})
         /\ Ready /\ NoneLeftEmpty
         /\ pc \in {"insert", "repair"} => it \in [node : DOMAIN tree.node, position : Nat]
<1>1. /\ Tree(tree) /\ tree.asserts /\ IsFiniteSet(DOMAIN tree.node) /\ NoNode \notin DOMAIN tree.node
      /\ pc \in {"idle", "make room", "split", "insert", "repair"}
      /\ pc \in {"insert", "repair"} => it \in [node : DOMAIN tree.node, position : Nat]
      /\ NoneLeftEmpty /\ TypeOK
  BY DEF Inv, TypeOK, AssertsHold
<1>2. /\ Path(tree, level, waiting) /\ (waiting # <<>> <=> pc \in {"make room", "split"})
      /\ Ready
  <2>1. CallsAreAPath
    BY DEF Inv
  <2> QED
    BY <1>1, <2>1, PathOfCalls
<1>3. tree.root = NoNode => DOMAIN tree.node = {}
  <2>1. NodesAttached
    BY DEF Inv
  <2> QED
    BY <2>1, Zenon DEF NodesAttached
<1>4. tree.root # NoNode => Shape(tree, level)
  <2>1. tree.root # NoNode => tree.root \in DOMAIN tree.node
    BY <1>1 DEF Tree
  <2>2. /\ tree.root # NoNode => Graded(tree, level) /\ Edged(tree)
        /\ Attached(tree) /\ Sized(tree)
    BY DEF Inv, NodesAttached, NodesSized, Balanced, EdgesKnown
  <2> QED
    BY <1>1, <2>1, <2>2 DEF Shape, InOrder
<1> QED
  BY <1>1, <1>2, <1>3, <1>4

\* What there is to show of a tree that is not empty after a step.
LEMMA InvWhen ==
  ASSUME Shape(tree', level'),
         pc' \in {"idle", "make room", "split", "insert", "repair"},
         Path(tree', level', waiting'), waiting' # <<>> <=> pc' \in {"make room", "split"},
         Ready', NoneLeftEmpty',
         pc' \in {"insert", "repair"} => it' \in [node : DOMAIN tree'.node, position : Nat]
  PROVE  Inv'
<1>1. /\ Tree(tree') /\ IsFiniteSet(DOMAIN tree'.node) /\ NoNode \notin DOMAIN tree'.node
      /\ tree'.root \in DOMAIN tree'.node /\ tree'.asserts /\ Attached(tree') /\ Sized(tree')
      /\ Graded(tree', level') /\ Edged(tree')
  BY DEF Shape, InOrder
<1>2. waiting' \in Seq([node : DOMAIN tree'.node, position : Nat])
  BY DEF Path
<1>3. TypeOK'
  BY <1>1, <1>2 DEF TypeOK
<1>4. AssertsHold' /\ NodesAttached' /\ Balanced' /\ NodesSized' /\ EdgesKnown'
  BY <1>1 DEF AssertsHold, NodesAttached, Balanced, NodesSized, EdgesKnown
<1>5. CallsAreAPath'
  BY DEF Path, Ready, CallsAreAPath
<1> QED
  BY <1>3, <1>4, <1>5 DEF Inv

\* Without calls under way there is little to say of them.
LEMMA NoCalls ==
  ASSUME NEW t, NEW lev
  PROVE  Path(t, lev, <<>>)
<1>1. <<>> \in Seq([node : DOMAIN t.node, position : Nat]) /\ DOMAIN <<>> = {}
  OBVIOUS
<1> QED
  BY <1>1 DEF Path

LEMMA CallUnderWay ==
  ASSUME Inv, pc \in {"make room", "split"}
  PROVE  /\ CallOf(tree, level, waiting, Call.node, Call.position)
         /\ Shape(tree, level) /\ Tree(tree)
<1>1. Path(tree, level, waiting) /\ waiting # <<>> /\ Tree(tree)
  BY InvGives
<1>2. CallOf(tree, level, waiting, Call.node, Call.position)
  BY <1>1 DEF CallOf, Call
<1>3. tree.root # NoNode
  <2>1. Call.node \in DOMAIN tree.node
    BY <1>2, CallFacts
  <2> QED
    BY <2>1, InvGives
<1> QED
  BY <1>1, <1>2, <1>3, InvGives

\* Whatever way the call made room, what is left of the stack and the tree are
\* as they should be when it returns.
LEMMA CallReturns ==
  ASSUME Inv, pc \in {"make room", "split"}, NEW STATE r,
         RoomMade(tree, r.t, level, level', Call.node, Call.position, r.it),
         Returns(r)
  PROVE  Inv'
<1> DEFINE n == Call.node
           p == Call.position
<1>1. CallOf(tree, level, waiting, n, p) /\ Shape(tree, level)
  BY CallUnderWay
<1> HIDE DEF n, p
<1>2. OneCall(waiting) => Front(waiting) = <<>> /\ level[n] = 0
  BY <1>1, LastCall
<1>3. RoomMade(tree, r.t, level, level', n, p, r.it)
  BY DEF n, p
<1>4. CASE OneCall(waiting)
  <2>1. waiting' = Front(waiting) /\ tree' = Counted(r.t) /\ it' = r.it /\ pc' = "insert"
    BY <1>4, Zenon DEF Returns, OneCall
  <2>2. waiting' = <<>>
    BY <1>2, <1>4, <2>1
  <2>3. RoomMade(tree, tree', level, level', n, p, it')
    <3>1. RoomMade(tree, Counted(r.t), level, level', n, p, r.it)
      BY <1>3, CountedMakesRoom
    <3> QED
      BY <2>1, <3>1
  <2>4. /\ Shape(tree', level') /\ it' \in [node : DOMAIN tree'.node, position : Nat]
        /\ it'.position <= NodeCount(tree', it'.node) /\ ~Full(tree', it'.node)
        /\ level'[it'.node] = level[n]
        /\ \A m \in DOMAIN tree'.node \ {it'.node} : NodeCount(tree', m) >= 1
    BY <2>3 DEF RoomMade
  <2>5. Leaf(tree', it'.node)
    <3>1. it'.node \in DOMAIN tree'.node /\ level'[it'.node] = 0
      BY <1>2, <1>4, <2>4
    <3>2. InOrder(tree') /\ Graded(tree', level')
      BY <2>4 DEF Shape
    <3> QED
      BY <3>1, <3>2, NodeFacts
  <2>6. Path(tree', level', waiting')
    <3>1. Path(tree', level', <<>>)
      BY NoCalls
    <3> QED
      BY <2>2, <3>1
  <2>7. Ready'
    BY <2>1, <2>4, <2>5 DEF Ready
  <2>8. NoneLeftEmpty'
    <3>1. Unsettled' = {it'.node}
      BY <2>1 DEF Unsettled
    <3> QED
      BY <2>4, <3>1 DEF NoneLeftEmpty
  <2> QED
    BY <2>1, <2>2, <2>4, <2>6, <2>7, <2>8, InvWhen
<1>5. CASE ~OneCall(waiting)
  <2>1. waiting' = Front(waiting) /\ tree' = r.t /\ pc' = "split" /\ ~OneCall(waiting)
    <3>1. waiting' = Front(waiting) /\ tree' = r.t /\ pc' = "split"
      BY <1>5, Zenon DEF Returns, OneCall
    <3> QED
      BY <1>5, <3>1
  <2>2. RoomMade(tree, tree', level, level', n, p, r.it)
    BY <1>3, <2>1
  <2>3. /\ Path(tree', level', Front(waiting)) /\ Front(waiting) # <<>>
        /\ Last(Front(waiting)).node # tree'.root
        /\ Parent(tree', Last(Front(waiting)).node) = r.it.node
    <3>1. Shortened(tree', level', waiting, r.it)
      BY <1>1, <2>1, <2>2, PathShortens
    <3> QED
      BY <3>1 DEF Shortened
  <2>4. /\ Shape(tree', level') /\ ~Full(tree', r.it.node)
        /\ \A m \in DOMAIN tree'.node \ {r.it.node} : NodeCount(tree', m) >= 1
    BY <2>2 DEF RoomMade
  <2>5. /\ Path(tree', level', waiting') /\ waiting' # <<>>
        /\ Call'.node # tree'.root /\ Parent(tree', Call'.node) = r.it.node
    BY <2>1, <2>3 DEF Call
  <2>6. Ready'
    BY <2>1, <2>4, <2>5 DEF Ready
  <2>7. NoneLeftEmpty'
    <3>1. Unsettled' = {r.it.node}
      BY <2>1, <2>5 DEF Unsettled
    <3> QED
      BY <2>4, <3>1 DEF NoneLeftEmpty
  <2> QED
    BY <2>1, <2>4, <2>5, <2>6, <2>7, InvWhen
<1> QED
  BY <1>4, <1>5

-------------------------------------------------------------------------------
\* Every step of the machine, one after the other.

LEMMA InitHolds == Init => Inv
<1> SUFFICES ASSUME Init PROVE Inv
  OBVIOUS
<1> DEFINE t == NoTree
<1>1. tree = t /\ pc = "idle" /\ waiting = <<>>
  BY DEF Init
<1>2. /\ t.node = <<>> /\ t.root = NoNode /\ t.asserts = TRUE
      /\ t = [node |-> t.node, root |-> t.root, rightmost |-> t.rightmost, size |-> t.size,
              asserts |-> t.asserts]
  BY DEF NoTree
<1> HIDE DEF t
<1>3. DOMAIN <<>> = {}
  OBVIOUS
<1>4. DOMAIN t.node = {} /\ t.node \in [DOMAIN t.node -> Node]
  BY <1>2, <1>3
<1>5. Tree(t)
  BY <1>2, <1>4 DEF Tree
<1>6. IsFiniteSet(DOMAIN t.node) /\ NoNode \notin DOMAIN t.node
  BY <1>4, FS_EmptySet
<1>7. TypeOK
  <2>1. waiting \in Seq([node : DOMAIN tree.node, position : Nat])
    BY <1>1
  <2> QED
    BY <1>1, <1>5, <1>6, <2>1 DEF TypeOK
<1>8. AssertsHold /\ NodesAttached /\ Balanced /\ NodesSized /\ EdgesKnown
  BY <1>1, <1>2, <1>4
  DEF AssertsHold, NodesAttached, Balanced, NodesSized, EdgesKnown, Attached, Linked, Sized
<1>9. NoneLeftEmpty
  BY <1>1, <1>4 DEF NoneLeftEmpty
<1>10. CallsAreAPath
  <2>1. Path(tree, level, waiting)
    BY <1>1, NoCalls
  <2> QED
    BY <1>1, <1>7, <2>1, PathOfCalls DEF Ready
<1> QED
  BY <1>7, <1>8, <1>9, <1>10 DEF Inv

\* There is a leaf with room at the iterator, and no call under way.
LEMMA ReadyToInsert ==
  ASSUME Shape(tree', level'), pc' = "insert", waiting' = <<>>,
         it'.node \in DOMAIN tree'.node, it' \in [node : DOMAIN tree'.node, position : Nat],
         Leaf(tree', it'.node), ~Full(tree', it'.node),
         it'.position <= NodeCount(tree', it'.node),
         \A m \in DOMAIN tree'.node \ {it'.node} : NodeCount(tree', m) >= 1
  PROVE  Inv'
<1>1. Path(tree', level', waiting')
  <2>1. Path(tree', level', <<>>)
    BY NoCalls
  <2> QED
    BY <2>1
<1>2. Ready'
  BY DEF Ready
<1>3. NoneLeftEmpty'
  <2>1. Unsettled' = {it'.node}
    BY DEF Unsettled
  <2> QED
    BY <2>1 DEF NoneLeftEmpty
<1> QED
  BY <1>1, <1>2, <1>3, InvWhen

\* A tree of one leaf, to insert into.
LEMMA ReadyInLeaf ==
  ASSUME NEW p \in Nat, LeafForNext(tree', p), it' = It(tree'.root, p), pc' = "insert",
         level' = [m \in DOMAIN tree'.node |-> 0], waiting' = <<>>
  PROVE  Inv'
<1>1. /\ DOMAIN tree'.node = {tree'.root} /\ Shape(tree', level')
      /\ Leaf(tree', tree'.root) /\ ~Full(tree', tree'.root) /\ p <= NodeCount(tree', tree'.root)
  BY DEF LeafForNext
<1>2. it'.node = tree'.root /\ it'.position = p
  BY DEF It
<1>3. it' \in [node : DOMAIN tree'.node, position : Nat]
  BY <1>1 DEF It
<1> QED
  BY <1>1, <1>2, <1>3, ReadyToInsert

LEMMA Idle ==
  ASSUME Inv, pc = "idle"
  PROVE  /\ waiting = <<>> /\ NoneEmpty(tree) /\ Tree(tree) /\ tree.asserts
         /\ IsFiniteSet(DOMAIN tree.node)
         /\ tree.root = NoNode => DOMAIN tree.node = {}
         /\ \A n \in DOMAIN tree.node : Shape(tree, level)
<1>1. /\ waiting = <<>> /\ Tree(tree) /\ tree.asserts /\ IsFiniteSet(DOMAIN tree.node)
      /\ tree.root = NoNode => DOMAIN tree.node = {}
      /\ NoneLeftEmpty
  BY InvGives
<1>2. NoneEmpty(tree)
  <2>1. Unsettled = {}
    BY DEF Unsettled
  <2> QED
    BY <1>1, <2>1 DEF NoneLeftEmpty, NoneEmpty
<1>3. \A n \in DOMAIN tree.node : Shape(tree, level)
  <2>1. \A n \in DOMAIN tree.node : tree.root # NoNode
    BY <1>1
  <2> QED
    BY <2>1, InvGives
<1> QED
  BY <1>1, <1>2, <1>3

LEMMA InsertIntoEmptyKeeps == Inv /\ InsertIntoEmpty => Inv'
<1> SUFFICES ASSUME Inv, InsertIntoEmpty PROVE Inv'
  OBVIOUS
<1>1. /\ pc = "idle" /\ tree.root = NoNode /\ tree' = NewLeafRoot(tree, 1)
      /\ it' = It(tree'.root, 0) /\ pc' = "insert" /\ level' = [m \in DOMAIN tree'.node |-> 0]
      /\ waiting' = waiting
  BY DEF InsertIntoEmpty
<1>2. LeafForNext(tree', 0)
  <2>1. /\ Tree(tree) /\ IsFiniteSet(DOMAIN tree.node) /\ DOMAIN tree.node = {} /\ tree.asserts
    BY <1>1, Idle
  <2>2. LeafForNext(NewLeafRoot(tree, 1), 0)
    BY <2>1, NewLeafRootShape
  <2> QED
    BY <1>1, <2>2
<1>3. waiting' = <<>>
  BY <1>1, Idle
<1> QED
  BY <1>1, <1>2, <1>3, ReadyInLeaf

LEMMA InsertsAtLeaf ==
  ASSUME Inv, NEW n, NEW p, InsertsAt(n, p)
  PROVE  /\ n \in DOMAIN tree.node /\ Leaf(tree, n) /\ p \in 0..NodeCount(tree, n)
         /\ p \in Nat /\ p <= NodeCount(tree, n) /\ NodeCount(tree, n) \in Nat
         /\ Shape(tree, level) /\ Tree(tree) /\ NoneEmpty(tree) /\ waiting = <<>> /\ pc = "idle"
<1>1. pc = "idle" /\ n \in DOMAIN tree.node /\ Leaf(tree, n) /\ p \in 0..NodeCount(tree, n)
  BY DEF InsertsAt, InLeaf
<1>2. Shape(tree, level) /\ Tree(tree) /\ NoneEmpty(tree) /\ waiting = <<>>
  BY <1>1, Idle
<1>3. NodeCount(tree, n) \in Nat
  BY <1>1, <1>2, NodeFacts DEF Shape
<1>4. p \in Nat /\ p <= NodeCount(tree, n)
  BY <1>1, <1>3
<1> QED
  BY <1>1, <1>2, <1>3, <1>4

LEMMA InsertWhereRoomKeeps ==
  ASSUME Inv, NEW n, NEW p, InsertWhereRoom(n, p)
  PROVE  Inv'
<1>1. /\ InsertsAt(n, p) /\ ~Full(tree, n) /\ tree' = Counted(tree) /\ it' = It(n, p)
      /\ pc' = "insert" /\ waiting' = waiting /\ level' = level
  BY DEF InsertWhereRoom
<1>2. /\ n \in DOMAIN tree.node /\ Leaf(tree, n) /\ p \in Nat /\ p <= NodeCount(tree, n)
      /\ Shape(tree, level) /\ NoneEmpty(tree) /\ waiting = <<>>
  BY <1>1, InsertsAtLeaf
<1>3. SameNodes(tree, tree') /\ Shape(tree', level')
  <2>1. SameNodes(tree, Counted(tree)) /\ Shape(Counted(tree), level)
    BY <1>2, CountingKeepsShape
  <2> QED
    BY <1>1, <2>1
<1>4. /\ DOMAIN tree'.node = DOMAIN tree.node
      /\ Leaf(tree', n) /\ ~Full(tree', n) /\ p <= NodeCount(tree', n)
      /\ \A m \in DOMAIN tree'.node : NodeCount(tree', m) >= 1
  <2>1. /\ Leaf(tree', n) = Leaf(tree, n) /\ Full(tree', n) = Full(tree, n)
        /\ \A m : NodeCount(tree', m) = NodeCount(tree, m)
    BY <1>3, SameNodesFacts
  <2>2. DOMAIN tree'.node = DOMAIN tree.node
    BY <1>3 DEF SameNodes
  <2> QED
    BY <1>1, <1>2, <2>1, <2>2 DEF NoneEmpty
<1>5. it'.node = n /\ it'.position = p /\ it' \in [node : DOMAIN tree'.node, position : Nat]
  BY <1>1, <1>2, <1>4 DEF It
<1>6. waiting' = <<>>
  BY <1>1, <1>2
<1> QED
  BY <1>1, <1>2, <1>3, <1>4, <1>5, <1>6, ReadyToInsert

LEMMA InsertIntoGrownKeeps ==
  ASSUME Inv, NEW n, NEW p, InsertIntoGrown(n, p)
  PROVE  Inv'
<1>1. /\ InsertsAt(n, p) /\ Full(tree, n) /\ MaxCount(tree, n) < kNodeValues
      /\ tree' = GrowRoot(Check(tree, n = tree.root)) /\ it' = It(tree'.root, p)
      /\ pc' = "insert" /\ waiting' = waiting /\ level' = [m \in DOMAIN tree'.node |-> 0]
  BY DEF InsertIntoGrown
<1>2. /\ n \in DOMAIN tree.node /\ Leaf(tree, n) /\ p \in 0..NodeCount(tree, n) /\ p \in Nat
      /\ Shape(tree, level) /\ Tree(tree) /\ waiting = <<>>
  BY <1>1, InsertsAtLeaf
<1>3. n = tree.root
  <2>1. /\ MaxCount(tree, n) \in 1..kNodeValues /\ kNodeValues \in Nat
        /\ MaxCount(tree, n) = kNodeValues \/ n = tree.root
    BY <1>2, NodeFacts DEF Shape
  <2> QED
    BY <1>1, <2>1
<1>4. LeafForNext(tree', p)
  <2>1. Check(tree, n = tree.root) = tree
    BY <1>2, <1>3, CheckPasses
  <2>2. LeafForNext(GrowRoot(tree), p)
    BY <1>1, <1>2, <1>3, GrowRootShape
  <2> QED
    BY <1>1, <2>1, <2>2
<1>5. waiting' = <<>>
  BY <1>1, <1>2
<1> QED
  BY <1>1, <1>2, <1>4, <1>5, ReadyInLeaf

LEMMA OneCallPath ==
  ASSUME NEW t, NEW lev, NEW n \in DOMAIN t.node, NEW p \in Nat, Full(t, n),
         MaxCount(t, n) = kNodeValues, p <= NodeCount(t, n), lev[n] = 0
  PROVE  Path(t, lev, <<It(n, p)>>) /\ <<It(n, p)>> # <<>>
<1> DEFINE w == <<It(n, p)>>
<1>1. /\ w \in Seq([node : DOMAIN t.node, position : Nat]) /\ DOMAIN w = {1} /\ Len(w) = 1
      /\ w[1].node = n /\ w[1].position = p
  BY DEF It
<1>2. w # <<>>
  OBVIOUS
<1> HIDE DEF w
<1> QED
  BY <1>1, <1>2 DEF Path, w

LEMMA NoMoreThanMost ==
  ASSUME NEW t, NEW lev, Shape(t, lev), NEW n \in DOMAIN t.node, MaxCount(t, n) >= kNodeValues,
         Leaf(t, n)
  PROVE  MaxCount(t, n) = kNodeValues /\ lev[n] = 0
<1>1. /\ MaxCount(t, n) \in 1..kNodeValues /\ kNodeValues \in Nat
      /\ Leaf(t, n) <=> lev[n] = 0
  BY NodeFacts DEF Shape
<1>2. MaxCount(t, n) = kNodeValues
  BY <1>1
<1> QED
  BY <1>1, <1>2

LEMMA InsertIntoFullKeeps ==
  ASSUME Inv, NEW n, NEW p, InsertIntoFull(n, p)
  PROVE  Inv'
<1>1. /\ InsertsAt(n, p) /\ Full(tree, n) /\ MaxCount(tree, n) >= kNodeValues
      /\ waiting' = <<It(n, p)>> /\ pc' = "make room"
      /\ tree' = tree /\ it' = it /\ level' = level
  BY DEF InsertIntoFull
<1>2. /\ n \in DOMAIN tree.node /\ Leaf(tree, n) /\ p \in Nat /\ p <= NodeCount(tree, n)
      /\ Shape(tree, level) /\ NoneEmpty(tree)
  BY <1>1, InsertsAtLeaf
<1>3. MaxCount(tree, n) = kNodeValues /\ level[n] = 0
  BY <1>1, <1>2, NoMoreThanMost
<1>4. Path(tree', level', waiting') /\ waiting' # <<>>
  <2>1. Path(tree, level, <<It(n, p)>>) /\ <<It(n, p)>> # <<>>
    BY <1>1, <1>2, <1>3, OneCallPath
  <2> QED
    BY <1>1, <2>1
<1>5. Ready'
  BY <1>1 DEF Ready
<1>6. NoneLeftEmpty'
  BY <1>1, <1>2 DEF NoneLeftEmpty, NoneEmpty
<1> QED
  BY <1>1, <1>2, <1>4, <1>5, <1>6, InvWhen

\* The node that the call is for is full, and the tree in order.
FullAt(t, n, p) ==
  /\ n \in DOMAIN t.node /\ Full(t, n) /\ MaxCount(t, n) = kNodeValues
  /\ p \in 0..NodeCount(t, n)

IsCallAt(w, n, p) == Last(w) = It(n, p)

LEMMA CallIsForFull ==
  ASSUME NEW t, NEW lev, NEW w, NEW n, NEW p, CallOf(t, lev, w, n, p), Shape(t, lev)
  PROVE  FullAt(t, n, p) /\ IsCallAt(w, n, p)
<1>1. /\ n \in DOMAIN t.node /\ p \in Nat /\ p <= NodeCount(t, n)
      /\ Full(t, n) /\ MaxCount(t, n) = kNodeValues /\ Last(w) = It(n, p)
  BY CallFacts
<1>2. NodeCount(t, n) \in Nat
  BY <1>1, NodeFacts DEF Shape
<1>3. p \in 0..NodeCount(t, n)
  BY <1>1, <1>2
<1> QED
  BY <1>1, <1>3 DEF FullAt, IsCallAt

LEMMA CallForFull ==
  ASSUME Inv, pc \in {"make room", "split"}
  PROVE  /\ Call = It(Call.node, Call.position) /\ Shape(tree, level) /\ Tree(tree)
         /\ FullAt(tree, Call.node, Call.position)
<1> DEFINE n == Call.node
           p == Call.position
<1>1. CallOf(tree, level, waiting, n, p) /\ Shape(tree, level) /\ Tree(tree)
  BY CallUnderWay
<1> HIDE DEF n, p
<1>2. FullAt(tree, n, p) /\ IsCallAt(waiting, n, p)
  BY <1>1, CallIsForFull
<1> QED
  BY <1>1, <1>2, Zenon DEF Call, IsCallAt, n, p

LEMMA MakingRoom ==
  ASSUME Inv, pc = "make room"
  PROVE  NoneEmpty(tree) /\ Called = tree
<1>1. NoneEmpty(tree)
  <2>1. Unsettled = {} /\ NoneLeftEmpty
    BY InvGives DEF Unsettled
  <2> QED
    BY <2>1 DEF NoneLeftEmpty, NoneEmpty
<1>2. Tree(tree) /\ Full(tree, Call.node)
  BY CallForFull DEF FullAt
<1>3. Check(tree, Full(tree, Call.node)) = tree
  BY <1>2, CheckPasses
<1> QED
  BY <1>1, <1>3 DEF Called

LEMMA MoveLeftKeeps == Inv /\ MoveLeft => Inv'
<1> SUFFICES ASSUME Inv, MoveLeft PROVE Inv'
  OBVIOUS
<1> DEFINE n == Call.node
           p == Call.position
<1>1. /\ pc = "make room" /\ n # tree.root /\ CanGoLeft(tree, Call)
      /\ Returns(GoLeft(Called, Call)) /\ level' = level
  BY DEF MoveLeft, BelowRoot
<1>2. /\ Call = It(n, p) /\ FullBelowRoot(tree, level, n, p)
  BY <1>1, CallForFull DEF FullBelowRoot, FullAt
<1>3. NoneEmpty(tree) /\ Called = tree
  BY <1>1, MakingRoom
<1> HIDE DEF n, p
<1> DEFINE r == GoLeft(tree, It(n, p))
<1>4. RoomMade(tree, r.t, level, level, n, p, r.it)
  BY <1>1, <1>2, <1>3, GoLeftMakesRoom
<1>5. Returns(r)
  BY <1>1, <1>2, <1>3
<1> HIDE DEF r
<1>6. RoomMade(tree, r.t, level, level', Call.node, Call.position, r.it)
  BY <1>1, <1>4 DEF n, p
<1> QED
  BY <1>1, <1>5, <1>6, CallReturns

LEMMA MoveRightKeeps == Inv /\ MoveRight => Inv'
<1> SUFFICES ASSUME Inv, MoveRight PROVE Inv'
  OBVIOUS
<1> DEFINE n == Call.node
           p == Call.position
<1>1. /\ pc = "make room" /\ n # tree.root /\ CanGoRight(tree, Call)
      /\ Returns(GoRight(Called, Call)) /\ level' = level
  BY DEF MoveRight, BelowRoot
<1>2. /\ Call = It(n, p) /\ FullBelowRoot(tree, level, n, p)
  BY <1>1, CallForFull DEF FullBelowRoot, FullAt
<1>3. NoneEmpty(tree) /\ Called = tree
  BY <1>1, MakingRoom
<1> HIDE DEF n, p
<1> DEFINE r == GoRight(tree, It(n, p))
<1>4. RoomMade(tree, r.t, level, level, n, p, r.it)
  BY <1>1, <1>2, <1>3, GoRightMakesRoom
<1>5. Returns(r)
  BY <1>1, <1>2, <1>3
<1> HIDE DEF r
<1>6. RoomMade(tree, r.t, level, level', Call.node, Call.position, r.it)
  BY <1>1, <1>4 DEF n, p
<1> QED
  BY <1>1, <1>5, <1>6, CallReturns

LEMMA CountedSame ==
  ASSUME NEW t, NEW lev, Shape(t, lev)
  PROVE  Counted(t).node = t.node /\ Counted(t).root = t.root
  BY CountingKeepsShape DEF SameNodes

LEMMA ReturnsNodes ==
  ASSUME NEW STATE r, NEW new, Shape(r.t, new), Returns(r)
  PROVE  tree'.node = r.t.node /\ tree'.root = r.t.root
<1>1. tree' = r.t \/ tree' = Counted(r.t)
  BY Zenon DEF Returns
<1>2. Counted(r.t).node = r.t.node /\ Counted(r.t).root = r.t.root
  BY CountedSame
<1> QED
  BY <1>1, <1>2

LEMMA SplitUnderParentKeeps == Inv /\ SplitUnderParent => Inv'
<1> SUFFICES ASSUME Inv, SplitUnderParent PROVE Inv'
  OBVIOUS
<1> DEFINE n == Call.node
           p == Call.position
           r == SplitNode(tree, n, p)
<1>1. /\ pc = "split" /\ Returns(r)
      /\ level' = [m \in DOMAIN tree'.node |->
                     IF m \in DOMAIN tree.node THEN level[m] ELSE level[n]]
  BY DEF SplitUnderParent
<1>2. n # tree.root /\ ~Full(tree, Parent(tree, n))
  BY <1>1, InvGives DEF Ready
<1>3. FullBelowRoot(tree, level, n, p)
  BY <1>1, <1>2, CallForFull DEF FullBelowRoot, FullAt
<1>4. \A m \in DOMAIN tree.node \ {Parent(tree, n)} : NodeCount(tree, m) >= 1
  <2>1. Unsettled = {Parent(tree, n)} /\ NoneLeftEmpty
    BY <1>1, InvGives DEF Unsettled
  <2> QED
    BY <2>1 DEF NoneLeftEmpty
<1> HIDE DEF n, p
<1>5. RoomMade(tree, r.t, level, LevelsWith(r.t, tree, level, n), n, p, r.it)
  BY <1>2, <1>3, <1>4, SplitMakesRoom
<1> HIDE DEF r
<1>6. tree'.node = r.t.node
  BY <1>1, <1>5, ReturnsNodes DEF RoomMade
<1>7. level' = LevelsWith(r.t, tree, level, n)
  BY <1>1, <1>6 DEF LevelsWith
<1>8. RoomMade(tree, r.t, level, level', Call.node, Call.position, r.it)
  BY <1>5, <1>7 DEF n, p
<1> QED
  BY <1>1, <1>8, CallReturns

LEMMA RaiseAndSplitKeeps == Inv /\ RaiseAndSplit => Inv'
<1> SUFFICES ASSUME Inv, RaiseAndSplit PROVE Inv'
  OBVIOUS
<1> DEFINE n == Call.node
           p == Call.position
           r == SplitRaised(RaiseRoot(tree), p)
<1>1. /\ pc = "make room" /\ n = tree.root /\ Returns(SplitRaised(RaiseRoot(Called), p))
      /\ level' = [m \in DOMAIN tree'.node |->
                     IF m = tree'.root THEN level[tree.root] + 1
                     ELSE IF m \in DOMAIN tree.node THEN level[m] ELSE level[tree.root]]
  BY DEF RaiseAndSplit
<1>2. NoneEmpty(tree) /\ Called = tree
  BY <1>1, MakingRoom
<1>3. /\ Shape(tree, level) /\ Full(tree, n) /\ MaxCount(tree, n) = kNodeValues
      /\ p \in 0..NodeCount(tree, n)
  BY <1>1, CallForFull DEF FullAt
<1>4. Returns(r)
  BY <1>1, <1>2
<1> HIDE DEF n, p
<1>5. RoomMade(tree, r.t, level, LevelsRaised(r.t, tree, level), n, p, r.it)
  BY <1>1, <1>2, <1>3, RaiseMakesRoom
<1> HIDE DEF r
<1>6. tree'.node = r.t.node /\ tree'.root = r.t.root
  BY <1>4, <1>5, ReturnsNodes DEF RoomMade
<1>7. level' = LevelsRaised(r.t, tree, level)
  BY <1>1, <1>6 DEF LevelsRaised
<1>8. RoomMade(tree, r.t, level, level', Call.node, Call.position, r.it)
  BY <1>5, <1>7 DEF n, p
<1> QED
  BY <1>1, <1>4, <1>8, CallReturns

\* A call for the full parent is one more of the kind.
LEMMA PathGrows ==
  ASSUME NEW t, NEW lev, NEW w, NEW n, NEW p, CallOf(t, lev, w, n, p), Shape(t, lev),
         n # t.root, Full(t, Parent(t, n))
  PROVE  LET more == Append(w, It(Parent(t, n), Position(t, n)))
         IN Path(t, lev, more) /\ more # <<>>
<1> DEFINE S == [node : DOMAIN t.node, position : Nat]
           len == Len(w)
           above == Parent(t, n)
           at == Position(t, n)
           more == Append(w, It(above, at))
<1>1. /\ n \in DOMAIN t.node /\ len \in Nat /\ len >= 1 /\ lev[n] = len - 1 /\ Last(w) = It(n, p)
  BY CallFacts
<1>2. /\ above \in DOMAIN t.node /\ at \in Nat /\ at \in 0..NodeCount(t, above)
      /\ NodeCount(t, above) \in Nat /\ MaxCount(t, above) = kNodeValues
      /\ lev[above] = lev[n] + 1
  BY <1>1, BelowRootFacts DEF Shape
<1>3. w \in Seq(S) /\ Path(t, lev, w) /\ w # <<>>
  BY DEF CallOf, Path
<1>4. w[len] = It(n, p) /\ DOMAIN w = 1..len
  <2>1. Last(w) = w[Len(w)]
    BY <1>3, FrontLast
  <2> QED
    BY <1>1, <1>3, <2>1, LenProperties
<1> HIDE DEF above, at
<1>5. It(above, at) \in S
  BY <1>2 DEF It
<1> HIDE DEF S
<1>6. /\ more \in Seq(S) /\ Len(more) = len + 1 /\ more[len + 1] = It(above, at)
      /\ \A i \in 1..len : more[i] = w[i]
  BY <1>3, <1>5, AppendProperties
<1>7. DOMAIN more = 1..len + 1
  BY <1>6, LenProperties
<1> HIDE DEF more
<1>8. ASSUME NEW i \in 1..len
      PROVE  LET m == more[i].node
             IN /\ Full(t, m) /\ MaxCount(t, m) = kNodeValues
                /\ more[i].position <= NodeCount(t, m) /\ lev[m] = i - 1
                /\ m # t.root /\ more[i + 1] = It(Parent(t, m), Position(t, m))
  <2>1. more[i] = w[i] /\ i \in DOMAIN w
    BY <1>4, <1>6
  <2>2. LET m == w[i].node
        IN /\ Full(t, m) /\ MaxCount(t, m) = kNodeValues
           /\ w[i].position <= NodeCount(t, m) /\ lev[m] = i - 1
           /\ i < Len(w) => m # t.root /\ w[i + 1] = It(Parent(t, m), Position(t, m))
    BY <1>3, <2>1 DEF Path
  <2>3. CASE i < len
    <3>1. i + 1 \in 1..len
      BY <1>1, <2>3
    <3>2. more[i + 1] = w[i + 1]
      BY <1>6, <3>1
    <3> QED
      BY <2>1, <2>2, <2>3, <3>2 DEF len
  <2>4. CASE i = len
    <3>1. w[i].node = n
      BY <1>4, <2>4 DEF It
    <3>2. more[i + 1] = It(above, at)
      BY <1>6, <2>4
    <3> QED
      BY <2>1, <2>2, <3>1, <3>2 DEF above, at
  <2> QED
    BY <1>1, <2>3, <2>4
<1>9. LET m == more[len + 1].node
      IN /\ Full(t, m) /\ MaxCount(t, m) = kNodeValues
         /\ more[len + 1].position <= NodeCount(t, m) /\ lev[m] = (len + 1) - 1
  <2>1. more[len + 1].node = above /\ more[len + 1].position = at
    BY <1>6 DEF It
  <2>2. Full(t, above) /\ at <= NodeCount(t, above) /\ lev[above] = (len + 1) - 1
    BY <1>1, <1>2 DEF above
  <2> QED
    BY <1>2, <2>1, <2>2
<1>10. Path(t, lev, more)
  <2>1. ASSUME NEW i \in DOMAIN more
        PROVE  LET m == more[i].node
               IN /\ Full(t, m) /\ MaxCount(t, m) = kNodeValues
                  /\ more[i].position <= NodeCount(t, m) /\ lev[m] = i - 1
                  /\ i < Len(more) =>
                       m # t.root /\ more[i + 1] = It(Parent(t, m), Position(t, m))
    <3>1. i \in 1..len \/ i = len + 1
      BY <1>1, <1>7
    <3>2. CASE i \in 1..len
      BY <1>8, <3>2
    <3>3. CASE i = len + 1
      <4>1. ~(i < Len(more))
        BY <1>1, <1>6, <3>3
      <4> QED
        BY <1>9, <3>3, <4>1
    <3> QED
      BY <3>1, <3>2, <3>3
  <2>2. more \in Seq([node : DOMAIN t.node, position : Nat])
    BY <1>6 DEF S
  <2> QED
    BY <2>1, <2>2 DEF Path
<1>11. more # <<>>
  <2>1. Len(more) # 0
    BY <1>1, <1>6
  <2> QED
    BY <2>1
<1> QED
  BY <1>10, <1>11 DEF more, above, at

LEMMA CallForParentKeeps == Inv /\ CallForParent => Inv'
<1> SUFFICES ASSUME Inv, CallForParent PROVE Inv'
  OBVIOUS
<1> DEFINE n == Call.node
           p == Call.position
<1>1. /\ pc = "make room" /\ n # tree.root /\ Full(tree, Parent(tree, n))
      /\ tree' = Called /\ waiting' = Append(waiting, It(Parent(tree, n), Position(tree, n)))
      /\ pc' = pc /\ it' = it /\ level' = level
  BY DEF CallForParent, BelowRoot
<1>2. CallOf(tree, level, waiting, n, p) /\ Shape(tree, level)
  BY <1>1, CallUnderWay
<1>3. NoneEmpty(tree) /\ tree' = tree
  BY <1>1, MakingRoom
<1> HIDE DEF n, p
<1>4. Path(tree', level', waiting') /\ waiting' # <<>>
  BY <1>1, <1>2, <1>3, PathGrows
<1>5. Ready'
  BY <1>1 DEF Ready
<1>6. NoneLeftEmpty'
  BY <1>3 DEF NoneLeftEmpty, NoneEmpty
<1> QED
  BY <1>1, <1>2, <1>3, <1>4, <1>5, <1>6, InvWhen

LEMMA ParentHasRoomKeeps == Inv /\ ParentHasRoom => Inv'
<1> SUFFICES ASSUME Inv, ParentHasRoom PROVE Inv'
  OBVIOUS
<1>1. /\ pc = "make room" /\ Call.node # tree.root /\ ~Full(tree, Parent(tree, Call.node))
      /\ tree' = Called /\ pc' = "split" /\ it' = it /\ waiting' = waiting /\ level' = level
  BY DEF ParentHasRoom, BelowRoot
<1>2. Shape(tree, level) /\ Path(tree, level, waiting) /\ waiting # <<>>
  BY <1>1, CallUnderWay, InvGives
<1>3. NoneEmpty(tree) /\ tree' = tree
  BY <1>1, MakingRoom
<1>4. Ready'
  <2> DEFINE Parted(w, t) == Last(w).node # t.root /\ ~Full(t, Parent(t, Last(w).node))
  <2>1. Parted(waiting, tree)
    BY <1>1, Zenon DEF Call
  <2> HIDE DEF Parted
  <2>2. waiting' = waiting /\ tree' = tree
    BY <1>1, <1>3
  <2>3. Parted(waiting', tree')
    BY <2>1, <2>2
  <2> QED
    BY <1>1, <2>3, Zenon DEF Ready, Call, Parted
<1>5. NoneLeftEmpty'
  BY <1>3 DEF NoneLeftEmpty, NoneEmpty
<1> QED
  BY <1>1, <1>2, <1>3, <1>4, <1>5, InvWhen

-------------------------------------------------------------------------------
\* insert_value and the steps of an erasure.

\* No call is under way after the step, and perhaps one node is to be repaired.
LEMMA Settled ==
  ASSUME Shape(tree', level'), waiting' = <<>>, pc' \in {"idle", "repair"},
         pc' = "idle" => NoneEmpty(tree'),
         pc' = "repair" =>
           /\ it' \in [node : DOMAIN tree'.node, position : Nat]
           /\ \A m \in DOMAIN tree'.node \ {it'.node} : NodeCount(tree', m) >= 1
  PROVE  Inv'
<1>1. Path(tree', level', waiting')
  <2>1. Path(tree', level', <<>>)
    BY NoCalls
  <2> QED
    BY <2>1
<1>2. Ready'
  BY DEF Ready
<1>3. NoneLeftEmpty'
  <2>1. CASE pc' = "idle"
    BY <2>1 DEF NoneLeftEmpty, NoneEmpty
  <2>2. CASE pc' = "repair"
    <3>1. Unsettled' = {it'.node}
      BY <2>2 DEF Unsettled
    <3> QED
      BY <2>2, <3>1 DEF NoneLeftEmpty
  <2> QED
    BY <2>1, <2>2
<1> QED
  BY <1>1, <1>2, <1>3, InvWhen

\* What the invariant says while one node may be without a value.
LEMMA AtWork ==
  ASSUME Inv, pc \in {"insert", "repair"}
  PROVE  /\ it \in [node : DOMAIN tree.node, position : Nat] /\ waiting = <<>>
         /\ it.node \in DOMAIN tree.node /\ it.position \in Nat /\ it = It(it.node, it.position)
         /\ Repairing(tree, level, it.node) /\ Shape(tree, level)
<1>1. /\ it \in [node : DOMAIN tree.node, position : Nat] /\ waiting = <<>> /\ NoneLeftEmpty
      /\ tree.root # NoNode => Shape(tree, level)
      /\ tree.root = NoNode => DOMAIN tree.node = {}
  BY InvGives
<1>2. Shape(tree, level)
  BY <1>1
<1>3. \A m \in DOMAIN tree.node \ {it.node} : NodeCount(tree, m) >= 1
  <2>1. Unsettled = {it.node}
    BY DEF Unsettled
  <2> QED
    BY <1>1, <2>1 DEF NoneLeftEmpty
<1> QED
  BY <1>1, <1>2, <1>3 DEF Repairing, It

LEMMA InsertKeeps ==
  ASSUME Inv, NEW e \in Entry, Insert(e)
  PROVE  Inv'
<1> DEFINE n == it.node
           p == it.position
<1>1. /\ pc = "insert" /\ tree' = InsertValue(tree, n, p, e)
      /\ pc' = "idle" /\ waiting' = waiting /\ level' = level
  BY DEF Insert
<1>2. /\ n \in DOMAIN tree.node /\ p \in Nat /\ waiting = <<>> /\ Shape(tree, level)
      /\ \A m \in DOMAIN tree.node \ {n} : NodeCount(tree, m) >= 1
  BY <1>1, AtWork DEF Repairing
<1>3. ~Full(tree, n) /\ Leaf(tree, n) /\ p <= NodeCount(tree, n)
  BY <1>1, InvGives DEF Ready
<1> HIDE DEF n, p
<1>4. /\ Shape(tree', level) /\ DOMAIN tree'.node = DOMAIN tree.node
      /\ \A m \in DOMAIN tree.node :
           NodeCount(tree', m) = IF m = n THEN NodeCount(tree, n) + 1 ELSE NodeCount(tree, m)
  BY <1>1, <1>2, <1>3, InsertValueInLeaf
<1>5. NodeCount(tree, n) \in Nat
  BY <1>2, NodeFacts DEF Shape
<1>6. NoneEmpty(tree')
  BY <1>2, <1>4, <1>5 DEF NoneEmpty
<1> QED
  BY <1>1, <1>2, <1>4, <1>6, Settled

LEMMA EraseKeeps ==
  ASSUME Inv, NEW n, NEW p, Erase(n, p)
  PROVE  Inv'
<1> DEFINE t == Uncounted(tree)
<1>1. /\ pc = "idle" /\ n \in DOMAIN tree.node /\ Leaf(tree, n) /\ p \in 0..NodeCount(tree, n)
      /\ p < NodeCount(tree, n) /\ tree' = RemoveValue(t, n, p) /\ it' = It(n, p)
      /\ pc' = "repair" /\ waiting' = waiting /\ level' = level
  BY DEF Erase, InLeaf
<1>2. Shape(tree, level) /\ NoneEmpty(tree) /\ waiting = <<>>
  BY <1>1, Idle
<1>3. SameNodes(tree, t) /\ Shape(t, level)
  BY <1>2, CountingKeepsShape
<1> HIDE DEF t
<1>4. /\ Leaf(t, n) = Leaf(tree, n) /\ \A m : NodeCount(t, m) = NodeCount(tree, m)
      /\ DOMAIN t.node = DOMAIN tree.node
  BY <1>3, SameNodesFacts DEF SameNodes
<1>5. p \in Nat
  <2>1. NodeCount(tree, n) \in Nat
    BY <1>1, <1>2, NodeFacts DEF Shape
  <2> QED
    BY <1>1, <2>1
<1>6. /\ Shape(tree', level) /\ DOMAIN tree'.node = DOMAIN tree.node
      /\ \A m \in DOMAIN t.node \ {n} : NodeCount(tree', m) = NodeCount(t, m)
  <2>1. n \in DOMAIN t.node /\ Leaf(t, n) /\ p < NodeCount(t, n)
    BY <1>1, <1>4
  <2>2. QED
    <3> DEFINE v == RemoveValue(t, n, p)
    <3>1. /\ Shape(v, level) /\ DOMAIN v.node = DOMAIN t.node
          /\ \A m \in DOMAIN t.node \ {n} : NodeCount(v, m) = NodeCount(t, m)
      BY <1>3, <1>5, <2>1, RemoveValueFromLeaf
    <3>2. tree' = v
      BY <1>1
    <3> HIDE DEF v
    <3> QED
      BY <1>4, <3>1, <3>2
<1>7. \A m \in DOMAIN tree'.node \ {n} : NodeCount(tree', m) >= 1
  BY <1>2, <1>4, <1>6 DEF NoneEmpty
<1>8. it'.node = n /\ it' \in [node : DOMAIN tree'.node, position : Nat]
  BY <1>1, <1>5, <1>6 DEF It
<1> QED
  BY <1>1, <1>2, <1>6, <1>7, <1>8, Settled

LEMMA NotBelowMinimum ==
  ASSUME NEW t, NEW lev, NEW n, Repairing(t, lev, n), ~BelowMinimum(t, n)
  PROVE  NoneEmpty(t)
<1>1. NodeCount(t, n) \in Nat /\ kNodeValues \in Nat /\ kNodeValues >= 3
  BY NodeFacts DEF Repairing, Shape
<1>2. NodeCount(t, n) >= 1
  BY <1>1 DEF BelowMinimum
<1> QED
  BY <1>2 DEF Repairing, NoneEmpty

LEMMA LeaveAsIsKeeps == Inv /\ LeaveAsIs => Inv'
<1> SUFFICES ASSUME Inv, LeaveAsIs PROVE Inv'
  OBVIOUS
<1>1. /\ pc = "repair" /\ ~BelowMinimum(tree, it.node) /\ pc' = "idle"
      /\ tree' = tree /\ waiting' = waiting /\ level' = level
  BY DEF LeaveAsIs, Done
<1>2. Repairing(tree, level, it.node) /\ Shape(tree, level) /\ waiting = <<>>
  BY <1>1, AtWork
<1>3. NoneEmpty(tree)
  BY <1>1, <1>2, NotBelowMinimum
<1>4. Shape(tree', level') /\ NoneEmpty(tree')
  BY <1>1, <1>2, <1>3
<1> QED
  BY <1>1, <1>2, <1>4, Settled

LEMMA MergeOrRebalanceKeeps == Inv /\ MergeOrRebalance => Inv'
<1> SUFFICES ASSUME Inv, MergeOrRebalance PROVE Inv'
  OBVIOUS
<1> DEFINE s == TryMergeOrRebalance(tree, it)
<1>1. /\ pc = "repair" /\ it.node # tree.root /\ BelowMinimum(tree, it.node)
      /\ tree' = s.t /\ level' = [m \in DOMAIN tree'.node |-> level[m]] /\ waiting' = waiting
      /\ s.merged => it' = It(Parent(s.t, s.it.node), s.it.position) /\ pc' = pc
      /\ ~s.merged => pc' = "idle"
  BY DEF MergeOrRebalance, Done
<1>2. /\ Repairing(tree, level, it.node) /\ waiting = <<>> /\ it = It(it.node, it.position)
      /\ it.position \in Nat
  BY <1>1, AtWork
<1>3. Repaired(s, level)
  <2>1. Repaired(TryMergeOrRebalance(tree, It(it.node, it.position)), level)
    BY <1>1, <1>2, TryRepairs
  <2> QED
    BY <1>2, <2>1
<1> HIDE DEF s
<1>4. level' = LevelsLeft(s.t, level)
  BY <1>1 DEF LevelsLeft
<1>5. /\ Shape(tree', level') /\ s.merged \in BOOLEAN
      /\ ~s.merged => NoneEmpty(tree')
      /\ s.merged => Repairing(tree', level', it'.node) /\ it'.position \in Nat
                     /\ it' \in [node : DOMAIN tree'.node, position : Nat]
  BY <1>1, <1>3, <1>4 DEF Repaired, Repairing, It
<1>6. CASE s.merged
  BY <1>1, <1>2, <1>5, <1>6, Settled DEF Repairing
<1>7. CASE ~s.merged
  BY <1>1, <1>2, <1>5, <1>7, Settled
<1> QED
  BY <1>6, <1>7

LEMMA TreeGone ==
  ASSUME Gone(tree'), waiting' = <<>>, pc' = "idle"
  PROVE  Inv'
<1>1. /\ Tree(tree') /\ DOMAIN tree'.node = {} /\ tree'.root = NoNode /\ tree'.asserts
  BY DEF Gone
<1>2. IsFiniteSet(DOMAIN tree'.node) /\ NoNode \notin DOMAIN tree'.node
  BY <1>1, FS_EmptySet
<1>3. TypeOK'
  <2>1. waiting' \in Seq([node : DOMAIN tree'.node, position : Nat])
    OBVIOUS
  <2> QED
    BY <1>1, <1>2, <2>1 DEF TypeOK
<1>4. AssertsHold' /\ NodesAttached' /\ Balanced' /\ NodesSized' /\ EdgesKnown'
  BY <1>1 DEF AssertsHold, NodesAttached, Balanced, NodesSized, EdgesKnown, Attached, Linked, Sized
<1>5. NoneLeftEmpty'
  BY <1>1 DEF NoneLeftEmpty
<1>6. CallsAreAPath'
  <2>1. DOMAIN waiting' = {}
    OBVIOUS
  <2> QED
    BY <2>1 DEF CallsAreAPath
<1> QED
  BY <1>3, <1>4, <1>5, <1>6 DEF Inv

LEMMA ShrinkKeeps == Inv /\ Shrink => Inv'
<1> SUFFICES ASSUME Inv, Shrink PROVE Inv'
  OBVIOUS
<1>1. /\ pc = "repair" /\ it.node = tree.root /\ tree' = TryShrink(tree)
      /\ level' = IF tree' = tree THEN level
                  ELSE [m \in DOMAIN tree'.node |->
                          IF m = tree'.root THEN level[tree.root] - 1 ELSE level[m]]
      /\ pc' = "idle" /\ waiting' = waiting
  BY DEF Shrink, Done
<1>2. Repairing(tree, level, tree.root) /\ Shape(tree, level) /\ waiting = <<>>
  BY <1>1, AtWork
<1>3. \/ tree' = tree /\ NoneEmpty(tree)
      \/ Gone(tree')
      \/ Shape(tree', LevelsLower(tree', tree, level)) /\ NoneEmpty(tree')
  BY <1>1, <1>2, ShrinkKeepsShape
<1>4. waiting' = <<>>
  BY <1>1, <1>2
<1>5. CASE tree' = tree /\ NoneEmpty(tree)
  <2>1. Shape(tree', level') /\ NoneEmpty(tree')
    BY <1>1, <1>2, <1>5
  <2> QED
    BY <1>1, <1>4, <2>1, Settled
<1>6. CASE Gone(tree')
  BY <1>1, <1>4, <1>6, TreeGone
<1>7. CASE Shape(tree', LevelsLower(tree', tree, level)) /\ NoneEmpty(tree') /\ tree' # tree
  <2>1. level' = LevelsLower(tree', tree, level)
    BY <1>1, <1>7 DEF LevelsLower
  <2>2. Shape(tree', level') /\ NoneEmpty(tree')
    BY <1>7, <2>1
  <2> QED
    BY <1>1, <1>4, <2>2, Settled
<1>8. CASE NoneEmpty(tree') /\ tree' = tree
  BY <1>5, <1>8
<1> QED
  BY <1>3, <1>5, <1>6, <1>7, <1>8

-------------------------------------------------------------------------------
LEMMA InvInductive == Inv /\ [Next]_vars => Inv'
<1> SUFFICES ASSUME Inv, [Next]_vars PROVE Inv'
  OBVIOUS
<1>1. CASE InsertIntoEmpty
  BY <1>1, InsertIntoEmptyKeeps
<1>2. ASSUME NEW n, NEW p, InsertWhereRoom(n, p) \/ InsertIntoGrown(n, p) \/ InsertIntoFull(n, p)
      PROVE  Inv'
  BY <1>2, InsertWhereRoomKeeps, InsertIntoGrownKeeps, InsertIntoFullKeeps
<1>3. CASE MoveLeft \/ MoveRight
  BY <1>3, MoveLeftKeeps, MoveRightKeeps
<1>4. CASE CallForParent \/ ParentHasRoom
  BY <1>4, CallForParentKeeps, ParentHasRoomKeeps
<1>5. CASE SplitUnderParent \/ RaiseAndSplit
  BY <1>5, SplitUnderParentKeeps, RaiseAndSplitKeeps
<1>6. ASSUME NEW e \in Entry, Insert(e)
      PROVE  Inv'
  BY <1>6, InsertKeeps
<1>7. ASSUME NEW n, NEW p, Erase(n, p)
      PROVE  Inv'
  BY <1>7, EraseKeeps
<1>8. CASE Shrink \/ LeaveAsIs \/ MergeOrRebalance
  BY <1>8, ShrinkKeeps, LeaveAsIsKeeps, MergeOrRebalanceKeeps
<1>9. CASE UNCHANGED vars
  BY <1>9 DEF vars, Inv, TypeOK, AssertsHold, NodesAttached, Balanced, NodesSized, EdgesKnown,
     NoneLeftEmpty, Unsettled, CallsAreAPath, Call
<1> QED
  BY <1>1, <1>2, <1>3, <1>4, <1>5, <1>6, <1>7, <1>8, <1>9 DEF Next, InsertSteps, EraseSteps

\* The parts of Inv hold together, and only together, from one step to the next: the
\* levels say where the calls under way are, the places of the nodes what a split or
\* a merge moves, and the sizes that it has room.
THEOREM Invariance == Spec => []Inv
<1>1. Init => Inv
  BY InitHolds
<1>2. Inv /\ [Next]_vars => Inv'
  BY InvInductive
<1> QED
  BY <1>1, <1>2, PTL DEF Spec

\* Whatever is inserted and erased, and wherever, the tree is a record of nodes
\* and the calls of rebalance_or_split under way have iterators.
THEOREM StepsTyped == Spec => []TypeOK
<1>1. Inv => TypeOK
  BY DEF Inv
<1> QED
  BY <1>1, Invariance, PTL

\* No assert() in the code of an insertion or an erasure ever fails, in a tree of
\* any height and with nodes of any width (btree.tcc:630-827).
THEOREM NoAssertFails == Spec => []AssertsHold
<1>1. Inv => AssertsHold
  BY DEF Inv
<1> QED
  BY <1>1, Invariance, PTL

\* Between any two steps every node is where its parent has it, and a tree without
\* a root has no node: none is lost on the way (btree.tcc:630-827).
THEOREM NodesStayAttached == Spec => []NodesAttached
<1>1. Inv => NodesAttached
  BY DEF Inv
<1> QED
  BY <1>1, Invariance, PTL

\* All leaves are on one level between any two steps (btree.tcc:630-827).
THEOREM LeavesOnOneLevel == Spec => []Balanced
<1>1. Inv => Balanced
  BY DEF Inv
<1> QED
  BY <1>1, Invariance, PTL

\* No node holds more values than it was allocated for, and only a root that is a
\* leaf is allocated for fewer than kNodeValues (btree.tcc:701, 711, 721, 728, 855).
THEOREM NodesNeverOverfull == Spec => []NodesSized
<1>1. Inv => NodesSized
  BY DEF Inv
<1> QED
  BY <1>1, Invariance, PTL

\* leftmost() and rightmost() are the first and the last leaf between any two steps
\* (btree.tcc:697-714, 723-725, 741-744, 806-824).
THEOREM EdgesStayKnown == Spec => []EdgesKnown
<1>1. Inv => EdgesKnown
  BY DEF Inv
<1> QED
  BY <1>1, Invariance, PTL

\* Neither an insertion nor an erasure leaves a node without a value behind
\* (btree.tcc:533-553, 630-736, 752-798).
THEOREM NoNodeLeftEmpty == Spec => []NoneLeftEmpty
<1>1. Inv => NoneLeftEmpty
  BY DEF Inv
<1> QED
  BY <1>1, Invariance, PTL

\* The calls of rebalance_or_split under way are for full nodes, each the parent of
\* the one before; when one returns, the node split next has a parent with room, and
\* the leaf has room for the value at last (btree.tcc:689-694, 732-735, 861).
THEOREM CallsRunUpThePath == Spec => []CallsAreAPath
<1>1. Inv => CallsAreAPath
  BY DEF Inv
<1> QED
  BY <1>1, Invariance, PTL
===============================================================================
