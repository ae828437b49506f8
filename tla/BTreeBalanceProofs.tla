-------------------------- MODULE BTreeBalanceProofs --------------------------
(***************************************************************************)
(* What moving values between siblings, splitting, raising the root,       *)
(* merging, taking values and shrinking the root do to a tree in order,    *)
(* for every width of node, every height of tree and every set of keys.    *)
(* BTreeStepsProofs puts them together.                                    *)
(***************************************************************************)
EXTENDS BTreeSteps, BTreeMethodsProofs

-------------------------------------------------------------------------------
\* A tree in order, of which nothing is said of how many values a node must have.

InOrder(t) ==
  /\ Tree(t) /\ IsFiniteSet(DOMAIN t.node) /\ NoNode \notin DOMAIN t.node
  /\ t.root \in DOMAIN t.node /\ t.asserts
  /\ Attached(t) /\ Sized(t)

Shape(t, lev) == InOrder(t) /\ Graded(t, lev) /\ Edged(t)

LEMMA NodeFacts ==
  ASSUME NEW t, NEW lev, InOrder(t), Graded(t, lev), NEW n \in DOMAIN t.node
  PROVE  /\ Tree(t) /\ Linked(t) /\ t.root \in DOMAIN t.node /\ n # NoNode
         /\ NodeCount(t, n) \in Nat /\ Position(t, n) \in Nat
         /\ Values(t, n) \in Seq(Entry) /\ Children(t, n) \in Seq(Nat)
         /\ Len(Children(t, n)) \in Nat
         /\ MaxCount(t, n) \in 1..kNodeValues /\ NodeCount(t, n) <= MaxCount(t, n)
         /\ MaxCount(t, n) = kNodeValues \/ (n = t.root /\ Leaf(t, n))
         /\ ChildPerGap(t, n)
         /\ lev[n] \in Nat /\ (Leaf(t, n) <=> lev[n] = 0)
         /\ kNodeValues \in Nat /\ kNodeValues >= 3
<1>1. Tree(t) /\ Linked(t) /\ t.root \in DOMAIN t.node /\ n # NoNode /\ ChildPerGap(t, n)
  BY DEF InOrder, Attached
<1>2. /\ NodeCount(t, n) \in Nat /\ Position(t, n) \in Nat
      /\ Values(t, n) \in Seq(Entry) /\ Children(t, n) \in Seq(Nat) /\ Len(Children(t, n)) \in Nat
  BY <1>1, NodeFields, LenProperties
<1>3. /\ MaxCount(t, n) \in 1..kNodeValues /\ NodeCount(t, n) <= MaxCount(t, n)
      /\ MaxCount(t, n) = kNodeValues \/ (n = t.root /\ Leaf(t, n))
  BY DEF InOrder, Sized
<1>4. lev[n] \in Nat /\ (Leaf(t, n) <=> lev[n] = 0)
  BY DEF Graded
<1> QED
  BY <1>1, <1>2, <1>3, <1>4, kNodeValuesAssumption

\* What is known of a node below the root and its parent.
LEMMA BelowRootFacts ==
  ASSUME NEW t, NEW lev, InOrder(t), Graded(t, lev), NEW n \in DOMAIN t.node, n # t.root
  PROVE  LET above == Parent(t, n)
             at == Position(t, n)
         IN /\ IsChild(t, n) /\ above \in DOMAIN t.node /\ above # n
            /\ ~Leaf(t, above) /\ Len(Children(t, above)) = NodeCount(t, above) + 1
            /\ at \in Nat /\ at \in 0..NodeCount(t, above) /\ NodeCount(t, above) \in Nat
            /\ Children(t, above)[at + 1] = n
            /\ MaxCount(t, n) = kNodeValues /\ MaxCount(t, above) = kNodeValues
            /\ lev[n] \in Nat /\ lev[above] = lev[n] + 1 /\ lev[n] < lev[t.root]
<1>1. IsChild(t, n) /\ Tree(t) /\ Linked(t)
  BY DEF InOrder, Attached
<1>2. LET above == Parent(t, n)
          at == Position(t, n)
      IN /\ above \in DOMAIN t.node /\ above # n
         /\ ~Leaf(t, above) /\ Len(Children(t, above)) = NodeCount(t, above) + 1
         /\ at \in Nat /\ at \in 0..NodeCount(t, above) /\ NodeCount(t, above) \in Nat
         /\ Children(t, above)[at + 1] = n
  BY <1>1, ChildApart
<1>3. MaxCount(t, n) = kNodeValues /\ MaxCount(t, Parent(t, n)) = kNodeValues
  BY <1>2 DEF InOrder, Sized
<1>4. lev[n] \in Nat /\ lev[Parent(t, n)] = lev[n] + 1 /\ lev[n] < lev[t.root]
  BY DEF Graded
<1> QED
  BY <1>1, <1>2, <1>3, <1>4

\* The i-th child (from 0) of an internal node.
LEMMA ChildFacts ==
  ASSUME NEW t, NEW lev, InOrder(t), Graded(t, lev), NEW p \in DOMAIN t.node,
         NEW i \in 0..NodeCount(t, p), ~Leaf(t, p)
  PROVE  LET c == Child(t, p, i)
         IN /\ c \in DOMAIN t.node /\ c # t.root /\ Parent(t, c) = p /\ Position(t, c) = i
            /\ lev[c] + 1 = lev[p]
<1> DEFINE c == Child(t, p, i)
<1>1. Linked(t) /\ Len(Children(t, p)) = NodeCount(t, p) + 1 /\ NodeCount(t, p) \in Nat
  BY NodeFacts DEF ChildPerGap
<1>2. i + 1 \in 1..Len(Children(t, p)) /\ c = Children(t, p)[i + 1]
  BY <1>1 DEF Child
<1>3. c \in DOMAIN t.node /\ c # t.root /\ Parent(t, c) = p /\ Position(t, c) = (i + 1) - 1
  BY <1>1, <1>2 DEF Linked, Links
<1>4. lev[c] + 1 = lev[p]
  BY <1>3 DEF Graded
<1> QED
  BY <1>3, <1>4

\* The siblings on either side of a node are its neighbours.
LEMMA LeftIsNeighbour ==
  ASSUME NEW t, NEW lev, InOrder(t), Graded(t, lev), NEW n \in DOMAIN t.node, n # t.root,
         HasLeft(t, n)
  PROVE  LET l == LeftSibling(t, n)
         IN /\ Neighbours(t, l, n) /\ l \in DOMAIN t.node /\ l # t.root /\ l # n
            /\ Parent(t, l) = Parent(t, n) /\ Position(t, l) + 1 = Position(t, n)
            /\ MaxCount(t, l) = kNodeValues
<1> DEFINE l == LeftSibling(t, n)
           above == Parent(t, n)
           at == Position(t, n)
<1>1. /\ IsChild(t, n) /\ above \in DOMAIN t.node /\ ~Leaf(t, above)
      /\ at \in Nat /\ at \in 0..NodeCount(t, above) /\ NodeCount(t, above) \in Nat
      /\ lev[above] = lev[n] + 1 /\ lev[n] \in Nat
  BY BelowRootFacts
<1>2. at - 1 \in 0..NodeCount(t, above) /\ at - 1 + 1 = at
  BY <1>1 DEF HasLeft
<1>3. /\ l \in DOMAIN t.node /\ l # t.root /\ Parent(t, l) = above /\ Position(t, l) = at - 1
      /\ lev[l] + 1 = lev[above]
  BY <1>1, <1>2, ChildFacts DEF LeftSibling
<1>4. IsChild(t, l) /\ MaxCount(t, l) = kNodeValues /\ lev[l] \in Nat
  BY <1>3, BelowRootFacts
<1>5. Leaf(t, l) = Leaf(t, n)
  <2>1. lev[l] = lev[n]
    BY <1>1, <1>3, <1>4
  <2>2. (Leaf(t, l) <=> lev[l] = 0) /\ (Leaf(t, n) <=> lev[n] = 0)
    BY <1>3 DEF Graded
  <2> QED
    BY <2>1, <2>2 DEF Leaf
<1>6. l # n
  BY <1>1, <1>3
<1> QED
  BY <1>1, <1>2, <1>3, <1>4, <1>5, <1>6 DEF Neighbours, Siblings

LEMMA RightIsNeighbour ==
  ASSUME NEW t, NEW lev, InOrder(t), Graded(t, lev), NEW n \in DOMAIN t.node, n # t.root,
         HasRight(t, n)
  PROVE  LET r == RightSibling(t, n)
         IN /\ Neighbours(t, n, r) /\ r \in DOMAIN t.node /\ r # t.root /\ r # n
            /\ Parent(t, r) = Parent(t, n) /\ Position(t, r) = Position(t, n) + 1
            /\ MaxCount(t, r) = kNodeValues
<1> DEFINE r == RightSibling(t, n)
           above == Parent(t, n)
           at == Position(t, n)
<1>1. /\ IsChild(t, n) /\ above \in DOMAIN t.node /\ ~Leaf(t, above)
      /\ at \in Nat /\ at \in 0..NodeCount(t, above) /\ NodeCount(t, above) \in Nat
      /\ lev[above] = lev[n] + 1 /\ lev[n] \in Nat
  BY BelowRootFacts
<1>2. at + 1 \in 0..NodeCount(t, above)
  BY <1>1 DEF HasRight
<1>3. /\ r \in DOMAIN t.node /\ r # t.root /\ Parent(t, r) = above /\ Position(t, r) = at + 1
      /\ lev[r] + 1 = lev[above]
  BY <1>1, <1>2, ChildFacts DEF RightSibling
<1>4. IsChild(t, r) /\ MaxCount(t, r) = kNodeValues /\ lev[r] \in Nat
  BY <1>3, BelowRootFacts
<1>5. Leaf(t, r) = Leaf(t, n)
  <2>1. lev[r] = lev[n]
    BY <1>1, <1>3, <1>4
  <2>2. (Leaf(t, r) <=> lev[r] = 0) /\ (Leaf(t, n) <=> lev[n] = 0)
    BY <1>3 DEF Graded
  <2> QED
    BY <2>1, <2>2 DEF Leaf
<1>6. r # n
  BY <1>1, <1>3
<1> QED
  BY <1>1, <1>3, <1>4, <1>5, <1>6 DEF Neighbours, Siblings

-------------------------------------------------------------------------------
\* Where a node is in the tree.

\* m is child i (from 0) of p.
Sits(t, m, p, i) ==
  p \in DOMAIN t.node /\ i \in 0..Len(Children(t, p)) - 1 /\ Children(t, p)[i + 1] = m

LEMMA SitsThere ==
  ASSUME NEW t, Tree(t), Linked(t), NEW m, NEW p, NEW i, Sits(t, m, p, i)
  PROVE  m \in DOMAIN t.node /\ m # t.root /\ Parent(t, m) = p /\ Position(t, m) = i
<1>1. p \in DOMAIN t.node /\ Len(Children(t, p)) \in Nat
  BY NodeFields, LenProperties DEF Sits
<1>2. i + 1 \in 1..Len(Children(t, p)) /\ Children(t, p)[i + 1] = m /\ (i + 1) - 1 = i
  BY <1>1 DEF Sits
<1> QED
  BY <1>1, <1>2 DEF Linked, Links

LEMMA SitsBelow ==
  ASSUME NEW t, NEW lev, InOrder(t), Graded(t, lev), NEW m \in DOMAIN t.node, m # t.root
  PROVE  Sits(t, m, Parent(t, m), Position(t, m))
  BY BelowRootFacts DEF Sits

\* A node that sits in a tree under a node of the level above is a child there.
LEMMA SitsIsChild ==
  ASSUME NEW t, Tree(t), Linked(t), NEW m, NEW p, NEW i, Sits(t, m, p, i), p # m,
         ChildPerGap(t, m), ChildPerGap(t, p)
  PROVE  IsChild(t, m)
<1>1. m \in DOMAIN t.node /\ Parent(t, m) = p /\ Position(t, m) = i
  BY SitsThere
<1>2. p \in DOMAIN t.node /\ i < Len(Children(t, p)) /\ Children(t, p)[i + 1] = m
  <2>1. p \in DOMAIN t.node /\ Len(Children(t, p)) \in Nat
    BY NodeFields, LenProperties DEF Sits
  <2> QED
    BY <2>1 DEF Sits
<1> QED
  BY <1>1, <1>2 DEF IsChild, Child

\* Two nodes have the children they had, in the order they had, perhaps
\* divided otherwise.
Regrouped(t, u, l, r) ==
  /\ Tree(t) /\ Linked(t) /\ Tree(u) /\ Linked(u)
  /\ l \in DOMAIN t.node /\ r \in DOMAIN t.node /\ l \in DOMAIN u.node /\ r \in DOMAIN u.node
  /\ Children(u, l) \o Children(u, r) = Children(t, l) \o Children(t, r)

LEMMA ConcatAt ==
  ASSUME NEW a \in Seq(Nat), NEW b \in Seq(Nat), NEW g \in Nat, g < Len(a) + Len(b)
  PROVE  /\ g < Len(a) => (a \o b)[g + 1] = a[g + 1] /\ g \in 0..Len(a) - 1
         /\ g >= Len(a) => (a \o b)[g + 1] = b[(g - Len(a)) + 1] /\ g - Len(a) \in 0..Len(b) - 1
<1>1. Len(a) \in Nat /\ Len(b) \in Nat
  BY LenProperties
<1>2. \A j \in 1..Len(a) + Len(b) : (a \o b)[j] = IF j <= Len(a) THEN a[j] ELSE b[j - Len(a)]
  BY ConcatProperties
<1>3. g + 1 \in 1..Len(a) + Len(b)
  BY <1>1
<1>4. (g + 1) - Len(a) = (g - Len(a)) + 1
  BY <1>1
<1> QED
  BY <1>1, <1>2, <1>3, <1>4

LEMMA ChildrenRegrouped ==
  ASSUME NEW t, NEW u, NEW l, NEW r, Regrouped(t, u, l, r),
         NEW m, NEW p \in {l, r}, NEW i, Sits(t, m, p, i)
  PROVE  LET g == IF p = l THEN i ELSE Len(Children(t, l)) + i
             some == Len(Children(u, l))
         IN /\ g \in Nat /\ some \in Nat
            /\ g < some => Sits(u, m, l, g) /\ Parent(u, m) = l /\ Position(u, m) = g
            /\ g >= some =>
                 Sits(u, m, r, g - some) /\ Parent(u, m) = r /\ Position(u, m) = g - some
<1> DEFINE a == Children(t, l)
           b == Children(t, r)
           c == Children(u, l)
           d == Children(u, r)
           g == IF p = l THEN i ELSE Len(a) + i
           some == Len(c)
<1>1. a \in Seq(Nat) /\ b \in Seq(Nat) /\ c \in Seq(Nat) /\ d \in Seq(Nat) /\ c \o d = a \o b
  BY NodeFields DEF Regrouped
<1>2. i \in 0..Len(Children(t, p)) - 1 /\ Children(t, p)[i + 1] = m
  BY DEF Sits
<1>3. l \in DOMAIN u.node /\ r \in DOMAIN u.node /\ Tree(u) /\ Linked(u)
  BY DEF Regrouped
<1>4. Len(a) \in Nat /\ Len(b) \in Nat /\ some \in Nat /\ Len(d) \in Nat
  BY <1>1, LenProperties
<1>5. some + Len(d) = Len(a) + Len(b)
  BY <1>1, ConcatProperties
<1>6. p = l => i \in 0..Len(a) - 1 /\ a[i + 1] = m
  BY <1>2
<1>7. p # l => i \in 0..Len(b) - 1 /\ b[i + 1] = m
  BY <1>2
<1> HIDE DEF a, b, c, d
<1>8. g \in Nat /\ g < Len(a) + Len(b)
  BY <1>4, <1>6, <1>7
<1>9. (a \o b)[g + 1] = m
  <2>1. CASE p = l
    <3>1. g = i /\ g < Len(a)
      BY <1>4, <1>6, <2>1
    <3> QED
      BY <1>1, <1>6, <1>8, <2>1, <3>1, ConcatAt
  <2>2. CASE p # l
    <3>1. g >= Len(a) /\ g - Len(a) = i
      BY <1>4, <1>7, <2>2
    <3> HIDE DEF g
    <3> QED
      BY <1>1, <1>7, <1>8, <2>2, <3>1, ConcatAt
  <2> QED
    BY <2>1, <2>2
<1> HIDE DEF g
<1>10. g < some + Len(d) /\ (c \o d)[g + 1] = m
  BY <1>1, <1>5, <1>8, <1>9
<1>11. /\ g < some => c[g + 1] = m /\ g \in 0..some - 1
       /\ g >= some => d[(g - some) + 1] = m /\ g - some \in 0..Len(d) - 1
  BY <1>1, <1>8, <1>10, ConcatAt
<1>12. g < some => Sits(u, m, l, g)
  BY <1>3, <1>11 DEF Sits, c
<1>13. g >= some => Sits(u, m, r, g - some)
  BY <1>3, <1>11 DEF Sits, d
<1> QED
  BY <1>3, <1>4, <1>8, <1>12, <1>13, SitsThere DEF g, a, c

-------------------------------------------------------------------------------
\* Moving values between siblings.

LEMMA RebalancedCounts ==
  ASSUME NEW t, NEW u, NEW lev, InOrder(t), Graded(t, lev),
         NEW l, NEW r, Neighbours(t, l, r), NEW k \in Int, Rebalanced(t, u, l, r, k)
  PROVE  /\ NodeCount(u, l) = NodeCount(t, l) + k /\ NodeCount(u, r) = NodeCount(t, r) - k
         /\ \A m \in DOMAIN t.node \ {l, r} : NodeCount(u, m) = NodeCount(t, m)
<1> DEFINE above == Parent(t, l)
           at == Position(t, l)
<1>1. /\ l \in DOMAIN t.node /\ r \in DOMAIN t.node /\ above \in DOMAIN t.node
      /\ above # l /\ above # r /\ Delimiter(t, l) \in Entry
      /\ at \in Nat /\ at + 1 \in 1..NodeCount(t, above)
  BY NeighboursApart DEF InOrder, Attached
<1>2. Tree(t) /\ Linked(t) /\ Tree(u) /\ Linked(u) /\ DOMAIN u.node = DOMAIN t.node
  BY DEF InOrder, Attached, Rebalanced, SameFrame
<1>3. NodeCount(u, l) = NodeCount(t, l) + k
  BY DEF Rebalanced
<1>4. NodeCount(u, r) = NodeCount(t, r) - k
  <2>1. Around(u, l, r) = Around(t, l, r) /\ Neighbours(u, l, r)
    BY DEF Rebalanced
  <2>2. Delimiter(u, l) \in Entry
    BY <1>2, <2>1, NeighboursApart
  <2>3. /\ Values(t, l) \in Seq(Entry) /\ Values(t, r) \in Seq(Entry)
        /\ Values(u, l) \in Seq(Entry) /\ Values(u, r) \in Seq(Entry)
        /\ NodeCount(t, l) \in Nat /\ NodeCount(t, r) \in Nat
        /\ NodeCount(u, l) \in Nat /\ NodeCount(u, r) \in Nat
    BY <1>1, <1>2, NodeFields
  <2>4. Len(Around(t, l, r)) = NodeCount(t, l) + 1 + NodeCount(t, r)
    <3>1. <<Delimiter(t, l)>> \in Seq(Entry) /\ Len(<<Delimiter(t, l)>>) = 1
      BY <1>1
    <3> QED
      BY <2>3, <3>1, Concat3 DEF Around, NodeCount
  <2>5. Len(Around(u, l, r)) = NodeCount(u, l) + 1 + NodeCount(u, r)
    <3>1. <<Delimiter(u, l)>> \in Seq(Entry) /\ Len(<<Delimiter(u, l)>>) = 1
      BY <2>2
    <3> QED
      BY <2>3, <3>1, Concat3 DEF Around, NodeCount
  <2> DEFINE left == NodeCount(t, l)
             right == NodeCount(t, r)
             leftAfter == NodeCount(u, l)
             rightAfter == NodeCount(u, r)
  <2>6. left + 1 + right = leftAfter + 1 + rightAfter /\ leftAfter = left + k
    BY <1>3, <2>1, <2>4, <2>5
  <2>7. left \in Nat /\ right \in Nat /\ leftAfter \in Nat /\ rightAfter \in Nat
    BY <2>3
  <2> HIDE DEF left, right, leftAfter, rightAfter
  <2>8. rightAfter = right - k
    BY ONLY <2>6, <2>7, k \in Int
  <2> QED
    BY <2>8 DEF right, rightAfter
<1>5. NodeCount(u, above) = NodeCount(t, above)
  <2>1. Values(u, above) = [Values(t, above) EXCEPT ![at + 1] = Delimiter(u, l)]
    BY DEF Rebalanced
  <2>2. Values(t, above) \in Seq(Entry) /\ Values(u, above) \in Seq(Entry)
    BY <1>1, <1>2, NodeFields
  <2>3. DOMAIN Values(u, above) = DOMAIN Values(t, above)
    BY <2>1, <2>2
  <2> QED
    BY <2>2, <2>3, LenProperties DEF NodeCount
<1>6. \A m \in DOMAIN t.node \ {l, r, above} : NodeCount(u, m) = NodeCount(t, m)
  BY DEF Rebalanced, SameElsewhere, NodeCount
<1> QED
  BY <1>3, <1>4, <1>5, <1>6

\* Only the children of l and r change places, and those only among the two.
Exchange(t, u, lev, l, r, k) ==
  /\ InOrder(t) /\ Graded(t, lev) /\ Neighbours(t, l, r)
  /\ k \in Int /\ Rebalanced(t, u, l, r, k)

LEMMA RebalancedPlaces ==
  ASSUME NEW t, NEW u, NEW lev, NEW l, NEW r, NEW k, Exchange(t, u, lev, l, r, k),
         NEW m \in DOMAIN t.node, m # t.root
  PROVE  /\ Parent(t, m) \notin {l, r} =>
              /\ Parent(u, m) = Parent(t, m) /\ Position(u, m) = Position(t, m)
         /\ Parent(t, m) \in {l, r} => Parent(u, m) \in {l, r}
         /\ Sits(u, m, Parent(u, m), Position(u, m))
         /\ lev[Parent(u, m)] = lev[m] + 1
<1> DEFINE p == Parent(t, m)
           i == Position(t, m)
<1>0. /\ InOrder(t) /\ Graded(t, lev) /\ Neighbours(t, l, r)
      /\ k \in Int /\ Rebalanced(t, u, l, r, k)
  BY DEF Exchange
<1>1. /\ l \in DOMAIN t.node /\ r \in DOMAIN t.node /\ Parent(t, r) = Parent(t, l)
      /\ l # t.root /\ r # t.root
  BY <1>0, NeighboursApart DEF InOrder, Attached
<1>2. Tree(t) /\ Linked(t) /\ Tree(u) /\ Linked(u) /\ DOMAIN u.node = DOMAIN t.node
  BY <1>0 DEF InOrder, Attached, Rebalanced, SameFrame
<1>3. Sits(t, m, p, i) /\ p \in DOMAIN t.node /\ lev[p] = lev[m] + 1
  BY <1>0, SitsBelow, BelowRootFacts
<1>4. lev[l] = lev[r]
  <2>1. lev[l] \in Nat /\ lev[r] \in Nat
    BY <1>0, <1>1, NodeFacts
  <2>2. lev[Parent(t, l)] = lev[l] + 1 /\ lev[Parent(t, l)] = lev[r] + 1
    BY <1>0, <1>1, BelowRootFacts
  <2> QED
    BY <2>1, <2>2
<1>5. CASE p \notin {l, r}
  <2>1. Children(u, p) = Children(t, p)
    BY <1>0, <1>3, <1>5 DEF Rebalanced, SameElsewhere
  <2>2. Sits(u, m, p, i)
    BY <1>2, <1>3, <2>1 DEF Sits
  <2>3. Parent(u, m) = p /\ Position(u, m) = i
    BY <1>2, <2>2, SitsThere
  <2> QED
    BY <1>3, <1>5, <2>2, <2>3
<1>6. CASE p \in {l, r}
  <2>1. Regrouped(t, u, l, r)
    BY <1>0, <1>1, <1>2 DEF Regrouped, Rebalanced
  <2> DEFINE g == IF p = l THEN i ELSE Len(Children(t, l)) + i
             some == Len(Children(u, l))
  <2>2. /\ g \in Nat /\ some \in Nat
        /\ g < some => Sits(u, m, l, g) /\ Parent(u, m) = l /\ Position(u, m) = g
        /\ g >= some => Sits(u, m, r, g - some) /\ Parent(u, m) = r /\ Position(u, m) = g - some
    <3> HIDE DEF p, i
    <3> QED
      BY <1>3, <1>6, <2>1, ChildrenRegrouped
  <2> HIDE DEF g, some
  <2>3. Parent(u, m) \in {l, r} /\ Sits(u, m, Parent(u, m), Position(u, m))
    BY <2>2
  <2> QED
    BY <1>3, <1>4, <1>6, <2>3
<1> QED
  BY <1>5, <1>6

\* Two siblings that exchange values, neither of them getting too many, leave a
\* tree in order.
LEMMA RebalancedInOrder ==
  ASSUME NEW t, NEW u, NEW lev, InOrder(t), Graded(t, lev),
         NEW l, NEW r, Neighbours(t, l, r), NEW k \in Int, Rebalanced(t, u, l, r, k),
         NodeCount(t, l) + k <= kNodeValues, NodeCount(t, r) - k <= kNodeValues
  PROVE  InOrder(u) /\ Graded(u, lev)
<1> DEFINE above == Parent(t, l)
<1>1. /\ l \in DOMAIN t.node /\ r \in DOMAIN t.node /\ above \in DOMAIN t.node
      /\ l # t.root /\ r # t.root
  BY NeighboursApart DEF InOrder, Attached
<1>2. /\ Tree(u) /\ Linked(u) /\ DOMAIN u.node = DOMAIN t.node /\ u.root = t.root
      /\ u.asserts = t.asserts
      /\ \A m \in DOMAIN t.node :
           u.node[m].fields = t.node[m].fields /\ MaxCount(u, m) = MaxCount(t, m)
  BY DEF Rebalanced, SameFrame
<1>3. \A m \in DOMAIN t.node : Leaf(u, m) = Leaf(t, m)
  BY <1>2 DEF Leaf
<1>4. /\ NodeCount(u, l) = NodeCount(t, l) + k /\ NodeCount(u, r) = NodeCount(t, r) - k
      /\ \A m \in DOMAIN t.node \ {l, r} : NodeCount(u, m) = NodeCount(t, m)
  BY RebalancedCounts
<1>5. \A m \in DOMAIN t.node : m # t.root =>
        /\ Sits(u, m, Parent(u, m), Position(u, m))
        /\ lev[Parent(u, m)] = lev[m] + 1 /\ lev[m] \in Nat /\ lev[m] < lev[t.root]
  BY RebalancedPlaces, BelowRootFacts DEF Exchange
<1>6. ASSUME NEW m \in DOMAIN t.node
      PROVE  ChildPerGap(u, m)
  <2>1. CASE m \in {l, r, above}
    BY <2>1 DEF Rebalanced, Neighbours, IsChild
  <2>2. CASE m \notin {l, r, above}
    <3>1. Children(u, m) = Children(t, m)
      BY <2>2 DEF Rebalanced, SameElsewhere
    <3>2. ChildPerGap(t, m)
      BY DEF InOrder, Attached
    <3> QED
      BY <1>3, <1>4, <2>2, <3>1, <3>2 DEF ChildPerGap
  <2> QED
    BY <2>1, <2>2
<1>7. ASSUME NEW m \in DOMAIN t.node, m # t.root
      PROVE  IsChild(u, m)
  <2> DEFINE p == Parent(u, m)
  <2>1. Sits(u, m, p, Position(u, m)) /\ p # m /\ p \in DOMAIN t.node
    BY <1>2, <1>5, <1>7 DEF Sits
  <2> HIDE DEF p
  <2> QED
    BY <1>2, <1>6, <2>1, SitsIsChild
<1>8. Attached(u)
  BY <1>2, <1>6, <1>7 DEF Attached
<1>9. Graded(u, lev)
  <2>1. DOMAIN lev = DOMAIN u.node
    BY <1>2 DEF Graded
  <2>2. \A n \in DOMAIN u.node : lev[n] \in Nat /\ (Leaf(u, n) <=> lev[n] = 0)
    BY <1>2, <1>3 DEF Graded
  <2> QED
    BY <1>2, <1>5, <2>1, <2>2 DEF Graded
<1>10. Sized(u)
  <2>1. MaxCount(t, l) = kNodeValues /\ MaxCount(t, r) = kNodeValues
    BY <1>1, BelowRootFacts
  <2>2. \A m \in DOMAIN t.node : NodeCount(u, m) <= MaxCount(u, m)
    BY <1>1, <1>2, <1>4, <2>1 DEF InOrder, Sized
  <2> QED
    BY <1>2, <1>3, <2>2 DEF InOrder, Sized
<1> QED
  BY <1>2, <1>8, <1>9, <1>10 DEF InOrder

\* The first and the last leaf stay so: what moves, moves between l's last and
\* r's first child.
LEMMA RebalancedEdged ==
  ASSUME NEW t, NEW u, NEW lev, Shape(t, lev),
         NEW l, NEW r, Neighbours(t, l, r), NEW k \in Int, Rebalanced(t, u, l, r, k),
         NodeCount(t, l) + k <= kNodeValues, NodeCount(t, r) - k <= kNodeValues
  PROVE  Edged(u)
<1> DEFINE above == Parent(t, l)
           at == Position(t, l)
<1>0. InOrder(t) /\ Graded(t, lev) /\ Edged(t) /\ InOrder(u) /\ Graded(u, lev)
  BY RebalancedInOrder DEF Shape
<1>1. /\ l \in DOMAIN t.node /\ r \in DOMAIN t.node /\ above \in DOMAIN t.node
      /\ l # t.root /\ r # t.root /\ l # r
      /\ Parent(t, r) = above /\ Position(t, r) = at + 1
      /\ at \in Nat /\ at + 1 \in 1..NodeCount(t, above)
      /\ above # l /\ above # r
  BY <1>0, NeighboursApart DEF InOrder, Attached
<1>2. /\ DOMAIN u.node = DOMAIN t.node /\ u.root = t.root /\ u.rightmost = t.rightmost
      /\ Leftmost(u) = Leftmost(t)
      /\ \A m \in DOMAIN t.node : Leaf(u, m) = Leaf(t, m)
  BY DEF Rebalanced, SameFrame, Leaf
<1>3. Rightmost(u) = Rightmost(t)
  BY <1>0, <1>2 DEF Rightmost, InOrder
<1>4. \A m \in DOMAIN t.node \ {l, r} : NodeCount(u, m) = NodeCount(t, m)
  BY <1>0, RebalancedCounts
<1>5. ASSUME NEW m \in DOMAIN t.node, m # t.root
      PROVE  /\ Parent(t, m) \notin {l, r} =>
                   Parent(u, m) = Parent(t, m) /\ Position(u, m) = Position(t, m)
             /\ Sits(t, m, Parent(t, m), Position(t, m)) /\ Position(t, m) \in Nat
  <2>1. Parent(t, m) \notin {l, r} =>
          Parent(u, m) = Parent(t, m) /\ Position(u, m) = Position(t, m)
    BY <1>0, <1>5, RebalancedPlaces DEF Exchange
  <2>2. Sits(t, m, Parent(t, m), Position(t, m))
    BY <1>0, <1>5, SitsBelow
  <2>3. Position(t, m) \in Nat
    BY <1>0, <1>5, NodeFacts
  <2> QED
    BY <2>1, <2>2, <2>3
<1>6. Regrouped(t, u, l, r)
  BY <1>0, <1>1, <1>2 DEF Regrouped, Rebalanced, InOrder, Attached
<1>7. \A n \in {l, r} : ~Leaf(t, n) =>
        /\ Len(Children(u, n)) = NodeCount(u, n) + 1
        /\ Len(Children(t, n)) = NodeCount(t, n) + 1
        /\ NodeCount(u, n) \in Nat /\ NodeCount(t, n) \in Nat
  BY <1>0, <1>1, <1>2, NodeFacts, ZenonT(30) DEF ChildPerGap
<1>8. ASSUME NEW m \in DOMAIN t.node, m # t.root, Parent(t, m) = l, Position(t, m) = 0
      PROVE  Parent(u, m) = l /\ Position(u, m) = 0
  <2>1. ~Leaf(t, l) /\ Sits(t, m, l, 0)
    BY <1>0, <1>5, <1>8, BelowRootFacts
  <2>2. /\ 0 < Len(Children(u, l)) => Parent(u, m) = l /\ Position(u, m) = 0
    BY <1>6, <2>1, ChildrenRegrouped
  <2> QED
    BY <1>7, <2>1, <2>2
<1>9. ASSUME NEW m \in DOMAIN t.node, m # t.root, Parent(t, m) = r,
             Position(t, m) = NodeCount(t, r)
      PROVE  Parent(u, m) = r /\ Position(u, m) = NodeCount(u, r)
  <2> DEFINE g == Len(Children(t, l)) + NodeCount(t, r)
             some == Len(Children(u, l))
  <2>1. ~Leaf(t, r) /\ ~Leaf(t, l) /\ Sits(t, m, r, NodeCount(t, r))
    BY <1>0, <1>5, <1>9, BelowRootFacts DEF Neighbours
  <2>2. g >= some => Parent(u, m) = r /\ Position(u, m) = g - some
    BY <1>1, <1>6, <2>1, ChildrenRegrouped
  <2>3. NodeCount(u, l) + NodeCount(u, r) = NodeCount(t, l) + NodeCount(t, r)
    <3>1. NodeCount(u, l) = NodeCount(t, l) + k /\ NodeCount(u, r) = NodeCount(t, r) - k
      BY <1>0, RebalancedCounts
    <3>2. NodeCount(t, l) \in Nat /\ NodeCount(t, r) \in Nat
      BY <1>0, <1>1, NodeFacts
    <3> QED
      BY <3>1, <3>2
  <2>4. g >= some /\ g - some = NodeCount(u, r)
    <3>1. /\ Len(Children(u, l)) = NodeCount(u, l) + 1
          /\ Len(Children(t, l)) = NodeCount(t, l) + 1
          /\ NodeCount(u, l) \in Nat /\ NodeCount(t, l) \in Nat
      BY <1>7, <2>1
    <3>2. NodeCount(u, r) \in Nat /\ NodeCount(t, r) \in Nat
      BY <1>7, <2>1
    <3> HIDE DEF NodeCount
    <3> QED
      BY <2>3, <3>1, <3>2, SMTT(30)
  <2> QED
    BY <2>2, <2>4
<1>10. AtEdge(u, Leftmost(u), FirstChildren(u))
  <2>1. PICK E \in SUBSET FirstChildren(t) :
          /\ Leftmost(t) \in E /\ Leaf(t, Leftmost(t))
          /\ \A n \in E : n # t.root => Parent(t, n) \in E
    BY <1>0 DEF Edged, AtEdge
  <2>2. r \notin E
    BY <1>1, <2>1 DEF FirstChildren
  <2>3. ASSUME NEW n \in E, n # t.root
        PROVE  n \in DOMAIN t.node /\ Parent(u, n) = Parent(t, n) /\ Position(u, n) = 0
    <3>1. n \in DOMAIN t.node /\ Position(t, n) = 0 /\ Parent(t, n) # r
      BY <2>1, <2>2, <2>3 DEF FirstChildren
    <3> QED
      BY <1>5, <1>8, <2>3, <3>1
  <2>4. E \in SUBSET FirstChildren(u)
    BY <1>2, <2>1, <2>3 DEF FirstChildren
  <2>5. Leftmost(u) \in E /\ Leaf(u, Leftmost(u))
    BY <1>2, <2>1 DEF FirstChildren
  <2>6. \A n \in E : n # u.root => Parent(u, n) \in E
    BY <1>2, <2>1, <2>3
  <2> QED
    BY <2>4, <2>5, <2>6 DEF AtEdge
<1>11. AtEdge(u, Rightmost(u), LastChildren(u))
  <2>1. PICK E \in SUBSET LastChildren(t) :
          /\ Rightmost(t) \in E /\ Leaf(t, Rightmost(t))
          /\ \A n \in E : n # t.root => Parent(t, n) \in E
    BY <1>0 DEF Edged, AtEdge
  <2>2. l \notin E
    <3>1. NodeCount(t, above) \in Nat
      BY <1>0, <1>1, NodeFacts
    <3>2. Position(t, r) = NodeCount(t, above) \/ Position(t, l) # NodeCount(t, above)
      BY <1>1, <3>1
    <3>3. Position(t, r) \in 0..NodeCount(t, above)
      BY <1>0, <1>1, BelowRootFacts
    <3> QED
      BY <1>1, <2>1, <3>1, <3>3 DEF LastChildren
  <2>3. ASSUME NEW n \in E, n # t.root
        PROVE  /\ n \in DOMAIN t.node /\ Parent(u, n) = Parent(t, n)
               /\ Position(u, n) = NodeCount(u, Parent(u, n))
    <3>1. n \in DOMAIN t.node /\ Position(t, n) = NodeCount(t, Parent(t, n)) /\ Parent(t, n) # l
      BY <2>1, <2>2, <2>3 DEF LastChildren
    <3>2. Parent(t, n) \in DOMAIN t.node
      BY <1>0, <2>3, <3>1, BelowRootFacts
    <3> QED
      BY <1>4, <1>5, <1>9, <2>3, <3>1, <3>2
  <2>4. E \in SUBSET LastChildren(u)
    BY <1>2, <2>1, <2>3 DEF LastChildren
  <2>5. Rightmost(u) \in E /\ Leaf(u, Rightmost(u))
    BY <1>2, <1>3, <2>1 DEF LastChildren
  <2>6. \A n \in E : n # u.root => Parent(u, n) \in E
    BY <1>2, <2>1, <2>3
  <2> QED
    BY <2>4, <2>5, <2>6 DEF AtEdge
<1> QED
  BY <1>10, <1>11 DEF Edged

LEMMA RebalancedShape ==
  ASSUME NEW t, NEW u, NEW lev, Shape(t, lev),
         NEW l, NEW r, Neighbours(t, l, r), NEW k \in Int, Rebalanced(t, u, l, r, k),
         NodeCount(t, l) + k <= kNodeValues, NodeCount(t, r) - k <= kNodeValues
  PROVE  Shape(u, lev)
  BY RebalancedInOrder, RebalancedEdged DEF Shape

-------------------------------------------------------------------------------
\* Making room in a full node.

\* A call of rebalance_or_split for n has turned t into u: at, on n's level, has
\* room and is where what was at p is now; below n nothing has changed; and no
\* other node than at's is empty.
BelowKept(t, u, lev, new, n) ==
  \A m \in DOMAIN t.node : lev[m] < lev[n] =>
    /\ m \in DOMAIN u.node /\ m # u.root /\ new[m] = lev[m]
    /\ NodeCount(u, m) = NodeCount(t, m) /\ MaxCount(u, m) = MaxCount(t, m)
    /\ lev[Parent(t, m)] < lev[n] =>
         Parent(u, m) = Parent(t, m) /\ Position(u, m) = Position(t, m)

RoomMade(t, u, lev, new, n, p, at) ==
  /\ Shape(u, new)
  /\ at \in [node : DOMAIN u.node, position : Nat]
  /\ at.position <= NodeCount(u, at.node) /\ ~Full(u, at.node) /\ new[at.node] = lev[n]
  /\ \A c : Sits(t, c, n, p) => Parent(u, c) = at.node
  /\ BelowKept(t, u, lev, new, n)
  /\ \A m \in DOMAIN u.node \ {at.node} : NodeCount(u, m) >= 1

NoneEmpty(t) == \A m \in DOMAIN t.node : NodeCount(t, m) >= 1

LEMMA ExchangeKeepsBelow ==
  ASSUME NEW t, NEW u, NEW lev, NEW l, NEW r, NEW k, Exchange(t, u, lev, l, r, k),
         NEW n \in {l, r}
  PROVE  BelowKept(t, u, lev, lev, n)
<1> SUFFICES ASSUME NEW m \in DOMAIN t.node, lev[m] < lev[n]
             PROVE  /\ m \in DOMAIN u.node /\ m # u.root
                    /\ NodeCount(u, m) = NodeCount(t, m) /\ MaxCount(u, m) = MaxCount(t, m)
                    /\ lev[Parent(t, m)] < lev[n] =>
                         Parent(u, m) = Parent(t, m) /\ Position(u, m) = Position(t, m)
  BY DEF BelowKept
<1>0. InOrder(t) /\ Graded(t, lev) /\ Neighbours(t, l, r) /\ k \in Int /\ Rebalanced(t, u, l, r, k)
  BY DEF Exchange
<1>1. /\ l \in DOMAIN t.node /\ r \in DOMAIN t.node /\ Parent(t, r) = Parent(t, l)
      /\ l # t.root /\ r # t.root
  BY <1>0, NeighboursApart DEF InOrder, Attached
<1>2. lev[l] \in Nat /\ lev[r] \in Nat /\ lev[m] \in Nat /\ lev[t.root] \in Nat
  BY <1>0, <1>1, NodeFacts
<1>3. /\ lev[Parent(t, l)] = lev[l] + 1 /\ lev[Parent(t, l)] = lev[r] + 1
      /\ lev[l] < lev[t.root] /\ lev[r] < lev[t.root]
  BY <1>0, <1>1, BelowRootFacts
<1>4. lev[l] = lev[r]
  BY <1>2, <1>3
<1>5. m # l /\ m # r /\ m # t.root /\ lev[m] < lev[l]
  BY <1>2, <1>3, <1>4
<1>6. DOMAIN u.node = DOMAIN t.node /\ u.root = t.root /\ MaxCount(u, m) = MaxCount(t, m)
  BY <1>0 DEF Rebalanced, SameFrame
<1>7. NodeCount(u, m) = NodeCount(t, m)
  BY <1>0, <1>5, RebalancedCounts
<1>8. ASSUME lev[Parent(t, m)] < lev[n]
      PROVE  Parent(u, m) = Parent(t, m) /\ Position(u, m) = Position(t, m)
  <2>1. Parent(t, m) \notin {l, r}
    BY <1>2, <1>4, <1>8
  <2> QED
    BY <1>5, <2>1, RebalancedPlaces
<1> QED
  BY <1>5, <1>6, <1>7, <1>8

\* Where an iterator in l or r is after the exchange.
Lands(t, u, l, r, n, p) ==
  LET g == IF n = l THEN p ELSE NodeCount(t, l) + 1 + p
  IN IF g <= NodeCount(u, l) THEN It(l, g) ELSE It(r, g - NodeCount(u, l) - 1)

LEMMA ExchangeLands ==
  ASSUME NEW t, NEW u, NEW lev, NEW l, NEW r, NEW k, Exchange(t, u, lev, l, r, k),
         InOrder(u), Graded(u, lev),
         NEW n \in {l, r}, NEW p \in 0..NodeCount(t, n), NEW at, at = Lands(t, u, l, r, n, p)
  PROVE  /\ at \in [node : DOMAIN u.node, position : Nat]
         /\ at.position <= NodeCount(u, at.node) /\ at.node \in {l, r} /\ lev[at.node] = lev[n]
         /\ \A c : Sits(t, c, n, p) => Parent(u, c) = at.node
<1>0. InOrder(t) /\ Graded(t, lev) /\ Neighbours(t, l, r) /\ k \in Int /\ Rebalanced(t, u, l, r, k)
  BY DEF Exchange
<1> DEFINE g == IF n = l THEN p ELSE NodeCount(t, l) + 1 + p
<1>1. /\ l \in DOMAIN t.node /\ r \in DOMAIN t.node /\ Parent(t, r) = Parent(t, l)
      /\ l # t.root /\ r # t.root /\ DOMAIN u.node = DOMAIN t.node /\ l # r
  BY <1>0, NeighboursApart DEF InOrder, Attached, Rebalanced, SameFrame
<1>2. lev[l] \in Nat /\ lev[r] \in Nat
  BY <1>0, <1>1, NodeFacts
<1>3. lev[Parent(t, l)] = lev[l] + 1 /\ lev[Parent(t, l)] = lev[r] + 1
  BY <1>0, <1>1, BelowRootFacts
<1>4. lev[l] = lev[r]
  BY <1>2, <1>3
<1>5. /\ NodeCount(t, l) \in Nat /\ NodeCount(t, r) \in Nat
      /\ NodeCount(u, l) \in Nat /\ NodeCount(u, r) \in Nat
  BY <1>0, <1>1, NodeFacts
<1>6. NodeCount(u, l) = NodeCount(t, l) + k /\ NodeCount(u, r) = NodeCount(t, r) - k
  BY <1>0, RebalancedCounts
<1>7. g \in Nat /\ g <= NodeCount(u, l) + 1 + NodeCount(u, r)
  <2>0. /\ NodeCount(u, l) + NodeCount(u, r) = NodeCount(t, l) + NodeCount(t, r)
    BY <1>0, <1>5, <1>6
  <2>1. CASE n = l
    <3>1. p \in 0..NodeCount(t, l) /\ g = p
      BY <2>1
    <3> HIDE DEF g
    <3> QED
      BY <1>5, <2>0, <3>1
  <2>2. CASE n # l
    <3>1. n = r
      BY <2>2
    <3>2. p \in 0..NodeCount(t, r) /\ g = NodeCount(t, l) + 1 + p
      BY <2>2, <3>1
    <3> HIDE DEF g
    <3> QED
      BY <1>5, <2>0, <3>2
  <2> QED
    BY <2>1, <2>2
<1>8. g <= NodeCount(u, l) => at.node = l /\ at.position = g /\ at = It(l, g)
  BY DEF Lands, It
<1>9. g > NodeCount(u, l) =>
        LET q == g - NodeCount(u, l) - 1 IN at.node = r /\ at.position = q /\ at = It(r, q)
  BY <1>5, <1>7 DEF Lands, It
<1>10. /\ at \in [node : DOMAIN u.node, position : Nat]
       /\ at.position <= NodeCount(u, at.node) /\ at.node \in {l, r}
  <2> HIDE DEF g
  <2>1. CASE g <= NodeCount(u, l)
    BY <1>1, <1>7, <1>8, <2>1 DEF It
  <2>2. CASE g > NodeCount(u, l)
    <3>1. g - NodeCount(u, l) - 1 \in Nat /\ g - NodeCount(u, l) - 1 <= NodeCount(u, r)
      BY <1>5, <1>7, <2>2
    <3> QED
      BY <1>1, <1>9, <2>2, <3>1 DEF It
  <2> QED
    BY <1>5, <1>7, <2>1, <2>2
<1>11. ASSUME NEW c, Sits(t, c, n, p)
       PROVE  Parent(u, c) = at.node
  <2>1. n \in DOMAIN t.node /\ ~Leaf(t, n)
    <3>1. Len(Children(t, n)) \in Nat
      BY <1>0, <1>1, NodeFacts
    <3>2. Len(Children(t, n)) # 0
      BY <1>11, <3>1 DEF Sits
    <3> QED
      BY <1>0, <1>1, <3>2, NodeFacts DEF ChildPerGap
  <2>2. ~Leaf(t, l) /\ ~Leaf(u, l)
    BY <1>0, <1>1, <2>1 DEF Neighbours, Rebalanced, SameFrame, Leaf
  <2>3. /\ Len(Children(t, l)) = NodeCount(t, l) + 1 /\ Len(Children(u, l)) = NodeCount(u, l) + 1
    BY <1>0, <1>1, <2>2, NodeFacts DEF ChildPerGap
  <2>4. Regrouped(t, u, l, r)
    BY <1>0, <1>1 DEF Regrouped, Rebalanced, InOrder, Attached
  <2>5. LET h == IF n = l THEN p ELSE Len(Children(t, l)) + p
            some == Len(Children(u, l))
        IN /\ h < some => Parent(u, c) = l
           /\ h >= some => Parent(u, c) = r
    BY <1>11, <2>4, ChildrenRegrouped
  <2>6. (IF n = l THEN p ELSE Len(Children(t, l)) + p) = g
    BY <1>5, <2>3
  <2>7. /\ g < NodeCount(u, l) + 1 => Parent(u, c) = l
        /\ g >= NodeCount(u, l) + 1 => Parent(u, c) = r
    BY <2>3, <2>5, <2>6
  <2> HIDE DEF g
  <2> QED
    BY <1>5, <1>7, <1>8, <1>9, <2>7
<1> QED
  BY <1>4, <1>10, <1>11

\* An exchange between n and a sibling makes room if the place at which it ends
\* has some.
LEMMA ExchangeMakesRoom ==
  ASSUME NEW t, NEW u, NEW lev, NEW l, NEW r, NEW k, Exchange(t, u, lev, l, r, k),
         Edged(t), NoneEmpty(t), NEW n \in {l, r}, NEW p \in 0..NodeCount(t, n),
         NodeCount(t, l) + k \in 1..kNodeValues, NodeCount(t, r) - k \in 1..kNodeValues,
         NodeCount(u, Lands(t, u, l, r, n, p).node) < kNodeValues
  PROVE  RoomMade(t, u, lev, lev, n, p, Lands(t, u, l, r, n, p))
<1> DEFINE at == Lands(t, u, l, r, n, p)
<1>0. InOrder(t) /\ Graded(t, lev) /\ Neighbours(t, l, r) /\ k \in Int /\ Rebalanced(t, u, l, r, k)
  BY DEF Exchange
<1>1. NodeCount(t, l) + k <= kNodeValues /\ NodeCount(t, r) - k <= kNodeValues
  BY kNodeValuesAssumption
<1>2. Shape(u, lev)
  BY <1>0, <1>1, RebalancedShape DEF Shape
<1>3. InOrder(u) /\ Graded(u, lev)
  BY <1>2 DEF Shape
<1>4. /\ at \in [node : DOMAIN u.node, position : Nat]
      /\ at.position <= NodeCount(u, at.node) /\ at.node \in {l, r} /\ lev[at.node] = lev[n]
      /\ \A c : Sits(t, c, n, p) => Parent(u, c) = at.node
  BY <1>3, ExchangeLands
<1>5. BelowKept(t, u, lev, lev, n)
  BY ExchangeKeepsBelow
<1>6. /\ NodeCount(u, l) = NodeCount(t, l) + k /\ NodeCount(u, r) = NodeCount(t, r) - k
      /\ \A m \in DOMAIN t.node \ {l, r} : NodeCount(u, m) = NodeCount(t, m)
  BY <1>0, RebalancedCounts
<1>7. DOMAIN u.node = DOMAIN t.node /\ u.root = t.root /\ l # t.root /\ r # t.root
      /\ l \in DOMAIN t.node /\ r \in DOMAIN t.node
  BY <1>0, NeighboursApart DEF Rebalanced, SameFrame, InOrder, Attached
<1>8. \A m \in DOMAIN u.node : NodeCount(u, m) >= 1
  BY <1>6, <1>7 DEF NoneEmpty
<1>9. MaxCount(u, l) = kNodeValues /\ MaxCount(u, r) = kNodeValues
  BY <1>3, <1>7, BelowRootFacts
<1>10. ~Full(u, at.node)
  BY <1>4, <1>9, kNodeValuesAssumption DEF Full
<1> HIDE DEF at
<1> QED
  BY <1>2, <1>4, <1>5, <1>8, <1>10 DEF RoomMade, at

LEMMA MaxOfTwo ==
  ASSUME NEW a \in Int, NEW b \in Int
  PROVE  Max({a, b}) \in {a, b} /\ Max({a, b}) >= a /\ Max({a, b}) >= b
<1>1. \E x \in {a, b} : \A y \in {a, b} : x >= y
  <2>1. CASE a >= b
    BY <2>1
  <2>2. CASE b >= a
    BY <2>2
  <2> QED
    BY <2>1, <2>2
<1>2. Max({a, b}) \in {a, b} /\ \A y \in {a, b} : Max({a, b}) >= y
  BY <1>1 DEF Max
<1> QED
  BY <1>2

LEMMA MinOfTwo ==
  ASSUME NEW a \in Int, NEW b \in Int
  PROVE  Min({a, b}) \in {a, b} /\ Min({a, b}) <= a /\ Min({a, b}) <= b
<1>1. \E x \in {a, b} : \A y \in {a, b} : x <= y
  <2>1. CASE a <= b
    BY <2>1
  <2>2. CASE b <= a
    BY <2>2
  <2> QED
    BY <2>1, <2>2
<1>2. Min({a, b}) \in {a, b} /\ \A y \in {a, b} : Min({a, b}) <= y
  BY <1>1 DEF Min
<1> QED
  BY <1>2

\* All or half of the room, but at least one.
LEMMA HowMany ==
  ASSUME NEW room \in Nat, room >= 1, NEW d \in {1, 2}
  PROVE  Max({1, room \div d}) \in 1..room
<1>1. room \div d \in Int /\ room \div d <= room
  <2>1. room \div 1 = room /\ room \div 2 \in Int /\ room \div 2 <= room
    OBVIOUS
  <2> QED
    BY <2>1
<1> DEFINE q == room \div d
<1>2. q \in Int /\ q <= room
  BY <1>1
<1> HIDE DEF q
<1>3. Max({1, q}) \in {1, q} /\ Max({1, q}) >= 1
  BY <1>2, MaxOfTwo
<1>4. Max({1, q}) \in 1..room
  BY <1>2, <1>3
<1> QED
  BY <1>4 DEF q

\* A full node below the root.
FullBelowRoot(t, lev, n, p) ==
  /\ Shape(t, lev) /\ n \in DOMAIN t.node /\ n # t.root /\ Full(t, n) /\ p \in 0..NodeCount(t, n)

LEMMA GoLeftMakesRoom ==
  ASSUME NEW t, NEW lev, NEW n, NEW p, FullBelowRoot(t, lev, n, p), NoneEmpty(t),
         CanGoLeft(t, It(n, p))
  PROVE  LET r == GoLeft(t, It(n, p)) IN RoomMade(t, r.t, lev, lev, n, p, r.it)
<1> DEFINE l == LeftSibling(t, n)
           k == ToLeft(t, It(n, p))
           u == RebalanceRightToLeft(t, l, n, k)
           at == Lands(t, u, l, n, n, p)
<1>0. /\ Shape(t, lev) /\ InOrder(t) /\ Graded(t, lev) /\ Edged(t)
      /\ n \in DOMAIN t.node /\ n # t.root /\ Full(t, n) /\ p \in 0..NodeCount(t, n)
      /\ Tree(t) /\ Linked(t)
  BY DEF FullBelowRoot, Shape, InOrder, Attached
<1>1. It(n, p).node = n /\ It(n, p).position = p
  BY DEF It
<1>2. HasLeft(t, n) /\ Room(t, l) > 0 /\ (p - k >= 0 \/ k < Room(t, l))
  BY <1>1 DEF CanGoLeft
<1>3. /\ Neighbours(t, l, n) /\ l \in DOMAIN t.node /\ l # t.root /\ l # n
      /\ MaxCount(t, l) = kNodeValues
  BY <1>0, <1>2, LeftIsNeighbour
<1>4. MaxCount(t, n) = kNodeValues /\ NodeCount(t, n) = kNodeValues
  BY <1>0, BelowRootFacts DEF Full
<1>5. /\ NodeCount(t, l) \in Nat /\ NodeCount(t, n) \in Nat /\ kNodeValues \in Nat
      /\ NodeCount(t, l) <= kNodeValues /\ NodeCount(t, l) >= 1
  BY <1>0, <1>3, NodeFacts DEF NoneEmpty
<1>6. k \in 1..(kNodeValues - NodeCount(t, l))
  <2>1. Room(t, l) = kNodeValues - NodeCount(t, l)
    BY <1>3 DEF Room
  <2>2. k = Max({1, Room(t, l) \div (IF p < MaxCount(t, l) THEN 2 ELSE 1)})
    BY <1>1 DEF ToLeft
  <2>3. PICK d \in {1, 2} : k = Max({1, Room(t, l) \div d})
    BY <2>2
  <2>4. Room(t, l) \in Nat /\ Room(t, l) >= 1
    BY <1>2, <1>5, <2>1
  <2> HIDE DEF k, l
  <2> QED
    BY <2>1, <2>3, <2>4, HowMany
<1> HIDE DEF k, l
<1>7. Rebalanced(t, u, l, n, k)
  BY <1>0, <1>3, <1>4, <1>5, <1>6, RightToLeftRebalances
<1>8. Exchange(t, u, lev, l, n, k)
  BY <1>0, <1>3, <1>6, <1>7 DEF Exchange
<1> HIDE DEF u
<1>9. NodeCount(u, l) = NodeCount(t, l) + k /\ NodeCount(u, n) = NodeCount(t, n) - k
  BY <1>0, <1>3, <1>6, <1>7, RebalancedCounts
<1>10. at = IF p - k < 0 THEN It(l, (p - k) + NodeCount(u, l) + 1) ELSE It(n, p - k)
  <2>1. at = IF NodeCount(t, l) + 1 + p <= NodeCount(u, l)
             THEN It(l, NodeCount(t, l) + 1 + p)
             ELSE It(n, NodeCount(t, l) + 1 + p - NodeCount(u, l) - 1)
    <3> DEFINE g == IF n = l THEN p ELSE NodeCount(t, l) + 1 + p
    <3>1. g = NodeCount(t, l) + 1 + p
      BY <1>3
    <3>2. at = IF g <= NodeCount(u, l) THEN It(l, g) ELSE It(n, g - NodeCount(u, l) - 1)
      BY Zenon DEF Lands
    <3>3. p \in Nat /\ NodeCount(u, l) \in Int
      BY <1>0, <1>4, <1>5, <1>6, <1>9
    <3> HIDE DEF g, at, NodeCount
    <3> QED
      BY <1>5, <3>1, <3>2, <3>3
  <2>2. p \in Nat /\ k \in Nat
    BY <1>0, <1>4, <1>5, <1>6
  <2> HIDE DEF at, NodeCount
  <2>3. /\ NodeCount(t, l) + 1 + p <= NodeCount(u, l) <=> p - k < 0
        /\ (p - k) + NodeCount(u, l) + 1 = NodeCount(t, l) + 1 + p
        /\ NodeCount(t, l) + 1 + p - NodeCount(u, l) - 1 = p - k
    BY <1>5, <1>9, <2>2
  <2> QED
    BY <2>1, <2>3
<1>11. NodeCount(u, at.node) < kNodeValues
  <2>1. k \in Nat /\ p \in Nat /\ k >= 1
    BY <1>0, <1>4, <1>5, <1>6
  <2>2. CASE p - k < 0
    <3>1. at.node = l
      BY <1>10, <2>2 DEF It
    <3>2. k < kNodeValues - NodeCount(t, l)
      BY <1>2, <1>3, <2>1, <2>2 DEF Room
    <3> QED
      BY <1>5, <1>9, <2>1, <3>1, <3>2
  <2>3. CASE ~(p - k < 0)
    <3>1. at.node = n
      BY <1>10, <2>3 DEF It
    <3> QED
      BY <1>4, <1>5, <1>9, <2>1, <3>1
  <2> QED
    BY <2>2, <2>3
<1>12. RoomMade(t, u, lev, lev, n, p, at)
  <2>1. NodeCount(t, l) + k \in 1..kNodeValues /\ NodeCount(t, n) - k \in 1..kNodeValues
    BY <1>4, <1>5, <1>6
  <2> HIDE DEF at
  <2> QED
    BY <1>0, <1>8, <1>11, <2>1, ExchangeMakesRoom DEF at
<1>13. Tree(u) /\ MaxCount(u, n) = kNodeValues /\ MaxCount(u, at.node) = kNodeValues
  <2>1. InOrder(u) /\ Graded(u, lev) /\ l \in DOMAIN u.node /\ n \in DOMAIN u.node /\ u.root = t.root
    BY <1>0, <1>3, <1>7, <1>12 DEF RoomMade, Shape, Rebalanced, SameFrame
  <2>2. at.node \in {l, n}
    BY <1>10 DEF It
  <2> HIDE DEF at
  <2>3. MaxCount(u, l) = kNodeValues /\ MaxCount(u, n) = kNodeValues
    BY <1>0, <1>3, <2>1, BelowRootFacts
  <2> QED
    BY <2>1, <2>2, <2>3 DEF InOrder
<1>14. GoLeft(t, It(n, p)) = [t |-> u, it |-> at]
  <2>1. GoLeft(t, It(n, p)) = WentLeft(u, It(n, p), l, k)
    BY <1>1 DEF GoLeft, u, l, k
  <2>2. WentLeft(u, It(n, p), l, k) =
          [t |-> Check(u, Room(u, n) = k /\ Room(u, at.node) > 0), it |-> at]
    BY <1>1, <1>10 DEF WentLeft
  <2>3. Room(u, n) = k /\ Room(u, at.node) > 0
    <3>1. Room(u, n) = k
      BY <1>4, <1>5, <1>6, <1>9, <1>13 DEF Room
    <3>2. at.node \in DOMAIN u.node /\ NodeCount(u, at.node) \in Nat
      BY <1>12, NodeFacts DEF RoomMade, Shape
    <3> QED
      BY <1>5, <1>11, <1>13, <3>1, <3>2 DEF Room
  <2> HIDE DEF at
  <2>4. Check(u, Room(u, n) = k /\ Room(u, at.node) > 0) = u
    BY <1>13, <2>3, CheckPasses
  <2> QED
    BY <2>1, <2>2, <2>4
<1> HIDE DEF at
<1> QED
  BY <1>12, <1>14

LEMMA GoRightMakesRoom ==
  ASSUME NEW t, NEW lev, NEW n, NEW p, FullBelowRoot(t, lev, n, p), NoneEmpty(t),
         CanGoRight(t, It(n, p))
  PROVE  LET r == GoRight(t, It(n, p)) IN RoomMade(t, r.t, lev, lev, n, p, r.it)
<1> DEFINE r == RightSibling(t, n)
           k == ToRight(t, It(n, p))
           u == RebalanceLeftToRight(t, n, r, k)
           at == Lands(t, u, n, r, n, p)
<1>0. /\ Shape(t, lev) /\ InOrder(t) /\ Graded(t, lev) /\ Edged(t)
      /\ n \in DOMAIN t.node /\ n # t.root /\ Full(t, n) /\ p \in 0..NodeCount(t, n)
      /\ Tree(t) /\ Linked(t)
  BY DEF FullBelowRoot, Shape, InOrder, Attached
<1>1. It(n, p).node = n /\ It(n, p).position = p
  BY DEF It
<1>2. HasRight(t, n) /\ Room(t, r) > 0 /\ (p <= NodeCount(t, n) - k \/ k < Room(t, r))
  BY <1>1 DEF CanGoRight
<1>3. /\ Neighbours(t, n, r) /\ r \in DOMAIN t.node /\ r # t.root /\ r # n
      /\ MaxCount(t, r) = kNodeValues
  BY <1>0, <1>2, RightIsNeighbour
<1>4. MaxCount(t, n) = kNodeValues /\ NodeCount(t, n) = kNodeValues
  BY <1>0, BelowRootFacts DEF Full
<1>5. /\ NodeCount(t, r) \in Nat /\ NodeCount(t, n) \in Nat /\ kNodeValues \in Nat
      /\ NodeCount(t, r) <= kNodeValues /\ NodeCount(t, r) >= 1
  BY <1>0, <1>3, NodeFacts DEF NoneEmpty
<1>6. k \in 1..(kNodeValues - NodeCount(t, r))
  <2>1. Room(t, r) = kNodeValues - NodeCount(t, r)
    BY <1>3 DEF Room
  <2>2. k = Max({1, Room(t, r) \div (IF p > 0 THEN 2 ELSE 1)})
    BY <1>1 DEF ToRight
  <2>3. PICK d \in {1, 2} : k = Max({1, Room(t, r) \div d})
    BY <2>2
  <2>4. Room(t, r) \in Nat /\ Room(t, r) >= 1
    BY <1>2, <1>5, <2>1
  <2> HIDE DEF k, r
  <2> QED
    BY <2>1, <2>3, <2>4, HowMany
<1> HIDE DEF k, r
<1>7. Rebalanced(t, u, n, r, 0 - k)
  BY <1>0, <1>3, <1>4, <1>5, <1>6, LeftToRightRebalances
<1> HIDE DEF u
<1>a. 0 - k \in Int /\ k \in Nat /\ k >= 1
  BY <1>5, <1>6
<1> DEFINE j == 0 - k
<1>b. j \in Int /\ j = 0 - k /\ Rebalanced(t, u, n, r, j)
  BY <1>7, <1>a
<1> HIDE DEF j
<1>8. Exchange(t, u, lev, n, r, j)
  BY <1>0, <1>3, <1>b DEF Exchange
<1>9. NodeCount(u, n) = NodeCount(t, n) - k /\ NodeCount(u, r) = NodeCount(t, r) + k
  <2>1. NodeCount(u, n) = NodeCount(t, n) + j /\ NodeCount(u, r) = NodeCount(t, r) - j
    BY <1>0, <1>3, <1>b, RebalancedCounts
  <2> QED
    BY <1>5, <1>a, <1>b, <2>1
<1>10. at = IF p - NodeCount(u, n) - 1 >= 0 THEN It(r, p - NodeCount(u, n) - 1) ELSE It(n, p)
  <2>1. at = IF p <= NodeCount(u, n) THEN It(n, p) ELSE It(r, p - NodeCount(u, n) - 1)
    BY DEF Lands
  <2>2. p \in Nat /\ NodeCount(u, n) \in Int
    BY <1>0, <1>4, <1>5, <1>9, <1>a
  <2> HIDE DEF at, NodeCount
  <2>3. p <= NodeCount(u, n) <=> ~(p - NodeCount(u, n) - 1 >= 0)
    BY <2>2
  <2> QED
    BY <2>1, <2>3
<1>11. NodeCount(u, at.node) < kNodeValues
  <2>1. p \in Nat /\ NodeCount(u, n) \in Int
    BY <1>0, <1>4, <1>5, <1>9, <1>a
  <2>2. CASE p - NodeCount(u, n) - 1 >= 0
    <3>1. at.node = r
      BY <1>10, <2>2 DEF It
    <3>2. k < kNodeValues - NodeCount(t, r)
      BY <1>2, <1>3, <1>5, <1>9, <1>a, <2>1, <2>2 DEF Room
    <3> QED
      BY <1>5, <1>9, <1>a, <3>1, <3>2
  <2>3. CASE ~(p - NodeCount(u, n) - 1 >= 0)
    <3>1. at.node = n
      BY <1>10, <2>3 DEF It
    <3> QED
      BY <1>4, <1>5, <1>9, <1>a, <3>1
  <2> QED
    BY <2>2, <2>3
<1>12. RoomMade(t, u, lev, lev, n, p, at)
  <2>1. NodeCount(t, n) + j \in 1..kNodeValues /\ NodeCount(t, r) - j \in 1..kNodeValues
    BY <1>4, <1>5, <1>6, <1>a, <1>b
  <2> HIDE DEF at
  <2> QED
    BY <1>0, <1>8, <1>11, <2>1, ExchangeMakesRoom DEF at
<1>13. Tree(u) /\ MaxCount(u, at.node) = kNodeValues
  <2>1. InOrder(u) /\ Graded(u, lev) /\ r \in DOMAIN u.node /\ n \in DOMAIN u.node /\ u.root = t.root
    BY <1>0, <1>3, <1>b, <1>12 DEF RoomMade, Shape, Rebalanced, SameFrame
  <2>2. at.node \in {r, n}
    BY <1>10 DEF It
  <2> HIDE DEF at
  <2>3. MaxCount(u, r) = kNodeValues /\ MaxCount(u, n) = kNodeValues
    BY <1>0, <1>3, <2>1, BelowRootFacts
  <2> QED
    BY <2>1, <2>2, <2>3 DEF InOrder
<1>14. GoRight(t, It(n, p)) = [t |-> u, it |-> at]
  <2>1. GoRight(t, It(n, p)) = WentRight(u, It(n, p), r)
    BY <1>1 DEF GoRight, u, r, k
  <2>2. WentRight(u, It(n, p), r) = [t |-> Check(u, Room(u, at.node) > 0), it |-> at]
    BY <1>1, <1>10 DEF WentRight
  <2>3. Room(u, at.node) > 0
    <3>1. at.node \in DOMAIN u.node /\ NodeCount(u, at.node) \in Nat
      BY <1>12, NodeFacts DEF RoomMade, Shape
    <3> QED
      BY <1>5, <1>11, <1>13, <3>1 DEF Room
  <2> HIDE DEF at
  <2>4. Check(u, Room(u, at.node) > 0) = u
    BY <1>13, <2>3, CheckPasses
  <2> QED
    BY <2>1, <2>2, <2>4
<1> HIDE DEF at
<1> QED
  BY <1>12, <1>14

-------------------------------------------------------------------------------
\* When a tree is in order.

LEMMA InOrderWhen ==
  ASSUME NEW u, NEW lev,
         Tree(u), Linked(u), IsFiniteSet(DOMAIN u.node), NoNode \notin DOMAIN u.node,
         u.root \in DOMAIN u.node, u.asserts, Sized(u), DOMAIN lev = DOMAIN u.node,
         \A m \in DOMAIN u.node :
           ChildPerGap(u, m) /\ lev[m] \in Nat /\ (Leaf(u, m) <=> lev[m] = 0),
         \A m \in DOMAIN u.node \ {u.root} :
           /\ lev[m] < lev[u.root]
           /\ \E p \in DOMAIN u.node : \E i \in Nat : Sits(u, m, p, i) /\ lev[p] = lev[m] + 1
  PROVE  InOrder(u) /\ Graded(u, lev)
<1>1. ASSUME NEW m \in DOMAIN u.node, m # u.root
      PROVE  IsChild(u, m) /\ lev[Parent(u, m)] = lev[m] + 1
  <2>1. PICK p \in DOMAIN u.node, i \in Nat : Sits(u, m, p, i) /\ lev[p] = lev[m] + 1
    BY <1>1
  <2>2. p # m /\ ChildPerGap(u, m) /\ ChildPerGap(u, p)
    BY <2>1
  <2>3. Parent(u, m) = p
    BY <2>1, SitsThere
  <2>4. IsChild(u, m)
    BY <2>1, <2>2, SitsIsChild
  <2> QED
    BY <2>1, <2>3, <2>4
<1>2. Attached(u)
  BY <1>1 DEF Attached
<1>3. Graded(u, lev)
  BY <1>1 DEF Graded
<1> QED
  BY <1>2, <1>3 DEF InOrder

\* v is u but for what the root says of the tree.
SameNodes(u, v) ==
  /\ v = [node |-> v.node, root |-> v.root, rightmost |-> v.rightmost, size |-> v.size,
          asserts |-> v.asserts]
  /\ v.node = u.node /\ v.root = u.root /\ v.asserts = u.asserts

LEMMA SameNodesFacts ==
  ASSUME NEW u, NEW v, SameNodes(u, v), NEW m
  PROVE  /\ Leaf(v, m) = Leaf(u, m) /\ Position(v, m) = Position(u, m)
         /\ Parent(v, m) = Parent(u, m) /\ Values(v, m) = Values(u, m)
         /\ MaxCount(v, m) = MaxCount(u, m) /\ Children(v, m) = Children(u, m)
         /\ NodeCount(v, m) = NodeCount(u, m) /\ Full(v, m) = Full(u, m)
  BY Zenon DEF SameNodes, Leaf, Position, Parent, Values, MaxCount, Children, NodeCount, Full

LEMMA SameNodesInOrder ==
  ASSUME NEW u, NEW v, NEW lev, InOrder(u), Graded(u, lev), SameNodes(u, v)
  PROVE  InOrder(v) /\ Graded(v, lev) /\ Leftmost(v) = Leftmost(u)
         /\ FirstChildren(v) = FirstChildren(u) /\ LastChildren(v) = LastChildren(u)
<1>1. /\ v.node = u.node /\ v.root = u.root /\ v.asserts = u.asserts
      /\ v = [node |-> v.node, root |-> v.root, rightmost |-> v.rightmost, size |-> v.size,
              asserts |-> v.asserts]
  BY DEF SameNodes
<1>2. \A m : /\ Leaf(v, m) = Leaf(u, m) /\ Position(v, m) = Position(u, m)
             /\ Parent(v, m) = Parent(u, m) /\ Values(v, m) = Values(u, m)
             /\ MaxCount(v, m) = MaxCount(u, m) /\ Children(v, m) = Children(u, m)
             /\ NodeCount(v, m) = NodeCount(u, m)
  BY SameNodesFacts
<1>3. Tree(v)
  BY <1>1 DEF Tree, InOrder
<1>4. Linked(v)
  BY <1>1, <1>2 DEF InOrder, Attached, Linked, Links
<1>5. \A m : ChildPerGap(v, m) = ChildPerGap(u, m)
  BY <1>2 DEF ChildPerGap
<1>6. \A m : IsChild(v, m) = IsChild(u, m)
  BY <1>1, <1>2, <1>5 DEF IsChild, Child
<1>7. Attached(v)
  BY <1>1, <1>4, <1>5, <1>6 DEF InOrder, Attached
<1>8. Sized(v)
  BY <1>1, <1>2 DEF InOrder, Sized
<1>9. Graded(v, lev)
  BY <1>1, <1>2 DEF Graded
<1>10. Leftmost(v) = Leftmost(u)
  BY <1>1, <1>2 DEF Leftmost
<1>11. FirstChildren(v) = FirstChildren(u)
  BY <1>1, <1>2 DEF FirstChildren
<1>12. LastChildren(v) = LastChildren(u)
  BY <1>1, <1>2 DEF LastChildren
<1> QED
  BY <1>1, <1>3, <1>7, <1>8, <1>9, <1>10, <1>11, <1>12 DEF InOrder

LEMMA SameNodesShape ==
  ASSUME NEW u, NEW v, NEW lev, Shape(u, lev), SameNodes(u, v), Rightmost(v) = Rightmost(u)
  PROVE  Shape(v, lev)
<1>1. InOrder(u) /\ Graded(u, lev) /\ Edged(u)
  BY DEF Shape
<1>2. /\ InOrder(v) /\ Graded(v, lev) /\ Leftmost(v) = Leftmost(u)
      /\ FirstChildren(v) = FirstChildren(u) /\ LastChildren(v) = LastChildren(u)
  BY <1>1, SameNodesInOrder
<1>3. \A a, edge : AtEdge(u, a, edge) => AtEdge(v, a, edge)
  <2>1. \A m : Leaf(v, m) = Leaf(u, m) /\ Parent(v, m) = Parent(u, m) /\ v.root = u.root
    BY SameNodesFacts DEF SameNodes
  <2> QED
    BY <2>1 DEF AtEdge
<1>4. Edged(v)
  BY <1>1, <1>2, <1>3 DEF Edged
<1> QED
  BY <1>2, <1>4 DEF Shape

-------------------------------------------------------------------------------
\* Splitting a node whose parent has room.

\* t with n split into n and a, which t does not have.
SplitInto(t, u, n, a) ==
  LET above == Parent(t, n)
      at == Position(t, n)
  IN /\ Tree(u) /\ Linked(u) /\ IsFiniteSet(DOMAIN u.node)
     /\ a \in Nat /\ a # NoNode /\ a \notin DOMAIN t.node /\ DOMAIN u.node = DOMAIN t.node \cup {a}
     /\ u.root = t.root /\ u.rightmost = t.rightmost /\ u.asserts = t.asserts
     /\ Leftmost(u) = Leftmost(t)
     /\ \A m \in DOMAIN t.node :
          /\ u.node[m].fields = t.node[m].fields /\ Leaf(u, m) = Leaf(t, m)
          /\ MaxCount(u, m) = MaxCount(t, m)
     /\ u.node[a].fields # "root" /\ Leaf(u, a) = Leaf(t, n) /\ MaxCount(u, a) = kNodeValues
     /\ Neighbours(u, n, a) /\ Parent(u, n) = above /\ Position(u, n) = at
     /\ NodeCount(t, n) = kNodeValues
     /\ NodeCount(u, n) + NodeCount(u, a) + 1 = kNodeValues
     /\ Children(u, n) \o Children(u, a) = Children(t, n)
     /\ Children(u, above) = InsertAt(Children(t, above), at + 2, a)
     /\ NodeCount(u, above) = NodeCount(t, above) + 1
     /\ \A m \in DOMAIN t.node \ {n, above} :
          NodeCount(u, m) = NodeCount(t, m) /\ Children(u, m) = Children(t, m)

\* A node just initialised: nothing in it yet.
Blank(node, fields, parent, max_count) ==
  /\ node \in Node /\ node.fields = fields /\ node.parent = parent /\ node.position = 0
  /\ node.max_count = max_count /\ node.values = <<>> /\ node.children = <<>>

LEMMA NewNodes ==
  ASSUME NEW parent \in Nat, NEW max_count \in Nat
  PROVE  /\ Blank(LeafNode(parent, max_count), "leaf", parent, max_count)
         /\ Blank(InternalNode(parent), "internal", parent, kNodeValues)
         /\ Blank(RootNode(parent), "root", parent, kNodeValues)
<1>1. kNodeValues \in Nat /\ <<>> \in Seq(Entry) /\ <<>> \in Seq(Nat)
  BY kNodeValuesAssumption
<1>2. ASSUME NEW fields \in {"leaf", "internal", "root"}, NEW size \in Nat
      PROVE  Blank([fields |-> fields, position |-> 0, max_count |-> size, parent |-> parent,
                    values |-> <<>>, children |-> <<>>], fields, parent, size)
  BY <1>1 DEF Blank, Node
<1>3. LeafNode(parent, max_count) =
        [fields |-> "leaf", position |-> 0, max_count |-> max_count, parent |-> parent,
         values |-> <<>>, children |-> <<>>]
  BY DEF LeafNode
<1>4. InternalNode(parent) =
        [fields |-> "internal", position |-> 0, max_count |-> kNodeValues, parent |-> parent,
         values |-> <<>>, children |-> <<>>]
  BY DEF InternalNode, LeafNode
<1>5. RootNode(parent) =
        [fields |-> "root", position |-> 0, max_count |-> kNodeValues, parent |-> parent,
         values |-> <<>>, children |-> <<>>]
  <2>1. RootNode(parent) = [InternalNode(parent) EXCEPT !.fields = "root"]
    BY DEF RootNode
  <2> QED
    BY <1>4, <2>1
<1> QED
  BY <1>1, <1>2, <1>3, <1>4, <1>5

LEMMA SplitGives ==
  ASSUME NEW t, NEW lev, NEW n, NEW p, FullBelowRoot(t, lev, n, p)
  PROVE  LET a == FreshAddress(t)
             u == Split(Allocate(t, NewSibling(t, n)), n, a, p)
         IN SplitInto(t, u, n, a) /\ NodeCount(u, a) = SplitCount(t, n, p)
<1> DEFINE a == FreshAddress(t)
           above == Parent(t, n)
           at == Position(t, n)
           empty == NewSibling(t, n)
           s == Allocate(t, empty)
           u == Split(s, n, a, p)
<1>0. /\ InOrder(t) /\ Graded(t, lev) /\ Tree(t) /\ Linked(t) /\ IsFiniteSet(DOMAIN t.node)
      /\ n \in DOMAIN t.node /\ n # t.root /\ Full(t, n) /\ p \in 0..NodeCount(t, n)
  BY DEF FullBelowRoot, Shape, InOrder, Attached
<1>1. /\ IsChild(t, n) /\ above \in DOMAIN t.node /\ above # n
      /\ ~Leaf(t, above) /\ at \in 0..NodeCount(t, above)
      /\ NodeCount(t, n) = kNodeValues /\ MaxCount(t, n) = kNodeValues
  BY <1>0, BelowRootFacts DEF Full
<1>2. kNodeValues \in Nat /\ kNodeValues >= 3
  BY kNodeValuesAssumption
<1>3. /\ empty \in Node /\ empty.values = <<>> /\ empty.children = <<>>
      /\ Leaf(t, n) = (empty.fields = "leaf") /\ empty.fields # "root"
      /\ empty.max_count = kNodeValues
  <2>1. Parent(t, n) \in Nat
    BY <1>0, NodeFields
  <2>2. /\ Blank(LeafNode(Parent(t, n), kNodeValues), "leaf", Parent(t, n), kNodeValues)
        /\ Blank(InternalNode(Parent(t, n)), "internal", Parent(t, n), kNodeValues)
    BY <1>2, <2>1, NewNodes
  <2>3. empty = IF Leaf(t, n) THEN LeafNode(Parent(t, n), kNodeValues)
                ELSE InternalNode(Parent(t, n))
    BY DEF NewSibling
  <2> HIDE DEF empty
  <2>4. CASE Leaf(t, n)
    <3>1. Blank(empty, "leaf", Parent(t, n), kNodeValues)
      BY <2>2, <2>3, <2>4
    <3> QED
      BY <2>4, <3>1, Zenon DEF Blank
  <2>5. CASE ~Leaf(t, n)
    <3>1. Blank(empty, "internal", Parent(t, n), kNodeValues)
      BY <2>2, <2>3, <2>5
    <3>2. /\ empty \in Node /\ empty.values = <<>> /\ empty.children = <<>>
          /\ empty.fields = "internal" /\ empty.max_count = kNodeValues
      BY <3>1 DEF Blank
    <3> QED
      BY <2>5, <3>2 DEF Leaf
  <2> QED
    BY <2>4, <2>5
<1> HIDE DEF empty
<1>4. Tree(s) /\ Linked(s) /\ CanSplit(s, n, a)
  BY <1>0, <1>1, <1>2, <1>3, AllocatedCanSplit DEF InOrder
<1>5. Added(t, s, a, empty)
  BY <1>0, <1>3, AllocateAdds
<1> HIDE DEF a, s
<1>6. /\ a \in Nat /\ a # NoNode /\ a \notin DOMAIN t.node
      /\ DOMAIN s.node = DOMAIN t.node \cup {a} /\ IsFiniteSet(DOMAIN s.node)
      /\ s.root = t.root /\ s.rightmost = t.rightmost /\ s.asserts = t.asserts
      /\ s.node[a] = empty /\ \A m \in DOMAIN t.node : s.node[m] = t.node[m]
  BY <1>5 DEF Added
<1>7. /\ \A m \in DOMAIN t.node :
           /\ m \in DOMAIN s.node /\ m # a /\ s.node[m].fields = t.node[m].fields
           /\ Values(s, m) = Values(t, m) /\ Children(s, m) = Children(t, m)
           /\ Parent(s, m) = Parent(t, m) /\ Position(s, m) = Position(t, m)
           /\ Leaf(s, m) = Leaf(t, m) /\ MaxCount(s, m) = MaxCount(t, m)
           /\ NodeCount(s, m) = NodeCount(t, m)
      /\ Leaf(s, a) = (empty.fields = "leaf") /\ MaxCount(s, a) = empty.max_count
  BY <1>5, AddedFields
<1>8. HasSplit(s, u, n, a) /\ NodeCount(u, n) = NodeCount(s, n) - SplitCount(s, n, p) - 1
  BY <1>4, SplitSplits
<1> HIDE DEF u
<1>9. Parent(s, n) = above /\ Position(s, n) = at /\ SplitCount(s, n, p) = SplitCount(t, n, p)
  <2>1. Parent(s, n) = above /\ Position(s, n) = at
    BY <1>0, <1>7
  <2>2. NodeCount(s, n) = NodeCount(t, n) /\ MaxCount(s, n) = MaxCount(t, n)
    BY <1>0, <1>7
  <2> QED
    BY <2>1, <2>2 DEF SplitCount
<1>10. /\ Tree(u) /\ Linked(u) /\ DOMAIN u.node = DOMAIN s.node
       /\ u.root = s.root /\ u.rightmost = s.rightmost /\ u.asserts = s.asserts
       /\ \A m \in DOMAIN s.node :
            u.node[m].fields = s.node[m].fields /\ MaxCount(u, m) = MaxCount(s, m)
       /\ Leftmost(u) = Leftmost(s)
  BY <1>8 DEF HasSplit, SameFrame
<1>11. /\ Neighbours(u, n, a) /\ Parent(u, n) = above /\ Position(u, n) = at
       /\ Around(u, n, a) = Values(t, n) /\ Children(u, n) \o Children(u, a) = Children(t, n)
       /\ Values(u, above) = InsertAt(Values(t, above), at + 1, Delimiter(u, n))
       /\ Children(u, above) = InsertAt(Children(t, above), at + 2, a)
  <2>1. /\ Neighbours(u, n, a) /\ Parent(u, n) = Parent(s, n) /\ Position(u, n) = Position(s, n)
        /\ Around(u, n, a) = Values(s, n) /\ Children(u, n) \o Children(u, a) = Children(s, n)
        /\ Values(u, Parent(s, n)) =
             InsertAt(Values(s, Parent(s, n)), Position(s, n) + 1, Delimiter(u, n))
        /\ Children(u, Parent(s, n)) =
             InsertAt(Children(s, Parent(s, n)), Position(s, n) + 2, a)
    BY <1>8 DEF HasSplit
  <2> HIDE DEF above, at
  <2> QED
    BY <1>0, <1>1, <1>7, <1>9, <2>1
<1>12. \A m \in DOMAIN t.node \ {n, above} :
         NodeCount(u, m) = NodeCount(t, m) /\ Children(u, m) = Children(t, m)
  <2>1. \A m \in DOMAIN s.node \ {n, a, above} :
          Values(u, m) = Values(s, m) /\ Children(u, m) = Children(s, m)
    BY <1>8, <1>9 DEF HasSplit, SameElsewhere
  <2> QED
    BY <1>6, <1>7, <2>1 DEF NodeCount
<1>13. \A m \in DOMAIN u.node : Leaf(u, m) = Leaf(s, m)
  BY <1>10 DEF Leaf
<1>14. Delimiter(u, n) \in Entry
  BY <1>10, <1>11, NeighboursApart
<1>15. NodeCount(u, above) = NodeCount(t, above) + 1
  <2>1. Values(t, above) \in Seq(Entry) /\ at + 1 \in 1..Len(Values(t, above)) + 1
    BY <1>0, <1>1, NodeFacts DEF NodeCount
  <2>2. HasPlace(Entry, Values(t, above), at + 1, Delimiter(u, n))
    BY <1>14, <2>1 DEF HasPlace
  <2> QED
    BY <1>11, <2>2, InsertAtProperties DEF NodeCount
<1>16. NodeCount(u, n) + NodeCount(u, a) + 1 = kNodeValues
  <2>1. n \in DOMAIN u.node /\ a \in DOMAIN u.node
    BY <1>0, <1>6, <1>10
  <2>2. /\ Values(u, n) \in Seq(Entry) /\ Values(u, a) \in Seq(Entry)
        /\ NodeCount(u, n) \in Nat /\ NodeCount(u, a) \in Nat
    BY <1>10, <2>1, NodeFields
  <2>3. <<Delimiter(u, n)>> \in Seq(Entry) /\ Len(<<Delimiter(u, n)>>) = 1
    BY <1>14
  <2>4. Len(Around(u, n, a)) = Len(Values(u, n)) + 1 + Len(Values(u, a))
    BY <2>2, <2>3, Concat3 DEF Around
  <2> QED
    BY <1>1, <1>11, <2>2, <2>4 DEF NodeCount
<1>17. NodeCount(u, a) = SplitCount(t, n, p)
  <2>1. NodeCount(u, n) = kNodeValues - SplitCount(t, n, p) - 1
    BY <1>0, <1>1, <1>7, <1>8, <1>9
  <2>2. NodeCount(u, n) \in Nat /\ NodeCount(u, a) \in Nat /\ SplitCount(t, n, p) \in Int
    <3>1. n \in DOMAIN u.node /\ a \in DOMAIN u.node
      BY <1>0, <1>6, <1>10
    <3>2. SplitCount(t, n, p) \in Int
      BY <1>1, <1>2 DEF SplitCount
    <3> QED
      BY <1>10, <3>1, <3>2, NodeFields
  <2> HIDE DEF NodeCount
  <2> QED
    BY <1>2, <1>16, <2>1, <2>2
<1>18. Leftmost(u) = Leftmost(t)
  BY <1>0, <1>6, <1>7, <1>10 DEF InOrder, Leftmost
<1>19. SplitInto(t, u, n, a)
  <2>1. /\ \A m \in DOMAIN t.node :
             /\ u.node[m].fields = t.node[m].fields /\ Leaf(u, m) = Leaf(t, m)
             /\ MaxCount(u, m) = MaxCount(t, m)
        /\ u.node[a].fields # "root" /\ Leaf(u, a) = Leaf(t, n) /\ MaxCount(u, a) = kNodeValues
    BY <1>3, <1>6, <1>7, <1>10, <1>13
  <2> QED
    BY <1>1, <1>6, <1>10, <1>11, <1>12, <1>15, <1>16, <1>18, <2>1 DEF SplitInto
<1> QED
  BY <1>17, <1>19 DEF u, s, a, empty

\* m is child i of p, and knows it.
Hangs(t, m, p, i) == Sits(t, m, p, i) /\ Parent(t, m) = p /\ Position(t, m) = i

LEMMA SitsHangs ==
  ASSUME NEW t, Tree(t), Linked(t), NEW m, NEW p, NEW i, Sits(t, m, p, i)
  PROVE  Hangs(t, m, p, i)
  BY SitsThere DEF Hangs

\* A list of children with one more in it.
LEMMA SitsInserted ==
  ASSUME NEW t, NEW u, Tree(t), Tree(u), Linked(u), NEW p \in DOMAIN u.node,
         NEW at \in Nat, at < Len(Children(t, p)), NEW a \in Nat,
         Children(u, p) = InsertAt(Children(t, p), at + 2, a), NEW m, NEW i, Sits(t, m, p, i)
  PROVE  /\ Hangs(u, m, p, IF i <= at THEN i ELSE i + 1)
         /\ Hangs(u, a, p, at + 1)
<1> DEFINE kids == Children(t, p)
           new == Children(u, p)
<1>1. kids \in Seq(Nat) /\ Len(kids) \in Nat /\ p \in DOMAIN t.node
  BY NodeFields, LenProperties DEF Sits
<1>2. HasPlace(Nat, kids, at + 2, a)
  BY <1>1 DEF HasPlace
<1>3. /\ Len(new) = Len(kids) + 1
      /\ \A j \in 1..Len(kids) + 1 :
           new[j] = IF j < at + 2 THEN kids[j] ELSE IF j = at + 2 THEN a ELSE kids[j - 1]
  BY <1>2, InsertAtProperties, SMTT(30)
<1>4. i \in 0..Len(kids) - 1 /\ kids[i + 1] = m
  BY DEF Sits
<1> HIDE DEF kids, new
<1>5. Len(new) \in Nat /\ at + 1 \in 0..Len(new) - 1 /\ new[(at + 1) + 1] = a
  BY <1>1, <1>3 DEF kids
<1>6. i <= at => i \in 0..Len(new) - 1 /\ new[i + 1] = m
  BY <1>1, <1>3, <1>4
<1>7. ~(i <= at) => i + 1 \in 0..Len(new) - 1 /\ new[(i + 1) + 1] = m
  <2> SUFFICES ASSUME ~(i <= at)
               PROVE  i + 1 \in 0..Len(new) - 1 /\ new[(i + 1) + 1] = m
    OBVIOUS
  <2>1. (i + 1) + 1 \in 1..Len(kids) + 1 /\ ~((i + 1) + 1 < at + 2) /\ (i + 1) + 1 # at + 2
    BY <1>1, <1>4
  <2>2. new[(i + 1) + 1] = kids[((i + 1) + 1) - 1] /\ ((i + 1) + 1) - 1 = i + 1
    BY <1>3, <1>4, <2>1
  <2> QED
    BY <1>1, <1>3, <1>4, <2>2
<1>8. Sits(u, a, p, at + 1)
  BY <1>5 DEF Sits, new
<1>9. i <= at => Sits(u, m, p, i)
  BY <1>6 DEF Sits, new
<1>10. ~(i <= at) => Sits(u, m, p, i + 1)
  BY <1>7 DEF Sits, new
<1> QED
  BY <1>8, <1>9, <1>10, SitsHangs

Splitting(t, u, lev, n, a) ==
  /\ InOrder(t) /\ Graded(t, lev) /\ n \in DOMAIN t.node /\ n # t.root
  /\ SplitInto(t, u, n, a)

LEMMA SplitPlaces ==
  ASSUME NEW t, NEW u, NEW lev, NEW n, NEW a, Splitting(t, u, lev, n, a)
  PROVE  LET above == Parent(t, n)
             at == Position(t, n)
         IN /\ \A m, p, i : Sits(t, m, p, i) =>
                 /\ p \notin {n, above} => Hangs(u, m, p, i)
                 /\ p = above => Hangs(u, m, above, IF i <= at THEN i ELSE i + 1)
                 /\ p = n => IF i <= NodeCount(u, n) THEN Hangs(u, m, n, i)
                             ELSE Hangs(u, m, a, i - NodeCount(u, n) - 1)
            /\ Hangs(u, n, above, at) /\ Hangs(u, a, above, at + 1)
<1> DEFINE above == Parent(t, n)
           at == Position(t, n)
<1>0. /\ InOrder(t) /\ Graded(t, lev) /\ n \in DOMAIN t.node /\ n # t.root
      /\ SplitInto(t, u, n, a) /\ Tree(t) /\ Linked(t)
  BY DEF Splitting, InOrder, Attached
<1>1. /\ above \in DOMAIN t.node /\ above # n /\ at \in Nat /\ at \in 0..NodeCount(t, above)
      /\ NodeCount(t, above) \in Nat /\ Len(Children(t, above)) = NodeCount(t, above) + 1
  BY <1>0, BelowRootFacts
<1>2. Sits(t, n, above, at)
  BY <1>0, SitsBelow
<1>3. /\ Tree(u) /\ Linked(u) /\ a \in Nat /\ a \notin DOMAIN t.node
      /\ DOMAIN u.node = DOMAIN t.node \cup {a} /\ Neighbours(u, n, a)
      /\ Children(u, n) \o Children(u, a) = Children(t, n)
      /\ Children(u, above) = InsertAt(Children(t, above), at + 2, a)
      /\ \A m \in DOMAIN t.node \ {n, above} : Children(u, m) = Children(t, m)
  BY <1>0 DEF SplitInto
<1> HIDE DEF above, at
<1>4. ASSUME NEW m, NEW i, Sits(t, m, above, i)
      PROVE  Hangs(u, m, above, IF i <= at THEN i ELSE i + 1) /\ Hangs(u, a, above, at + 1)
  <2>1. above \in DOMAIN u.node /\ at < Len(Children(t, above))
    BY <1>1, <1>3
  <2> QED
    BY <1>0, <1>1, <1>3, <1>4, <2>1, SitsInserted
<1>5. Hangs(u, n, above, at) /\ Hangs(u, a, above, at + 1)
  BY <1>1, <1>2, <1>4
<1>6. ASSUME NEW m, NEW p, NEW i, Sits(t, m, p, i), p \notin {n, above}
      PROVE  Hangs(u, m, p, i)
  <2>1. p \in DOMAIN t.node /\ Children(u, p) = Children(t, p)
    BY <1>3, <1>6 DEF Sits
  <2>2. Sits(u, m, p, i)
    BY <1>3, <1>6, <2>1 DEF Sits
  <2> QED
    BY <1>3, <2>2, SitsHangs
<1>7. ASSUME NEW m, NEW i, Sits(t, m, n, i)
      PROVE  IF i <= NodeCount(u, n) THEN Hangs(u, m, n, i)
             ELSE Hangs(u, m, a, i - NodeCount(u, n) - 1)
  <2>1. n \in DOMAIN u.node /\ a \in DOMAIN u.node
    BY <1>0, <1>3
  <2>2. /\ Children(u, n) \in Seq(Nat) /\ Children(u, a) \in Seq(Nat)
        /\ Len(Children(u, n)) \in Nat /\ Len(Children(u, a)) \in Nat
        /\ Len(Children(t, n)) \in Nat /\ NodeCount(u, n) \in Nat
    BY <1>0, <1>3, <2>1, NodeFields, LenProperties
  <2>3. Len(Children(t, n)) = Len(Children(u, n)) + Len(Children(u, a))
    BY <1>3, <2>2, ConcatProperties
  <2>4. i \in 0..Len(Children(t, n)) - 1 /\ Children(t, n)[i + 1] = m
    BY <1>7 DEF Sits
  <2>5. ~Leaf(t, n)
    <3>1. Len(Children(t, n)) # 0
      BY <2>2, <2>4
    <3> QED
      BY <1>0, <3>1, NodeFacts DEF ChildPerGap
  <2>6. Len(Children(u, n)) = NodeCount(u, n) + 1
    <3>1. ~Leaf(u, n) /\ ChildPerGap(u, n)
      BY <1>0, <1>3, <2>5 DEF SplitInto, Neighbours, IsChild
    <3> QED
      BY <3>1 DEF ChildPerGap
  <2>7. i \in Nat /\ i < Len(Children(u, n)) + Len(Children(u, a))
    BY <2>2, <2>3, <2>4
  <2>8. /\ i < Len(Children(u, n)) => Children(u, n)[i + 1] = m /\ i \in 0..Len(Children(u, n)) - 1
        /\ i >= Len(Children(u, n)) =>
             /\ Children(u, a)[(i - Len(Children(u, n))) + 1] = m
             /\ i - Len(Children(u, n)) \in 0..Len(Children(u, a)) - 1
    <3> DEFINE c == Children(u, n)
               d == Children(u, a)
    <3>1. c \in Seq(Nat) /\ d \in Seq(Nat) /\ i \in Nat /\ i < Len(c) + Len(d)
          /\ (c \o d)[i + 1] = m
      BY <1>3, <2>2, <2>4, <2>7
    <3> HIDE DEF c, d
    <3>2. /\ i < Len(c) => (c \o d)[i + 1] = c[i + 1] /\ i \in 0..Len(c) - 1
          /\ i >= Len(c) => (c \o d)[i + 1] = d[(i - Len(c)) + 1] /\ i - Len(c) \in 0..Len(d) - 1
      BY <3>1, ConcatAt
    <3> QED
      BY <3>1, <3>2 DEF c, d
  <2>9. i <= NodeCount(u, n) => Sits(u, m, n, i)
    BY <2>1, <2>2, <2>6, <2>7, <2>8 DEF Sits
  <2>10. ~(i <= NodeCount(u, n)) => Sits(u, m, a, i - NodeCount(u, n) - 1)
    <3>1. i - NodeCount(u, n) - 1 = i - Len(Children(u, n))
      BY <2>2, <2>6, <2>7
    <3>2. ~(i <= NodeCount(u, n)) => i >= Len(Children(u, n))
      BY <2>2, <2>6, <2>7
    <3> QED
      BY <2>1, <2>8, <3>1, <3>2 DEF Sits
  <2> QED
    BY <1>3, <2>9, <2>10, SitsHangs
<1> QED
  BY <1>4, <1>5, <1>6, <1>7 DEF above, at

\* A level for the new node: that of the node it was split from.
LevelsWith(u, t, lev, n) == [m \in DOMAIN u.node |-> IF m \in DOMAIN t.node THEN lev[m] ELSE lev[n]]

LEMMA SplitInOrder ==
  ASSUME NEW t, NEW u, NEW lev, NEW n, NEW a, Splitting(t, u, lev, n, a),
         ~Full(t, Parent(t, n))
  PROVE  InOrder(u) /\ Graded(u, LevelsWith(u, t, lev, n))
<1> DEFINE above == Parent(t, n)
           at == Position(t, n)
           new == LevelsWith(u, t, lev, n)
<1>0. /\ InOrder(t) /\ Graded(t, lev) /\ n \in DOMAIN t.node /\ n # t.root
      /\ SplitInto(t, u, n, a) /\ Tree(t) /\ Linked(t)
  BY DEF Splitting, InOrder, Attached
<1>1. /\ above \in DOMAIN t.node /\ above # n
      /\ NodeCount(t, above) \in Nat /\ NodeCount(t, above) < kNodeValues
      /\ MaxCount(t, above) = kNodeValues /\ MaxCount(t, n) = kNodeValues
      /\ lev[n] \in Nat /\ lev[above] = lev[n] + 1 /\ lev[n] < lev[t.root]
  <2>1. NodeCount(t, above) <= MaxCount(t, above)
    BY <1>0, BelowRootFacts, NodeFacts
  <2>2. /\ above \in DOMAIN t.node /\ above # n /\ NodeCount(t, above) \in Nat
        /\ MaxCount(t, above) = kNodeValues /\ MaxCount(t, n) = kNodeValues
        /\ lev[n] \in Nat /\ lev[above] = lev[n] + 1 /\ lev[n] < lev[t.root]
    BY <1>0, BelowRootFacts
  <2>3. NodeCount(t, above) # MaxCount(t, above)
    BY DEF Full
  <2> HIDE DEF above, NodeCount
  <2> QED
    BY <2>1, <2>2, <2>3, kNodeValuesAssumption
<1>2. /\ Tree(u) /\ Linked(u) /\ IsFiniteSet(DOMAIN u.node)
      /\ a \in Nat /\ a # NoNode /\ a \notin DOMAIN t.node /\ DOMAIN u.node = DOMAIN t.node \cup {a}
      /\ u.root = t.root /\ u.asserts = t.asserts
      /\ \A m \in DOMAIN t.node :
           /\ u.node[m].fields = t.node[m].fields /\ Leaf(u, m) = Leaf(t, m)
           /\ MaxCount(u, m) = MaxCount(t, m)
      /\ u.node[a].fields # "root" /\ Leaf(u, a) = Leaf(t, n) /\ MaxCount(u, a) = kNodeValues
      /\ Neighbours(u, n, a) /\ Parent(u, n) = above
      /\ NodeCount(u, n) + NodeCount(u, a) + 1 = kNodeValues
      /\ NodeCount(u, above) = NodeCount(t, above) + 1
      /\ \A m \in DOMAIN t.node \ {n, above} :
           NodeCount(u, m) = NodeCount(t, m) /\ Children(u, m) = Children(t, m)
  BY <1>0 DEF SplitInto
<1>3. /\ t.root \in DOMAIN t.node /\ a # t.root /\ NoNode \notin DOMAIN u.node /\ u.asserts
  BY <1>0, <1>2 DEF InOrder
<1>4. /\ \A m \in DOMAIN t.node : new[m] = lev[m] /\ lev[m] \in Nat
      /\ new[a] = lev[n] /\ DOMAIN new = DOMAIN u.node
  BY <1>0, <1>2 DEF LevelsWith, Graded
<1> HIDE DEF above, at, new
<1>5. ASSUME NEW m \in DOMAIN u.node
      PROVE  ChildPerGap(u, m) /\ new[m] \in Nat /\ (Leaf(u, m) <=> new[m] = 0)
  <2>1. ChildPerGap(u, m)
    <3>1. CASE m \in {n, a, above}
      BY <1>2, <3>1 DEF Neighbours, IsChild
    <3>2. CASE m \notin {n, a, above}
      <4>1. ChildPerGap(t, m) /\ m \in DOMAIN t.node
        BY <1>0, <1>2, <3>2 DEF InOrder, Attached
      <4> QED
        BY <1>2, <3>2, <4>1 DEF ChildPerGap
    <3> QED
      BY <3>1, <3>2
  <2>2. new[m] \in Nat /\ (Leaf(u, m) <=> new[m] = 0)
    BY <1>0, <1>1, <1>2, <1>4 DEF Graded
  <2> QED
    BY <2>1, <2>2
<1>6. NodeCount(u, n) \in Nat /\ NodeCount(u, a) \in Nat
  BY <1>0, <1>2, NodeFields
<1>7. Sized(u)
  <2> SUFFICES ASSUME NEW m \in DOMAIN u.node
               PROVE  /\ u.node[m].fields = "root" <=> (m = u.root /\ ~Leaf(u, m))
                      /\ MaxCount(u, m) \in 1..kNodeValues
                      /\ MaxCount(u, m) = kNodeValues \/ (m = u.root /\ Leaf(u, m))
                      /\ NodeCount(u, m) <= MaxCount(u, m)
    BY DEF Sized
  <2>1. CASE m = a
    BY <1>2, <1>3, <1>6, <2>1, kNodeValuesAssumption
  <2>2. CASE m # a
    <3>1. m \in DOMAIN t.node
      BY <1>2, <2>2
    <3>2. NodeCount(u, m) <= MaxCount(u, m)
      <4>1. CASE m = n
        BY <1>1, <1>2, <1>6, <3>1, <4>1
      <4>2. CASE m = above
        BY <1>1, <1>2, <3>1, <4>2, kNodeValuesAssumption
      <4>3. CASE m \notin {n, above}
        BY <1>0, <1>2, <3>1, <4>3 DEF InOrder, Sized
      <4> QED
        BY <4>1, <4>2, <4>3
    <3> QED
      BY <1>0, <1>2, <3>1, <3>2 DEF InOrder, Sized
  <2> QED
    BY <2>1, <2>2
<1>8. ASSUME NEW m \in DOMAIN u.node, m # u.root
      PROVE  /\ new[m] < new[u.root]
             /\ \E q \in DOMAIN u.node : \E j \in Nat : Sits(u, m, q, j) /\ new[q] = new[m] + 1
  <2>1. CASE m = a
    <3>1. Sits(u, a, above, at + 1) /\ at + 1 \in Nat
      <4>1. Hangs(u, a, above, at + 1)
        BY SplitPlaces DEF above, at
      <4> QED
        BY <1>0, <4>1, NodeFields DEF Hangs, at
    <3> QED
      BY <1>1, <1>2, <1>3, <1>4, <2>1, <3>1
  <2>2. CASE m # a
    <3> DEFINE q == Parent(t, m)
               i == Position(t, m)
    <3>1. m \in DOMAIN t.node /\ m # t.root
      BY <1>2, <1>8, <2>2
    <3>2. /\ Sits(t, m, q, i) /\ q \in DOMAIN t.node /\ i \in Nat
          /\ lev[q] = lev[m] + 1 /\ lev[m] < lev[t.root]
      BY <1>0, <3>1, SitsBelow, BelowRootFacts
    <3> HIDE DEF q, i
    <3>3. /\ q \notin {n, above} => Hangs(u, m, q, i)
          /\ q = above => Hangs(u, m, above, IF i <= at THEN i ELSE i + 1)
          /\ q = n => IF i <= NodeCount(u, n) THEN Hangs(u, m, n, i)
                      ELSE Hangs(u, m, a, i - NodeCount(u, n) - 1)
      BY <3>2, SplitPlaces DEF above, at
    <3>4. PICK h, j : Hangs(u, m, h, j) /\ new[h] = lev[m] + 1 /\ h \in DOMAIN u.node
      BY <1>1, <1>2, <1>4, <3>2, <3>3
    <3>5. Sits(u, m, h, j) /\ j \in Nat
      BY <1>2, <3>1, <3>4, NodeFields DEF Hangs
    <3> QED
      BY <1>2, <1>3, <1>4, <3>1, <3>2, <3>4, <3>5
  <2> QED
    BY <2>1, <2>2
<1> QED
  BY <1>2, <1>3, <1>4, <1>5, <1>7, <1>8, InOrderWhen DEF new

\* The new node is the last leaf if the one it was split from was.
LEMMA SplitEdged ==
  ASSUME NEW t, NEW u, NEW lev, NEW n, NEW a, Splitting(t, u, lev, n, a),
         ~Full(t, Parent(t, n)), Edged(t)
  PROVE  LET v == MoveRightmost(u, n, a)
         IN SameNodes(u, v) /\ Shape(v, LevelsWith(u, t, lev, n))
<1> DEFINE above == Parent(t, n)
           at == Position(t, n)
           new == LevelsWith(u, t, lev, n)
           v == MoveRightmost(u, n, a)
<1>0. /\ InOrder(t) /\ Graded(t, lev) /\ n \in DOMAIN t.node /\ n # t.root
      /\ SplitInto(t, u, n, a) /\ Tree(t) /\ Linked(t)
  BY DEF Splitting, InOrder, Attached
<1>1. InOrder(u) /\ Graded(u, new)
  BY SplitInOrder
<1>2. /\ Tree(u) /\ a \notin DOMAIN t.node /\ DOMAIN u.node = DOMAIN t.node \cup {a}
      /\ u.root = t.root /\ u.rightmost = t.rightmost /\ Leftmost(u) = Leftmost(t)
      /\ \A m \in DOMAIN t.node : Leaf(u, m) = Leaf(t, m)
      /\ Leaf(u, a) = Leaf(t, n) /\ NodeCount(t, n) = kNodeValues
      /\ NodeCount(u, n) + NodeCount(u, a) + 1 = kNodeValues
      /\ NodeCount(u, above) = NodeCount(t, above) + 1
      /\ \A m \in DOMAIN t.node \ {n, above} : NodeCount(u, m) = NodeCount(t, m)
  BY <1>0 DEF SplitInto
<1>3. v = IF u.rightmost = n THEN [u EXCEPT !.rightmost = a] ELSE u
  BY DEF MoveRightmost
<1>4. SameNodes(u, v) /\ v.rightmost = IF u.rightmost = n THEN a ELSE u.rightmost
  <2>1. v.rightmost = IF u.rightmost = n THEN a ELSE u.rightmost
    BY <1>2, <1>3 DEF Tree
  <2> HIDE DEF v
  <2> QED
    BY <1>2, <1>3, <2>1 DEF SameNodes, Tree
<1> HIDE DEF v
<1>5. /\ InOrder(v) /\ Graded(v, new) /\ Leftmost(v) = Leftmost(u)
      /\ FirstChildren(v) = FirstChildren(u) /\ LastChildren(v) = LastChildren(u)
  BY <1>1, <1>4, SameNodesInOrder
<1>6. \A m : Leaf(v, m) = Leaf(u, m) /\ Parent(v, m) = Parent(u, m) /\ v.root = t.root
  BY <1>2, <1>4, SameNodesFacts DEF SameNodes
<1>7. /\ above \in DOMAIN t.node /\ above # n /\ at \in 0..NodeCount(t, above)
      /\ NodeCount(t, above) \in Nat /\ at \in Nat /\ a # t.root
      /\ Sits(t, n, above, at) /\ ~Leaf(t, t.root) /\ lev[n] < lev[t.root]
  <2>1. t.root \in DOMAIN t.node /\ a # t.root
    BY <1>0, <1>2 DEF InOrder
  <2>2. ~Leaf(t, t.root)
    <3>1. lev[n] \in Nat /\ lev[n] < lev[t.root] /\ (Leaf(t, t.root) <=> lev[t.root] = 0)
      BY <1>0, <2>1 DEF Graded
    <3> QED
      BY <3>1
  <2> QED
    BY <1>0, <2>1, <2>2, BelowRootFacts, SitsBelow
<1>8. /\ \A m, p, i : Sits(t, m, p, i) =>
           /\ p \notin {n, above} => Hangs(u, m, p, i)
           /\ p = above => Hangs(u, m, above, IF i <= at THEN i ELSE i + 1)
           /\ p = n => IF i <= NodeCount(u, n) THEN Hangs(u, m, n, i)
                       ELSE Hangs(u, m, a, i - NodeCount(u, n) - 1)
      /\ Hangs(u, n, above, at) /\ Hangs(u, a, above, at + 1)
  BY SplitPlaces
<1>9. /\ NodeCount(u, n) \in Nat /\ NodeCount(u, a) \in Nat
      /\ NodeCount(t, n) \in Nat /\ NodeCount(t, n) <= kNodeValues
  <2>1. NodeCount(u, n) \in Nat /\ NodeCount(u, a) \in Nat
    BY <1>0, <1>2, NodeFields
  <2>2. NodeCount(t, n) \in Nat /\ NodeCount(t, n) <= MaxCount(t, n) /\ MaxCount(t, n) = kNodeValues
    BY <1>0, NodeFacts
  <2> QED
    BY <2>1, <2>2
<1> HIDE DEF above, at, new
<1>10. AtEdge(v, Leftmost(v), FirstChildren(v))
  <2>1. PICK E \in SUBSET FirstChildren(t) :
          /\ Leftmost(t) \in E /\ Leaf(t, Leftmost(t))
          /\ \A m \in E : m # t.root => Parent(t, m) \in E
    BY <1>0 DEF Edged, AtEdge
  <2>2. ASSUME NEW m \in E, m # t.root
        PROVE  Parent(u, m) = Parent(t, m) /\ Position(u, m) = 0
    <3> DEFINE p == Parent(t, m)
    <3>1. m \in DOMAIN t.node /\ Position(t, m) = 0
      BY <2>1, <2>2 DEF FirstChildren
    <3>2. Sits(t, m, p, 0)
      BY <1>0, <2>2, <3>1, SitsBelow
    <3> HIDE DEF p
    <3>3. Hangs(u, m, p, 0)
      BY <1>7, <1>8, <1>9, <3>2
    <3> QED
      BY <3>3 DEF Hangs, p
  <2>3. E \in SUBSET FirstChildren(u)
    BY <1>2, <2>1, <2>2 DEF FirstChildren
  <2>4. Leftmost(v) \in E /\ Leaf(v, Leftmost(v))
    BY <1>2, <1>5, <1>6, <2>1 DEF FirstChildren
  <2>5. \A m \in E : m # v.root => Parent(v, m) \in E
    BY <1>6, <2>1, <2>2
  <2> QED
    BY <1>5, <2>3, <2>4, <2>5 DEF AtEdge
<1>11. AtEdge(v, Rightmost(v), LastChildren(v))
  <2>1. PICK E \in SUBSET LastChildren(t) :
          /\ Rightmost(t) \in E /\ Leaf(t, Rightmost(t))
          /\ \A m \in E : m # t.root => Parent(t, m) \in E
    BY <1>0 DEF Edged, AtEdge
  <2> DEFINE F == IF n \in E THEN (E \ {n}) \cup {a} ELSE E
  <2>2. ASSUME NEW m \in E, m # t.root, m # n
        PROVE  Parent(u, m) \in F /\ Position(u, m) = NodeCount(u, Parent(u, m))
    <3> DEFINE p == Parent(t, m)
               i == Position(t, m)
    <3>1. m \in DOMAIN t.node /\ i = NodeCount(t, p) /\ p \in E
      BY <2>1, <2>2 DEF LastChildren
    <3>2. Sits(t, m, p, i) /\ p \in DOMAIN t.node /\ i \in Nat
      BY <1>0, <2>2, <3>1, SitsBelow, BelowRootFacts
    <3> HIDE DEF p, i
    <3>3. CASE p \notin {n, above}
      <4>1. Hangs(u, m, p, i) /\ NodeCount(u, p) = NodeCount(t, p)
        BY <1>2, <1>8, <3>2, <3>3
      <4> QED
        BY <3>1, <3>3, <4>1 DEF Hangs
    <3>4. CASE p = above
      <4>1. i # at
        BY <1>7, <2>2, <3>2, <3>4 DEF Sits
      <4>2. ~(i <= at) /\ i + 1 = NodeCount(u, above)
        BY <1>2, <1>7, <3>1, <3>4, <4>1
      <4>3. Hangs(u, m, above, i + 1)
        BY <1>8, <3>2, <3>4, <4>2
      <4> QED
        BY <1>7, <3>1, <3>4, <4>2, <4>3 DEF Hangs
    <3>5. CASE p = n
      <4>2. ~(i <= NodeCount(u, n)) /\ i - NodeCount(u, n) - 1 = NodeCount(u, a)
        BY <1>2, <1>9, <3>1, <3>5
      <4>3. Hangs(u, m, a, NodeCount(u, a))
        BY <1>8, <3>2, <3>5, <4>2
      <4> QED
        BY <3>1, <3>5, <4>3 DEF Hangs
    <3> QED
      BY <3>3, <3>4, <3>5
  <2>3. n \in E => Parent(u, a) \in F /\ Position(u, a) = NodeCount(u, Parent(u, a))
    <3> SUFFICES ASSUME n \in E
                 PROVE  Parent(u, a) \in F /\ Position(u, a) = NodeCount(u, Parent(u, a))
      OBVIOUS
    <3>1. at = NodeCount(t, above) /\ above \in E
      BY <1>0, <2>1 DEF LastChildren, above, at
    <3> QED
      BY <1>2, <1>7, <1>8, <3>1 DEF Hangs
  <2>4. ASSUME NEW m \in F, m # t.root
        PROVE  Parent(u, m) \in F /\ Position(u, m) = NodeCount(u, Parent(u, m))
    BY <2>2, <2>3, <2>4
  <2>5. F \in SUBSET LastChildren(u)
    <3>1. F \subseteq DOMAIN u.node
      BY <1>2, <2>1 DEF LastChildren
    <3> HIDE DEF F
    <3> QED
      BY <1>2, <2>4, <3>1 DEF LastChildren
  <2>6. Rightmost(v) \in F /\ Leaf(v, Rightmost(v))
    <3>1. Rightmost(t) = t.rightmost /\ Rightmost(v) = v.rightmost
      <4>1. t.root \in DOMAIN t.node /\ t.root # NoNode /\ ~Leaf(v, v.root)
        BY <1>0, <1>2, <1>6, <1>7 DEF InOrder
      <4> QED
        BY <1>6, <1>7, <4>1 DEF Rightmost
    <3>2. CASE t.rightmost = n
      BY <1>2, <1>4, <1>6, <2>1, <3>1, <3>2
    <3>3. CASE t.rightmost # n
      <4>1. Rightmost(v) = Rightmost(t) /\ Rightmost(t) \in DOMAIN t.node
        BY <1>2, <1>4, <2>1, <3>1, <3>3 DEF LastChildren
      <4> QED
        BY <1>2, <1>6, <2>1, <3>1, <3>3, <4>1
    <3> QED
      BY <3>2, <3>3
  <2>7. \A m \in F : m # v.root => Parent(v, m) \in F
    BY <1>6, <2>4
  <2> HIDE DEF F
  <2> QED
    BY <1>5, <2>5, <2>6, <2>7 DEF AtEdge
<1> QED
  BY <1>4, <1>5, <1>10, <1>11 DEF Shape, Edged, v, new

\* Neither part is empty but the one that the insertion is to go into.
LEMMA SplitSizes ==
  ASSUME NEW k \in Nat, k >= 3, NEW sc, NEW p \in 0..k,
         sc = IF p = 0 THEN k - 1 ELSE IF p = k THEN 0 ELSE k \div 2,
         NEW kept \in Nat, NEW moved \in Nat, kept + moved + 1 = k, moved = sc
  PROVE  /\ p > kept => kept >= 1 /\ p - kept - 1 \in Nat /\ p - kept - 1 <= moved
         /\ p <= kept => moved >= 1
         /\ kept < k /\ moved < k
<1>1. k \div 2 \in Nat /\ 2 * (k \div 2) <= k /\ k < 2 * (k \div 2) + 2
  OBVIOUS
<1> QED
  BY <1>1

\* rightmost is a leaf: splitting an internal node leaves it as it is.
LEMMA RightmostIsLeaf ==
  ASSUME NEW t, NEW lev, Shape(t, lev), NEW n \in DOMAIN t.node, n # t.root, ~Leaf(t, n)
  PROVE  t.rightmost # n
<1>1. Leaf(t, Rightmost(t))
  BY DEF Shape, Edged, AtEdge
<1>2. InOrder(t) /\ Graded(t, lev) /\ t.root \in DOMAIN t.node
  BY DEF Shape, InOrder
<1>3. lev[n] \in Nat /\ lev[n] < lev[t.root]
  BY <1>2 DEF Graded
<1>4. t.root # NoNode /\ ~Leaf(t, t.root)
  BY <1>2, <1>3, NodeFacts
<1> QED
  BY <1>1, <1>4 DEF Rightmost

LEMMA SplitMakesRoom ==
  ASSUME NEW t, NEW lev, NEW n, NEW p, FullBelowRoot(t, lev, n, p), ~Full(t, Parent(t, n)),
         \A m \in DOMAIN t.node \ {Parent(t, n)} : NodeCount(t, m) >= 1
  PROVE  LET r == SplitNode(t, n, p)
         IN RoomMade(t, r.t, lev, LevelsWith(r.t, t, lev, n), n, p, r.it) /\ r.t.root = t.root
<1> DEFINE a == FreshAddress(t)
           above == Parent(t, n)
           at == Position(t, n)
           u == Split(Allocate(t, NewSibling(t, n)), n, a, p)
           v == MoveRightmost(u, n, a)
           new == LevelsWith(v, t, lev, n)
           end == IF p > NodeCount(v, n) THEN It(a, p - NodeCount(v, n) - 1) ELSE It(n, p)
<1>0. /\ Shape(t, lev) /\ InOrder(t) /\ Graded(t, lev) /\ Edged(t)
      /\ n \in DOMAIN t.node /\ n # t.root /\ Full(t, n) /\ p \in 0..NodeCount(t, n)
      /\ Tree(t) /\ Linked(t)
  BY DEF FullBelowRoot, Shape, InOrder, Attached
<1>1. SplitInto(t, u, n, a) /\ NodeCount(u, a) = SplitCount(t, n, p)
  BY SplitGives
<1>2. SplitNode(t, n, p) = [t |-> v, it |-> end]
  <2> HIDE DEF u, v
  <2>1. SplitNode(t, n, p) = AfterSplit(u, n, a, p)
    BY DEF SplitNode, u
  <2>2. AfterSplit(u, n, a, p) =
          [t |-> v, it |-> IF p > NodeCount(u, n) THEN It(a, p - NodeCount(u, n) - 1) ELSE It(n, p)]
    <3>1. u.rightmost = t.rightmost /\ Leaf(u, n) = Leaf(t, n)
      BY <1>0, <1>1 DEF SplitInto
    <3>2. ~Leaf(u, n) => v = u
      BY <1>0, <3>1, RightmostIsLeaf DEF v, MoveRightmost
    <3> QED
      BY <3>2 DEF AfterSplit, v
  <2>3. NodeCount(v, n) = NodeCount(u, n)
    BY DEF v, MoveRightmost, NodeCount, Values
  <2> QED
    BY <2>1, <2>2, <2>3
<1> HIDE DEF u, a
<1>3. Splitting(t, u, lev, n, a)
  BY <1>0, <1>1 DEF Splitting
<1>4. SameNodes(u, v) /\ Shape(v, LevelsWith(u, t, lev, n))
  BY <1>0, <1>3, SplitEdged
<1> HIDE DEF v
<1>5. v.node = u.node /\ v.root = u.root /\ LevelsWith(u, t, lev, n) = new
  BY <1>4 DEF SameNodes, LevelsWith
<1>6. \A m : /\ Parent(v, m) = Parent(u, m) /\ Position(v, m) = Position(u, m)
             /\ NodeCount(v, m) = NodeCount(u, m) /\ MaxCount(v, m) = MaxCount(u, m)
  BY <1>4, SameNodesFacts
<1>7. /\ Tree(u) /\ a \notin DOMAIN t.node /\ DOMAIN u.node = DOMAIN t.node \cup {a} /\ a \in Nat
      /\ u.root = t.root
      /\ \A m \in DOMAIN t.node : MaxCount(u, m) = MaxCount(t, m)
      /\ MaxCount(u, a) = kNodeValues /\ NodeCount(t, n) = kNodeValues
      /\ NodeCount(u, n) + NodeCount(u, a) + 1 = kNodeValues
      /\ NodeCount(u, above) = NodeCount(t, above) + 1
      /\ \A m \in DOMAIN t.node \ {n, above} : NodeCount(u, m) = NodeCount(t, m)
  BY <1>1 DEF SplitInto
<1>8. /\ above \in DOMAIN t.node /\ above # n /\ NodeCount(t, above) \in Nat
      /\ MaxCount(t, n) = kNodeValues
      /\ lev[n] \in Nat /\ lev[above] = lev[n] + 1 /\ lev[n] < lev[t.root]
  BY <1>0, BelowRootFacts
<1>9. /\ \A m, q, i : Sits(t, m, q, i) =>
           /\ q \notin {n, above} => Hangs(u, m, q, i)
           /\ q = n => IF i <= NodeCount(u, n) THEN Hangs(u, m, n, i)
                       ELSE Hangs(u, m, a, i - NodeCount(u, n) - 1)
  BY <1>3, SplitPlaces
<1>10. /\ NodeCount(u, n) \in Nat /\ NodeCount(u, a) \in Nat /\ kNodeValues \in Nat
       /\ kNodeValues >= 3 /\ p \in 0..kNodeValues
  BY <1>0, <1>7, NodeFields, kNodeValuesAssumption
<1>11. /\ p > NodeCount(u, n) =>
            /\ NodeCount(u, n) >= 1 /\ p - NodeCount(u, n) - 1 \in Nat
            /\ p - NodeCount(u, n) - 1 <= NodeCount(u, a)
       /\ p <= NodeCount(u, n) => NodeCount(u, a) >= 1
       /\ NodeCount(u, n) < kNodeValues /\ NodeCount(u, a) < kNodeValues
  <2>1. SplitCount(t, n, p) =
          IF p = 0 THEN kNodeValues - 1 ELSE IF p = kNodeValues THEN 0 ELSE kNodeValues \div 2
    BY <1>7, <1>8 DEF SplitCount
  <2> DEFINE sc == SplitCount(t, n, p)
             kept == NodeCount(u, n)
             moved == NodeCount(u, a)
  <2>2. /\ sc = IF p = 0 THEN kNodeValues - 1 ELSE IF p = kNodeValues THEN 0 ELSE kNodeValues \div 2
        /\ kept + moved + 1 = kNodeValues /\ moved = sc /\ kept \in Nat /\ moved \in Nat
    BY <1>1, <1>7, <1>10, <2>1
  <2> HIDE DEF sc, kept, moved
  <2>3. /\ p > kept => kept >= 1 /\ p - kept - 1 \in Nat /\ p - kept - 1 <= moved
        /\ p <= kept => moved >= 1
        /\ kept < kNodeValues /\ moved < kNodeValues
    BY <1>10, <2>2, SplitSizes
  <2> QED
    BY <2>3 DEF kept, moved
<1>12. end = IF p > NodeCount(u, n) THEN It(a, p - NodeCount(u, n) - 1) ELSE It(n, p)
  BY <1>6
<1> HIDE DEF end, above, at
<1>13. /\ p > NodeCount(u, n) =>
            end.node = a /\ end.position = p - NodeCount(u, n) - 1
            /\ end = It(a, p - NodeCount(u, n) - 1)
       /\ p <= NodeCount(u, n) => end.node = n /\ end.position = p /\ end = It(n, p)
  BY <1>10, <1>12 DEF It
<1>14. p > NodeCount(u, n) \/ p <= NodeCount(u, n)
  BY <1>10
<1>15. end \in [node : DOMAIN v.node, position : Nat] /\ end.position <= NodeCount(v, end.node)
  <2>1. CASE p > NodeCount(u, n)
    BY <1>5, <1>6, <1>7, <1>11, <1>13, <2>1 DEF It
  <2>2. CASE p <= NodeCount(u, n)
    <3>1. p \in Nat /\ n \in DOMAIN v.node
      BY <1>0, <1>5, <1>7, <1>10
    <3> QED
      BY <1>6, <1>13, <2>2, <3>1 DEF It
  <2> QED
    BY <1>14, <2>1, <2>2
<1>16. end.node \in {n, a} /\ new[n] = lev[n] /\ new[a] = lev[n] /\ new[end.node] = lev[n]
  <2>1. new[n] = lev[n] /\ new[a] = lev[n]
    BY <1>0, <1>5, <1>7 DEF LevelsWith
  <2> QED
    BY <1>13, <1>14, <2>1
<1> HIDE DEF new
<1>17. ~Full(v, end.node)
  <2>1. NodeCount(v, end.node) < kNodeValues /\ MaxCount(v, end.node) = kNodeValues
    BY <1>0, <1>6, <1>7, <1>8, <1>11, <1>16
  <2> QED
    BY <1>10, <2>1 DEF Full
<1>18. ASSUME NEW c, Sits(t, c, n, p)
       PROVE  Parent(v, c) = end.node
  BY <1>6, <1>9, <1>13, <1>14, <1>18, <1>10 DEF Hangs
<1>19. ASSUME NEW m \in DOMAIN v.node \ {end.node}
       PROVE  NodeCount(v, m) >= 1
  <2>1. CASE m = n
    BY <1>6, <1>11, <1>13, <1>14, <1>19, <2>1
  <2>2. CASE m = a
    BY <1>6, <1>11, <1>13, <1>14, <1>19, <2>2
  <2>3. CASE m = above
    BY <1>6, <1>7, <1>8, <2>3
  <2>4. CASE m \notin {n, a, above}
    BY <1>5, <1>6, <1>7, <1>19, <2>4 DEF above
  <2> QED
    BY <2>1, <2>2, <2>3, <2>4
<1>20. BelowKept(t, v, lev, new, n)
  <2> SUFFICES ASSUME NEW m \in DOMAIN t.node, lev[m] < lev[n]
               PROVE  /\ m \in DOMAIN v.node /\ m # v.root /\ new[m] = lev[m]
                      /\ NodeCount(v, m) = NodeCount(t, m) /\ MaxCount(v, m) = MaxCount(t, m)
                      /\ lev[Parent(t, m)] < lev[n] =>
                           Parent(v, m) = Parent(t, m) /\ Position(v, m) = Position(t, m)
    BY DEF BelowKept
  <2>1. m # n /\ m # above /\ m # t.root
    <3>1. lev[m] \in Nat /\ lev[t.root] \in Nat
      BY <1>0, NodeFacts
    <3> QED
      BY <1>8, <3>1
  <2>2. /\ m \in DOMAIN v.node /\ m # v.root /\ new[m] = lev[m]
        /\ NodeCount(v, m) = NodeCount(t, m) /\ MaxCount(v, m) = MaxCount(t, m)
    BY <1>5, <1>6, <1>7, <2>1 DEF LevelsWith, new
  <2>3. ASSUME lev[Parent(t, m)] < lev[n]
        PROVE  Parent(v, m) = Parent(t, m) /\ Position(v, m) = Position(t, m)
    <3>1. Parent(t, m) \notin {n, above}
      <4>1. lev[Parent(t, m)] # lev[n] /\ lev[Parent(t, m)] # lev[above]
        BY <1>8, <2>3
      <4> QED
        BY <4>1
    <3>2. Sits(t, m, Parent(t, m), Position(t, m))
      BY <1>0, <2>1, SitsBelow
    <3> QED
      BY <1>6, <1>9, <3>1, <3>2 DEF Hangs
  <2> QED
    BY <2>2, <2>3
<1>21. RoomMade(t, v, lev, new, n, p, end)
  BY <1>4, <1>5, <1>15, <1>16, <1>17, <1>18, <1>19, <1>20 DEF RoomMade
<1> QED
  BY <1>2, <1>5, <1>7, <1>21 DEF new

-------------------------------------------------------------------------------
\* Raising a full root.

LEMMA LeafRootAlone ==
  ASSUME NEW t, NEW lev, Shape(t, lev), Leaf(t, t.root)
  PROVE  /\ DOMAIN t.node = {t.root} /\ t.root # NoNode /\ Children(t, t.root) = <<>>
         /\ Leftmost(t) = t.root /\ Parent(t, t.root) = t.root /\ lev[t.root] = 0
<1>0. InOrder(t) /\ Graded(t, lev) /\ Edged(t) /\ t.root \in DOMAIN t.node
  BY DEF Shape, InOrder
<1>1. lev[t.root] = 0 /\ t.root # NoNode
  BY <1>0, NodeFacts
<1>2. DOMAIN t.node = {t.root}
  <2>1. ASSUME NEW m \in DOMAIN t.node, m # t.root
        PROVE  FALSE
    <3>1. lev[m] \in Nat /\ lev[m] < lev[t.root]
      BY <1>0, <2>1 DEF Graded
    <3> QED
      BY <1>1, <3>1
  <2> QED
    BY <1>0, <2>1
<1>3. Children(t, t.root) = <<>>
  <2>1. Children(t, t.root) \in Seq(Nat) /\ Len(Children(t, t.root)) = 0
    BY <1>0, NodeFacts DEF ChildPerGap
  <2> QED
    BY <2>1, EmptySeq
<1>4. Leftmost(t) = t.root
  <2>1. Leftmost(t) \in DOMAIN t.node
    BY <1>0 DEF Edged, AtEdge, FirstChildren
  <2> QED
    BY <1>2, <2>1
<1>5. Parent(t, t.root) = t.root
  BY <1>1, <1>4 DEF Leftmost
<1> QED
  BY <1>1, <1>2, <1>3, <1>4, <1>5

\* u is t with n, holding what the root of t holds, below a root with nothing.
Raised(t, u, lev, new, n) ==
  /\ Shape(u, new) /\ n \in DOMAIN u.node /\ n # u.root /\ Parent(u, n) = u.root
  /\ NodeCount(u, u.root) = 0 /\ NodeCount(u, n) = NodeCount(t, t.root)
  /\ new = [m \in DOMAIN u.node |->
              IF m = u.root THEN lev[t.root] + 1
              ELSE IF m \in DOMAIN t.node THEN lev[m] ELSE lev[t.root]]
  /\ DOMAIN t.node \subseteq DOMAIN u.node /\ new[n] = lev[t.root]
  /\ \A m \in DOMAIN u.node \ {u.root} : m = n \/ m \in DOMAIN t.node \ {t.root}
  /\ \A m \in DOMAIN t.node \ {t.root} :
       /\ m # u.root /\ NodeCount(u, m) = NodeCount(t, m) /\ MaxCount(u, m) = MaxCount(t, m)
       /\ Parent(t, m) # t.root => Parent(u, m) = Parent(t, m) /\ Position(u, m) = Position(t, m)
  /\ \A c, i : Sits(t, c, t.root, i) => Sits(u, c, n, i)

\* c, perhaps n itself, has become the first child of a node without any.
FirstChild(t, u, n, c) ==
  /\ Tree(u) /\ SameFrame(t, u) /\ u.asserts = t.asserts
  /\ \A m \in DOMAIN t.node :
       /\ Values(u, m) = Values(t, m)
       /\ Children(u, m) = IF m = n THEN <<c>> ELSE Children(t, m)
       /\ Parent(u, m) = IF m = c THEN n ELSE Parent(t, m)
       /\ Position(u, m) = IF m = c THEN 0 ELSE Position(t, m)

LEMMA SetChildFirst ==
  ASSUME NEW t, Tree(t), NEW n \in DOMAIN t.node, NEW c \in DOMAIN t.node, Children(t, n) = <<>>
  PROVE  FirstChild(t, SetChild(t, n, 0, c), n, c)
<1> DEFINE kids == <<c>>
           new == [t.node[n] EXCEPT !.children = kids]
           one == [t.node EXCEPT ![n] = new]
           placed == [one[c] EXCEPT !.parent = n, !.position = 0]
           node == [one EXCEPT ![c] = placed]
           u == SetChild(t, n, 0, c)
<1>1. c \in Nat /\ n \in Nat
  BY NodeFields
<1>2. kids \in Seq(Nat) /\ Append(<<>>, c) = kids /\ ~(0 < Len(<<>>))
  BY <1>1
<1>3. t.node \in [DOMAIN t.node -> Node] /\ t.node[n] \in Node /\ t.node[c] \in Node
  BY DEF Tree
<1>4. u = [t EXCEPT !.node = node]
  <2>1. u = [t EXCEPT !.node[n].children = IF 0 < Len(Children(t, n))
                                           THEN ReplaceAt(Children(t, n), 0 + 1, c)
                                           ELSE Append(Children(t, n), c),
                      !.node[c].parent = n,
                      !.node[c].position = 0]
    BY DEF SetChild, Children
  <2>2. u = [t EXCEPT !.node[n].children = kids, !.node[c].parent = n, !.node[c].position = 0]
    BY <1>2, <2>1
  <2> HIDE DEF u, kids
  <2> QED
    BY <1>3, <2>2
<1> HIDE DEF kids, u
<1>5. /\ new \in Node
      /\ new.fields = t.node[n].fields /\ new.max_count = t.node[n].max_count
      /\ new.parent = t.node[n].parent /\ new.position = t.node[n].position
      /\ new.values = t.node[n].values /\ new.children = kids
  BY <1>2, <1>3 DEF Node
<1> HIDE DEF new
<1>6. /\ one \in [DOMAIN t.node -> Node] /\ DOMAIN one = DOMAIN t.node
      /\ \A m \in DOMAIN t.node : one[m] = IF m = n THEN new ELSE t.node[m]
  BY <1>3, <1>5
<1> HIDE DEF one
<1>7. /\ placed \in Node
      /\ placed.fields = one[c].fields /\ placed.max_count = one[c].max_count
      /\ placed.parent = n /\ placed.position = 0
      /\ placed.values = one[c].values /\ placed.children = one[c].children
  <2>1. one[c] \in Node
    BY <1>6
  <2> QED
    BY <1>1, <2>1 DEF Node
<1> HIDE DEF placed
<1>8. /\ node \in [DOMAIN t.node -> Node] /\ DOMAIN node = DOMAIN t.node
      /\ \A m \in DOMAIN t.node : node[m] = IF m = c THEN placed ELSE one[m]
  BY <1>6, <1>7
<1> HIDE DEF node
<1>9. /\ u.node = node
      /\ u.root = t.root /\ u.rightmost = t.rightmost /\ u.size = t.size /\ u.asserts = t.asserts
      /\ u = [node |-> u.node, root |-> u.root, rightmost |-> u.rightmost, size |-> u.size,
              asserts |-> u.asserts]
  BY <1>4 DEF Tree
<1>10. ASSUME NEW m \in DOMAIN t.node
       PROVE  /\ u.node[m].fields = t.node[m].fields /\ u.node[m].max_count = t.node[m].max_count
              /\ u.node[m].values = t.node[m].values
              /\ u.node[m].children = IF m = n THEN kids ELSE t.node[m].children
              /\ u.node[m].parent = IF m = c THEN n ELSE t.node[m].parent
              /\ u.node[m].position = IF m = c THEN 0 ELSE t.node[m].position
  BY <1>5, <1>6, <1>7, <1>8, <1>9
<1>11. Tree(u) /\ SameFrame(t, u)
  BY <1>8, <1>9, <1>10 DEF Tree, SameFrame, MaxCount
<1> QED
  BY <1>9, <1>10, <1>11 DEF FirstChild, u, kids, Values, Children, Parent, Position

LEMMA LeafRaised ==
  ASSUME NEW t, NEW lev, Shape(t, lev), Leaf(t, t.root), MaxCount(t, t.root) = kNodeValues
  PROVE  LET r == RaiseRoot(t)
         IN \E new : Raised(t, r.t, lev, new, r.node)
<1> DEFINE root == t.root
           a == FreshAddress(t)
           s == Allocate(t, RootNode(Leftmost(t)))
           w == [SetChild(InitRoot(s), a, 0, t.root) EXCEPT !.root = a]
<1>0. /\ InOrder(t) /\ Graded(t, lev) /\ Tree(t) /\ Linked(t) /\ IsFiniteSet(DOMAIN t.node)
      /\ root \in DOMAIN t.node /\ NoNode \notin DOMAIN t.node /\ t.asserts
  BY DEF Shape, InOrder, Attached
<1>1. /\ DOMAIN t.node = {root} /\ root # NoNode /\ Children(t, root) = <<>>
      /\ Leftmost(t) = root /\ Parent(t, root) = root /\ lev[root] = 0 /\ root \in Nat
  BY <1>0, LeafRootAlone, NodeFields
<1>2. Blank(RootNode(root), "root", root, kNodeValues)
  BY <1>1, NewNodes
<1>3. Added(t, s, a, RootNode(root))
  BY <1>0, <1>1, <1>2, AllocateAdds DEF Blank
<1> HIDE DEF a, s, root
<1>4. /\ Tree(s) /\ IsFiniteSet(DOMAIN s.node) /\ a \in Nat /\ a # NoNode /\ a # root
      /\ DOMAIN s.node = {root, a} /\ s.node[a] = RootNode(root) /\ s.node[root] = t.node[root]
      /\ s.root = root /\ s.asserts = t.asserts
  BY <1>1, <1>3 DEF Added, root
<1> DEFINE x == InitRoot(s)
           y == SetChild(x, a, 0, root)
<1>5. SameNodes(s, x) /\ x.rightmost = root /\ Tree(x)
  <2>1. Leftmost(s) = root
    BY <1>1, <1>4 DEF Leftmost, Parent, root
  <2>2. x = [s EXCEPT !.rightmost = root, !.size = NodeCount(s, root)]
    BY <2>1 DEF InitRoot
  <2> HIDE DEF x
  <2> QED
    BY <1>4, <2>2 DEF SameNodes, Tree
<1> HIDE DEF x
<1>6. /\ x.node = s.node /\ x.root = root /\ x.asserts = t.asserts
      /\ Children(x, a) = <<>>
  BY <1>2, <1>4, <1>5 DEF SameNodes, Children, Blank
<1>7. FirstChild(x, y, a, root)
  BY <1>4, <1>5, <1>6, SetChildFirst
<1> HIDE DEF y
<1>8. w = [y EXCEPT !.root = a]
  BY DEF y, x, root
<1>9. /\ w.node = y.node /\ w.root = a /\ w.rightmost = root /\ w.asserts = t.asserts /\ Tree(w)
      /\ DOMAIN w.node = {root, a}
  <2>1. /\ Tree(y) /\ y.rightmost = root /\ y.asserts = t.asserts /\ DOMAIN y.node = {root, a}
    BY <1>4, <1>5, <1>6, <1>7 DEF FirstChild, SameFrame
  <2> HIDE DEF w
  <2> QED
    BY <1>4, <1>8, <2>1 DEF Tree
<1> HIDE DEF w
<1>10. /\ Children(w, a) = <<root>> /\ Children(w, root) = <<>>
       /\ Parent(w, root) = a /\ Position(w, root) = 0 /\ Parent(w, a) = root
       /\ Values(w, a) = <<>> /\ Values(w, root) = Values(t, root)
       /\ Leaf(w, root) /\ ~Leaf(w, a) /\ w.node[a].fields = "root" /\ w.node[root].fields = "leaf"
       /\ MaxCount(w, a) = kNodeValues /\ MaxCount(w, root) = kNodeValues
  <2>1. /\ \A m \in {root, a} :
             /\ y.node[m].fields = s.node[m].fields /\ MaxCount(y, m) = MaxCount(s, m)
             /\ Values(y, m) = Values(s, m)
             /\ Children(y, m) = IF m = a THEN <<root>> ELSE Children(s, m)
             /\ Parent(y, m) = IF m = root THEN a ELSE Parent(s, m)
        /\ Position(y, root) = 0
    BY <1>4, <1>6, <1>7 DEF FirstChild, SameFrame, Values, Children, Parent, Position, MaxCount
  <2>2. /\ s.node[a].fields = "root" /\ MaxCount(s, a) = kNodeValues /\ Values(s, a) = <<>>
        /\ Parent(s, a) = root
    BY <1>2, <1>4 DEF Blank, MaxCount, Values, Parent
  <2>3. /\ s.node[root].fields = "leaf" /\ MaxCount(s, root) = kNodeValues
        /\ Values(s, root) = Values(t, root) /\ Children(s, root) = <<>>
    BY <1>1, <1>4 DEF MaxCount, Values, Children, Leaf, root
  <2> QED
    BY <1>4, <1>9, <2>1, <2>2, <2>3 DEF Leaf, MaxCount, Values, Children, Parent, Position
<1> DEFINE new == [m \in DOMAIN w.node |->
                     IF m = w.root THEN lev[t.root] + 1
                     ELSE IF m \in DOMAIN t.node THEN lev[m] ELSE lev[t.root]]
<1>11. DOMAIN new = {root, a} /\ new[a] = 1 /\ new[root] = 0
  BY <1>1, <1>4, <1>9 DEF root
<1> HIDE DEF new
<1>12. NodeCount(w, a) = 0 /\ NodeCount(w, root) = NodeCount(t, root)
       /\ NodeCount(t, root) \in Nat /\ NodeCount(t, root) <= kNodeValues
       /\ kNodeValues \in Nat /\ kNodeValues >= 3
  <2>1. NodeCount(w, a) = 0 /\ NodeCount(w, root) = NodeCount(t, root)
    BY <1>10 DEF NodeCount
  <2> QED
    BY <1>0, <2>1, NodeFacts DEF root
<1>13. Len(<<root>>) = 1 /\ <<root>>[1] = root /\ Len(<<>>) = 0
  OBVIOUS
<1>14. Linked(w)
  <2>1. Links(w, a)
    BY <1>4, <1>9, <1>10, <1>13 DEF Links
  <2>2. Links(w, root)
    BY <1>10, <1>13 DEF Links
  <2> QED
    BY <1>9, <2>1, <2>2 DEF Linked
<1>15. Sits(w, root, a, 0)
  BY <1>9, <1>10, <1>13 DEF Sits
<1>16. ChildPerGap(w, a) /\ ChildPerGap(w, root)
  BY <1>10, <1>12, <1>13 DEF ChildPerGap
<1>17. Sized(w)
  <2> SUFFICES ASSUME NEW m \in {root, a}
               PROVE  /\ w.node[m].fields = "root" <=> (m = w.root /\ ~Leaf(w, m))
                      /\ MaxCount(w, m) \in 1..kNodeValues
                      /\ MaxCount(w, m) = kNodeValues \/ (m = w.root /\ Leaf(w, m))
                      /\ NodeCount(w, m) <= MaxCount(w, m)
    BY <1>9 DEF Sized
  <2>1. CASE m = a
    BY <1>9, <1>10, <1>12, <2>1
  <2>2. CASE m = root
    BY <1>4, <1>9, <1>10, <1>12, <2>2
  <2> QED
    BY <2>1, <2>2
<1>18. InOrder(w) /\ Graded(w, new)
  <2>1. /\ IsFiniteSet(DOMAIN w.node) /\ NoNode \notin DOMAIN w.node /\ w.root \in DOMAIN w.node
        /\ w.asserts /\ DOMAIN new = DOMAIN w.node
    BY <1>0, <1>1, <1>4, <1>9, <1>11
  <2>2. \A m \in DOMAIN w.node :
          ChildPerGap(w, m) /\ new[m] \in Nat /\ (Leaf(w, m) <=> new[m] = 0)
    BY <1>9, <1>10, <1>11, <1>16
  <2>3. \A m \in DOMAIN w.node \ {w.root} :
          /\ new[m] < new[w.root]
          /\ \E p \in DOMAIN w.node : \E i \in Nat : Sits(w, m, p, i) /\ new[p] = new[m] + 1
    BY <1>9, <1>11, <1>15
  <2> QED
    BY <1>9, <1>14, <1>17, <2>1, <2>2, <2>3, InOrderWhen
<1>19. Edged(w)
  <2>1. Leftmost(w) = root /\ Rightmost(w) = root
    BY <1>4, <1>9, <1>10 DEF Leftmost, Rightmost
  <2>2. {root, a} \in SUBSET FirstChildren(w) /\ {root, a} \in SUBSET LastChildren(w)
    BY <1>9, <1>10, <1>12 DEF FirstChildren, LastChildren
  <2>3. \A m \in {root, a} : m # w.root => Parent(w, m) \in {root, a}
    BY <1>9, <1>10
  <2> QED
    BY <1>10, <2>1, <2>2, <2>3 DEF Edged, AtEdge
<1>20. Raised(t, w, lev, new, root)
  <2>1. \A c, i : ~Sits(t, c, root, i)
    BY <1>1, <1>13 DEF Sits
  <2>2. new = [m \in DOMAIN w.node |->
                 IF m = w.root THEN lev[t.root] + 1
                 ELSE IF m \in DOMAIN t.node THEN lev[m] ELSE lev[t.root]]
    BY DEF new
  <2> QED
    BY <1>1, <1>4, <1>9, <1>10, <1>11, <1>12, <1>18, <1>19, <2>1, <2>2 DEF Raised, Shape, root
<1>21. RaiseRoot(t) = [t |-> w, node |-> root]
  <2>1. Check(w, w.rightmost = Child(w, a, 0)) = w
    <3>1. w.rightmost = Child(w, a, 0)
      BY <1>9, <1>10, <1>13 DEF Child
    <3> QED
      BY <1>9, <3>1, CheckPasses
  <2>2. RaiseRoot(t) = [t |-> Check(w, w.rightmost = Child(w, a, 0)), node |-> root]
    BY DEF RaiseRoot, w, y, x, s, a, root
  <2> QED
    BY <2>1, <2>2
<1> QED
  BY <1>20, <1>21

\* What hung at a list of children that another node has now.
LEMMA SitsMoved ==
  ASSUME NEW t, NEW u, NEW m, NEW p, NEW i, Sits(t, m, p, i), NEW q \in DOMAIN u.node,
         Children(u, q) = Children(t, p)
  PROVE  Sits(u, m, q, i)
  BY DEF Sits

LEMMA InternalRaised ==
  ASSUME NEW t, NEW lev, Shape(t, lev), ~Leaf(t, t.root), NodeCount(t, t.root) >= 1
  PROVE  LET r == RaiseRoot(t)
         IN \E new : Raised(t, r.t, lev, new, r.node)
<1> DEFINE root == t.root
           a == FreshAddress(t)
           s == Allocate(t, InternalNode(Leftmost(t)))
           x == SetChild(s, a, 0, a)
           w == Swap(x, a, root)
<1>0. /\ InOrder(t) /\ Graded(t, lev) /\ Edged(t) /\ Tree(t) /\ Linked(t)
      /\ IsFiniteSet(DOMAIN t.node)
      /\ root \in DOMAIN t.node /\ NoNode \notin DOMAIN t.node /\ t.asserts
  BY DEF Shape, InOrder, Attached
<1>1. /\ root # NoNode /\ root \in Nat /\ Parent(t, root) \in Nat /\ Leftmost(t) = Parent(t, root)
      /\ MaxCount(t, root) = kNodeValues
      /\ NodeCount(t, root) \in Nat /\ NodeCount(t, root) <= kNodeValues
      /\ Len(Children(t, root)) = NodeCount(t, root) + 1
      /\ lev[root] \in Nat /\ lev[root] # 0 /\ kNodeValues \in Nat /\ kNodeValues >= 3
  <2>1. root # NoNode /\ root \in Nat /\ Parent(t, root) \in Nat
    BY <1>0, NodeFields
  <2>2. /\ MaxCount(t, root) = kNodeValues
        /\ NodeCount(t, root) \in Nat /\ NodeCount(t, root) <= kNodeValues
        /\ lev[root] \in Nat /\ lev[root] # 0 /\ kNodeValues \in Nat /\ kNodeValues >= 3
        /\ ChildPerGap(t, root)
    BY <1>0, NodeFacts
  <2>3. Len(Children(t, root)) = NodeCount(t, root) + 1
    BY <2>2 DEF ChildPerGap
  <2> QED
    BY <2>1, <2>2, <2>3 DEF Leftmost
<1>2. Blank(InternalNode(Leftmost(t)), "internal", Leftmost(t), kNodeValues)
  BY <1>1, NewNodes
<1>3. Added(t, s, a, InternalNode(Leftmost(t)))
  BY <1>0, <1>2, AllocateAdds DEF Blank
<1> HIDE DEF a, s, root
<1>4. /\ Tree(s) /\ IsFiniteSet(DOMAIN s.node) /\ a \in Nat /\ a # NoNode /\ a # root
      /\ a \notin DOMAIN t.node
      /\ DOMAIN s.node = DOMAIN t.node \cup {a}
      /\ s.node[a].fields = "internal" /\ MaxCount(s, a) = kNodeValues
      /\ Values(s, a) = <<>> /\ Children(s, a) = <<>>
      /\ s.root = root /\ s.asserts = t.asserts /\ s.rightmost = t.rightmost
      /\ \A m \in DOMAIN t.node : s.node[m] = t.node[m]
  BY <1>2, <1>3 DEF Added, Blank, MaxCount, Values, Children, root
<1>5. FirstChild(s, x, a, a)
  BY <1>4, SetChildFirst
<1> HIDE DEF x
<1>6. /\ Tree(x) /\ DOMAIN x.node = DOMAIN s.node /\ x.root = root /\ x.rightmost = t.rightmost
      /\ x.asserts = t.asserts
      /\ Children(x, a) = <<a>> /\ Values(x, a) = <<>> /\ Parent(x, a) = a /\ Position(x, a) = 0
      /\ x.node[a].fields = "internal" /\ MaxCount(x, a) = kNodeValues
      /\ \A m \in DOMAIN t.node :
           /\ x.node[m].fields = t.node[m].fields /\ MaxCount(x, m) = MaxCount(t, m)
           /\ Values(x, m) = Values(t, m) /\ Children(x, m) = Children(t, m)
           /\ Parent(x, m) = Parent(t, m) /\ Position(x, m) = Position(t, m)
           /\ Leaf(x, m) = Leaf(t, m)
  BY <1>4, <1>5 DEF FirstChild, SameFrame, MaxCount, Values, Children, Parent, Position, Leaf
<1>7. Len(<<a>>) = 1 /\ <<a>>[1] = a /\ Len(<<>>) = 0
  OBVIOUS
<1>8. Linked(x)
  <2>1. Links(x, a)
    BY <1>4, <1>6, <1>7 DEF Links
  <2>2. ASSUME NEW m \in DOMAIN t.node, NEW i \in 1..Len(Children(x, m))
        PROVE  LET c == Children(x, m)[i]
               IN c \in DOMAIN x.node /\ c # x.root /\ Parent(x, c) = m /\ Position(x, c) = i - 1
    <3>1. Children(x, m) = Children(t, m)
      BY <1>6
    <3>2. LET c == Children(t, m)[i]
          IN c \in DOMAIN t.node /\ c # t.root /\ Parent(t, c) = m /\ Position(t, c) = i - 1
      BY <1>0, <2>2, <3>1 DEF Linked, Links
    <3> QED
      BY <1>4, <1>6, <3>1, <3>2 DEF root
  <2> QED
    BY <1>4, <1>6, <2>1, <2>2 DEF Linked, Links
<1>9. Swapped(x, w, a, root)
  <2>1. Leaf(x, a) = Leaf(x, root)
    BY <1>0, <1>6 DEF Leaf, root
  <2> QED
    BY <1>0, <1>4, <1>6, <1>8, <2>1, SwapSwaps
<1> HIDE DEF w
<1>10. /\ Tree(w) /\ Linked(w) /\ DOMAIN w.node = DOMAIN t.node \cup {a} /\ w.root = root
       /\ w.rightmost = t.rightmost /\ w.asserts = t.asserts
       /\ Leftmost(w) = Leftmost(t)
       /\ Values(w, a) = Values(t, root) /\ Children(w, a) = Children(t, root)
       /\ Values(w, root) = <<>> /\ Children(w, root) = <<a>>
       /\ w.node[a].fields = "internal" /\ MaxCount(w, a) = kNodeValues
       /\ \A m \in DOMAIN t.node :
            w.node[m].fields = t.node[m].fields /\ MaxCount(w, m) = MaxCount(t, m)
       /\ \A m \in DOMAIN t.node \ {root} :
            Values(w, m) = Values(t, m) /\ Children(w, m) = Children(t, m)
  <2>1. Leftmost(x) = Leftmost(t)
    BY <1>0, <1>1, <1>6 DEF Leftmost, root
  <2> QED
    BY <1>0, <1>4, <1>6, <1>9, <2>1 DEF Swapped, SameFrame, SameElsewhere
<1>11. /\ ~Leaf(w, a) /\ \A m \in DOMAIN t.node : Leaf(w, m) = Leaf(t, m)
       /\ NodeCount(w, a) = NodeCount(t, root) /\ NodeCount(w, root) = 0
       /\ \A m \in DOMAIN t.node \ {root} : NodeCount(w, m) = NodeCount(t, m)
  BY <1>7, <1>10 DEF Leaf, NodeCount
<1> DEFINE new == [m \in DOMAIN w.node |->
                     IF m = w.root THEN lev[t.root] + 1
                     ELSE IF m \in DOMAIN t.node THEN lev[m] ELSE lev[t.root]]
<1>12. /\ DOMAIN new = DOMAIN w.node /\ new[a] = lev[root] /\ new[root] = lev[root] + 1
       /\ \A m \in DOMAIN t.node \ {root} : new[m] = lev[m]
  BY <1>0, <1>4, <1>10 DEF root
<1> HIDE DEF new
<1>13. Hangs(w, a, root, 0)
  <2>1. Sits(w, a, root, 0)
    BY <1>0, <1>7, <1>10 DEF Sits
  <2> QED
    BY <1>10, <2>1, SitsHangs
<1>14. ASSUME NEW m, NEW p, NEW i, Sits(t, m, p, i)
       PROVE  (p = root => Hangs(w, m, a, i)) /\ (p # root => Hangs(w, m, p, i))
  <2>1. p \in DOMAIN t.node
    BY <1>14 DEF Sits
  <2>2. p = root => Sits(w, m, a, i)
    BY <1>10, <1>14, SitsMoved
  <2>3. p # root => Sits(w, m, p, i)
    BY <1>10, <1>14, <2>1, SitsMoved
  <2> QED
    BY <1>10, <2>2, <2>3, SitsHangs
<1>15. Sized(w)
  <2> SUFFICES ASSUME NEW m \in DOMAIN w.node
               PROVE  /\ w.node[m].fields = "root" <=> (m = w.root /\ ~Leaf(w, m))
                      /\ MaxCount(w, m) \in 1..kNodeValues
                      /\ MaxCount(w, m) = kNodeValues \/ (m = w.root /\ Leaf(w, m))
                      /\ NodeCount(w, m) <= MaxCount(w, m)
    BY DEF Sized
  <2>1. CASE m = a
    BY <1>1, <1>4, <1>10, <1>11, <2>1
  <2>2. CASE m = root
    <3>1. m \in DOMAIN t.node
      BY <1>0, <2>2
    <3> QED
      BY <1>0, <1>1, <1>10, <1>11, <2>2, <3>1 DEF InOrder, Sized, root
  <2>3. CASE m \notin {a, root}
    <3>1. m \in DOMAIN t.node
      BY <1>10, <2>3
    <3> QED
      BY <1>0, <1>10, <1>11, <2>3, <3>1 DEF InOrder, Sized, root
  <2> QED
    BY <2>1, <2>2, <2>3
<1>16. ASSUME NEW m \in DOMAIN w.node
       PROVE  ChildPerGap(w, m) /\ new[m] \in Nat /\ (Leaf(w, m) <=> new[m] = 0)
  <2>1. CASE m = a
    BY <1>1, <1>10, <1>11, <1>12, <2>1 DEF ChildPerGap
  <2>2. CASE m = root
    <3>1. ~Leaf(w, root)
      BY <1>0, <1>11 DEF root
    <3> QED
      BY <1>1, <1>7, <1>10, <1>11, <1>12, <2>2, <3>1 DEF ChildPerGap
  <2>3. CASE m \notin {a, root}
    <3>1. m \in DOMAIN t.node
      BY <1>10, <2>3
    <3>2. ChildPerGap(t, m) /\ lev[m] \in Nat /\ (Leaf(t, m) <=> lev[m] = 0)
      BY <1>0, <3>1, NodeFacts
    <3> QED
      BY <1>10, <1>11, <1>12, <2>3, <3>1, <3>2 DEF ChildPerGap
  <2> QED
    BY <2>1, <2>2, <2>3
<1>17. ASSUME NEW m \in DOMAIN t.node, m # root
       PROVE  LET p == Parent(t, m)
                  i == Position(t, m)
              IN /\ p \in DOMAIN t.node /\ i \in Nat /\ Sits(t, m, p, i)
                 /\ lev[p] = lev[m] + 1 /\ lev[m] < lev[root] /\ lev[m] \in Nat
  BY <1>0, <1>17, BelowRootFacts, SitsBelow DEF root
<1>18. InOrder(w) /\ Graded(w, new)
  <2>1. /\ IsFiniteSet(DOMAIN w.node) /\ NoNode \notin DOMAIN w.node /\ w.root \in DOMAIN w.node
        /\ w.asserts
    BY <1>0, <1>4, <1>10
  <2>2. ASSUME NEW m \in DOMAIN w.node \ {w.root}
        PROVE  /\ new[m] < new[w.root]
               /\ \E p \in DOMAIN w.node : \E i \in Nat : Sits(w, m, p, i) /\ new[p] = new[m] + 1
    <3>1. CASE m = a
      BY <1>0, <1>1, <1>10, <1>12, <1>13, <3>1 DEF Hangs
    <3>2. CASE m # a
      <4> DEFINE p == Parent(t, m)
                 i == Position(t, m)
      <4>1. m \in DOMAIN t.node /\ m # root
        BY <1>10, <2>2, <3>2
      <4>2. /\ p \in DOMAIN t.node /\ i \in Nat /\ Sits(t, m, p, i)
            /\ lev[p] = lev[m] + 1 /\ lev[m] < lev[root] /\ lev[m] \in Nat
        BY <1>17, <4>1
      <4> HIDE DEF p, i
      <4>3. new[m] < new[w.root]
        BY <1>1, <1>10, <1>12, <4>1, <4>2
      <4>4. CASE p = root
        BY <1>10, <1>12, <1>14, <4>1, <4>2, <4>3, <4>4 DEF Hangs
      <4>5. CASE p # root
        BY <1>10, <1>12, <1>14, <4>1, <4>2, <4>3, <4>5 DEF Hangs
      <4> QED
        BY <4>4, <4>5
    <3> QED
      BY <3>1, <3>2
  <2> QED
    BY <1>10, <1>12, <1>15, <1>16, <2>1, <2>2, InOrderWhen
<1>19. Rightmost(w) = t.rightmost /\ Rightmost(t) = t.rightmost
  BY <1>0, <1>1, <1>10, <1>11 DEF Rightmost, root
<1>20. AtEdge(w, Leftmost(w), FirstChildren(w))
  <2>1. PICK E \in SUBSET FirstChildren(t) :
          /\ Leftmost(t) \in E /\ Leaf(t, Leftmost(t))
          /\ \A n \in E : n # t.root => Parent(t, n) \in E
    BY <1>0 DEF Edged, AtEdge
  <2> DEFINE F == E \cup {a, root}
  <2>2. E \subseteq DOMAIN t.node
    BY <2>1 DEF FirstChildren
  <2>3. ASSUME NEW m \in F, m # root
        PROVE  Parent(w, m) \in F /\ Position(w, m) = 0
    <3>1. CASE m = a
      BY <1>13, <3>1 DEF Hangs
    <3>2. CASE m # a
      <4> DEFINE p == Parent(t, m)
      <4>1. m \in E /\ m \in DOMAIN t.node /\ Position(t, m) = 0 /\ p \in E
        BY <2>1, <2>2, <2>3, <3>2 DEF FirstChildren, root
      <4>2. Sits(t, m, p, 0)
        BY <1>17, <2>3, <4>1
      <4> HIDE DEF p
      <4>3. (p = root => Hangs(w, m, a, 0)) /\ (p # root => Hangs(w, m, p, 0))
        BY <1>14, <4>2
      <4> QED
        BY <4>1, <4>3 DEF Hangs
    <3> QED
      BY <3>1, <3>2
  <2>4. F \in SUBSET FirstChildren(w)
    <3>1. F \subseteq DOMAIN w.node
      BY <1>0, <1>10, <2>2
    <3> HIDE DEF F
    <3> QED
      BY <1>10, <2>3, <3>1 DEF FirstChildren
  <2>5. Leftmost(w) \in F /\ Leaf(w, Leftmost(w))
    BY <1>10, <1>11, <2>1, <2>2
  <2> HIDE DEF F
  <2> QED
    BY <1>10, <2>3, <2>4, <2>5 DEF AtEdge
<1>21. AtEdge(w, Rightmost(w), LastChildren(w))
  <2>1. PICK E \in SUBSET LastChildren(t) :
          /\ Rightmost(t) \in E /\ Leaf(t, Rightmost(t))
          /\ \A n \in E : n # t.root => Parent(t, n) \in E
    BY <1>0 DEF Edged, AtEdge
  <2> DEFINE F == E \cup {a, root}
  <2>2. E \subseteq DOMAIN t.node
    BY <2>1 DEF LastChildren
  <2>3. ASSUME NEW m \in F, m # root
        PROVE  Parent(w, m) \in F /\ Position(w, m) = NodeCount(w, Parent(w, m))
    <3>1. CASE m = a
      BY <1>11, <1>13, <3>1 DEF Hangs
    <3>2. CASE m # a
      <4> DEFINE p == Parent(t, m)
                 i == Position(t, m)
      <4>1. m \in E /\ m \in DOMAIN t.node /\ i = NodeCount(t, p) /\ p \in E
        BY <2>1, <2>2, <2>3, <3>2 DEF LastChildren, root
      <4>2. Sits(t, m, p, i) /\ p \in DOMAIN t.node
        BY <1>17, <2>3, <4>1
      <4> HIDE DEF p, i
      <4>3. (p = root => Hangs(w, m, a, i)) /\ (p # root => Hangs(w, m, p, i))
        BY <1>14, <4>2
      <4>4. CASE p = root
        BY <1>11, <4>1, <4>3, <4>4 DEF Hangs
      <4>5. CASE p # root
        BY <1>11, <4>1, <4>2, <4>3, <4>5 DEF Hangs
      <4> QED
        BY <4>4, <4>5
    <3> QED
      BY <3>1, <3>2
  <2>4. F \in SUBSET LastChildren(w)
    <3>1. F \subseteq DOMAIN w.node
      BY <1>0, <1>10, <2>2
    <3> HIDE DEF F
    <3> QED
      BY <1>10, <2>3, <3>1 DEF LastChildren
  <2>5. Rightmost(w) \in F /\ Leaf(w, Rightmost(w))
    BY <1>11, <1>19, <2>1, <2>2
  <2> HIDE DEF F
  <2> QED
    BY <1>10, <2>3, <2>4, <2>5 DEF AtEdge
<1>22. Raised(t, w, lev, new, a)
  <2>1. \A m \in DOMAIN t.node \ {root} :
          /\ m # w.root /\ NodeCount(w, m) = NodeCount(t, m) /\ MaxCount(w, m) = MaxCount(t, m)
          /\ Parent(t, m) # root => Parent(w, m) = Parent(t, m) /\ Position(w, m) = Position(t, m)
    BY <1>10, <1>11, <1>14, <1>17 DEF Hangs
  <2>2. \A c, i : Sits(t, c, root, i) => Sits(w, c, a, i)
    BY <1>14 DEF Hangs
  <2>3. a \in DOMAIN w.node /\ a # w.root /\ Parent(w, a) = w.root
    BY <1>4, <1>10, <1>13 DEF Hangs
  <2>4. new = [m \in DOMAIN w.node |->
                 IF m = w.root THEN lev[t.root] + 1
                 ELSE IF m \in DOMAIN t.node THEN lev[m] ELSE lev[t.root]]
    BY DEF new
  <2>5. DOMAIN t.node \subseteq DOMAIN w.node
    BY <1>10
  <2>6. \A m \in DOMAIN w.node \ {w.root} : m = a \/ m \in DOMAIN t.node \ {root}
    BY <1>10
  <2> QED
    BY <1>10, <1>11, <1>12, <1>18, <1>20, <1>21, <2>1, <2>2, <2>3, <2>4, <2>5, <2>6
    DEF Raised, Shape, Edged, root
<1>23. RaiseRoot(t) = [t |-> w, node |-> a]
  BY DEF RaiseRoot, w, x, s, a, root
<1> QED
  BY <1>22, <1>23

\* The levels once the root has been raised and split.
LevelsRaised(u, t, lev) ==
  [m \in DOMAIN u.node |-> IF m = u.root THEN lev[t.root] + 1
                           ELSE IF m \in DOMAIN t.node THEN lev[m] ELSE lev[t.root]]

LEMMA RaiseMakesRoom ==
  ASSUME NEW t, NEW lev, NEW p, Shape(t, lev), Full(t, t.root), MaxCount(t, t.root) = kNodeValues,
         p \in 0..NodeCount(t, t.root), NoneEmpty(t)
  PROVE  LET r == SplitRaised(RaiseRoot(t), p)
         IN RoomMade(t, r.t, lev, LevelsRaised(r.t, t, lev), t.root, p, r.it)
<1> DEFINE root == t.root
           u == RaiseRoot(t).t
           n == RaiseRoot(t).node
           r == SplitNode(u, n, p)
           v == r.t
           at == r.it
<1>0. /\ InOrder(t) /\ Graded(t, lev) /\ root \in DOMAIN t.node
      /\ NodeCount(t, root) = kNodeValues /\ kNodeValues \in Nat /\ kNodeValues >= 3
      /\ lev[root] \in Nat
  <2>1. InOrder(t) /\ Graded(t, lev) /\ root \in DOMAIN t.node
    BY DEF Shape, InOrder
  <2> QED
    BY <2>1, NodeFacts, kNodeValuesAssumption DEF Full
<1>1. PICK one : Raised(t, u, lev, one, n)
  <2>1. NodeCount(t, t.root) >= 1
    BY <1>0
  <2>2. CASE Leaf(t, t.root)
    BY <2>2, LeafRaised
  <2>3. CASE ~Leaf(t, t.root)
    BY <2>1, <2>3, InternalRaised
  <2> QED
    BY <2>2, <2>3
<1>2. SplitRaised(RaiseRoot(t), p) = r
  BY DEF SplitRaised
<1> HIDE DEF u, n
<1>3. /\ Shape(u, one) /\ n \in DOMAIN u.node /\ n # u.root /\ Parent(u, n) = u.root
      /\ NodeCount(u, u.root) = 0 /\ NodeCount(u, n) = NodeCount(t, root)
      /\ one = [m \in DOMAIN u.node |->
                  IF m = u.root THEN lev[root] + 1
                  ELSE IF m \in DOMAIN t.node THEN lev[m] ELSE lev[root]]
      /\ DOMAIN t.node \subseteq DOMAIN u.node /\ one[n] = lev[root]
      /\ \A m \in DOMAIN u.node \ {u.root} : m = n \/ m \in DOMAIN t.node \ {root}
      /\ \A m \in DOMAIN t.node \ {root} :
           /\ m # u.root /\ NodeCount(u, m) = NodeCount(t, m) /\ MaxCount(u, m) = MaxCount(t, m)
           /\ Parent(t, m) # root => Parent(u, m) = Parent(t, m) /\ Position(u, m) = Position(t, m)
      /\ \A c, i : Sits(t, c, root, i) => Sits(u, c, n, i)
  BY <1>1 DEF Raised
<1>4. InOrder(u) /\ Graded(u, one) /\ u.root \in DOMAIN u.node
  BY <1>3 DEF Shape, InOrder
<1>5. MaxCount(u, n) = kNodeValues /\ MaxCount(u, u.root) = kNodeValues
  BY <1>3, <1>4, BelowRootFacts
<1>6. FullBelowRoot(u, one, n, p) /\ ~Full(u, Parent(u, n))
  BY <1>0, <1>3, <1>5 DEF FullBelowRoot, Full
<1>7. \A m \in DOMAIN u.node \ {Parent(u, n)} : NodeCount(u, m) >= 1
  BY <1>0, <1>3 DEF NoneEmpty
<1>8. RoomMade(u, v, one, LevelsWith(v, u, one, n), n, p, at) /\ v.root = u.root
  BY <1>6, <1>7, SplitMakesRoom
<1> DEFINE new == LevelsWith(v, u, one, n)
<1> HIDE DEF r
<1>9. new = LevelsRaised(v, t, lev)
  <2> HIDE DEF v
  <2>1. \A m \in DOMAIN v.node :
          (IF m \in DOMAIN u.node THEN one[m] ELSE one[n]) =
          (IF m = v.root THEN lev[t.root] + 1
           ELSE IF m \in DOMAIN t.node THEN lev[m] ELSE lev[t.root])
    BY <1>3, <1>4, <1>8 DEF root
  <2> QED
    BY <2>1 DEF LevelsWith, LevelsRaised
<1> HIDE DEF new, v, at
<1>10. /\ Shape(v, new)
       /\ at \in [node : DOMAIN v.node, position : Nat]
       /\ at.position <= NodeCount(v, at.node) /\ ~Full(v, at.node) /\ new[at.node] = one[n]
       /\ \A c : Sits(u, c, n, p) => Parent(v, c) = at.node
       /\ BelowKept(u, v, one, new, n)
       /\ \A m \in DOMAIN v.node \ {at.node} : NodeCount(v, m) >= 1
  BY <1>8 DEF RoomMade, new
<1>11. \A c : Sits(t, c, root, p) => Parent(v, c) = at.node
  BY <1>3, <1>10
<1>12. BelowKept(t, v, lev, new, root)
  <2> SUFFICES ASSUME NEW m \in DOMAIN t.node, lev[m] < lev[root]
               PROVE  /\ m \in DOMAIN v.node /\ m # v.root /\ new[m] = lev[m]
                      /\ NodeCount(v, m) = NodeCount(t, m) /\ MaxCount(v, m) = MaxCount(t, m)
                      /\ lev[Parent(t, m)] < lev[root] =>
                           Parent(v, m) = Parent(t, m) /\ Position(v, m) = Position(t, m)
    BY DEF BelowKept
  <2>1. m # root /\ m # u.root /\ m \in DOMAIN u.node /\ one[m] = lev[m] /\ one[m] < one[n]
    BY <1>0, <1>3
  <2>2. /\ m \in DOMAIN v.node /\ m # v.root /\ new[m] = lev[m]
        /\ NodeCount(v, m) = NodeCount(u, m) /\ MaxCount(v, m) = MaxCount(u, m)
        /\ one[Parent(u, m)] < one[n] =>
             Parent(v, m) = Parent(u, m) /\ Position(v, m) = Position(u, m)
    BY <1>10, <2>1 DEF BelowKept
  <2>3. NodeCount(u, m) = NodeCount(t, m) /\ MaxCount(u, m) = MaxCount(t, m)
    BY <1>3, <2>1
  <2>4. ASSUME lev[Parent(t, m)] < lev[root]
        PROVE  Parent(v, m) = Parent(t, m) /\ Position(v, m) = Position(t, m)
    <3>1. Parent(t, m) # root /\ Parent(t, m) \in DOMAIN t.node
      <4>1. Parent(t, m) \in DOMAIN t.node
        BY <1>0, <2>1, BelowRootFacts
      <4> QED
        BY <1>0, <2>4, <4>1
    <3>2. Parent(u, m) = Parent(t, m) /\ Position(u, m) = Position(t, m)
      BY <1>3, <2>1, <3>1
    <3>3. one[Parent(t, m)] = lev[Parent(t, m)]
      BY <1>3, <3>1
    <3> QED
      BY <1>3, <2>2, <2>4, <3>2, <3>3
  <2> QED
    BY <2>2, <2>3, <2>4
<1>13. RoomMade(t, v, lev, new, root, p, at)
  BY <1>3, <1>10, <1>11, <1>12 DEF RoomMade
<1> QED
  BY <1>2, <1>9, <1>13 DEF v, at, root

-------------------------------------------------------------------------------
\* Other values in a leaf.

LEMMA LeafRevalued ==
  ASSUME NEW t, NEW lev, Shape(t, lev), NEW n \in DOMAIN t.node, Leaf(t, n),
         NEW values \in Seq(Entry), Len(values) <= MaxCount(t, n)
  PROVE  LET u == SetValues(t, n, values)
         IN /\ Shape(u, lev) /\ DOMAIN u.node = DOMAIN t.node /\ u.root = t.root
            /\ \A m \in DOMAIN t.node :
                 NodeCount(u, m) = IF m = n THEN Len(values) ELSE NodeCount(t, m)
<1> DEFINE u == SetValues(t, n, values)
<1>0. InOrder(t) /\ Graded(t, lev) /\ Edged(t) /\ Tree(t) /\ Linked(t) /\ Sized(t)
  BY DEF Shape, InOrder, Attached
<1>1. Revalued(t, u, n, values)
  BY <1>0, SetValuesRevalues
<1>2. Linked(u)
  BY <1>0, <1>1, RevaluedLinked
<1> HIDE DEF u
<1>3. /\ Tree(u) /\ DOMAIN u.node = DOMAIN t.node /\ u.root = t.root /\ u.rightmost = t.rightmost
      /\ u.asserts = t.asserts
      /\ \A m \in DOMAIN t.node :
           /\ u.node[m].fields = t.node[m].fields /\ MaxCount(u, m) = MaxCount(t, m)
           /\ Values(u, m) = IF m = n THEN values ELSE Values(t, m)
           /\ Children(u, m) = Children(t, m)
           /\ Parent(u, m) = Parent(t, m) /\ Position(u, m) = Position(t, m)
  BY <1>1 DEF Revalued, SameFrame
<1>4. /\ \A m \in DOMAIN t.node : Leaf(u, m) = Leaf(t, m)
      /\ \A m \in DOMAIN t.node : NodeCount(u, m) = IF m = n THEN Len(values) ELSE NodeCount(t, m)
  <2>1. \A m \in DOMAIN t.node : Leaf(u, m) = Leaf(t, m)
    BY <1>3 DEF Leaf
  <2>2. \A m \in DOMAIN t.node : NodeCount(u, m) = IF m = n THEN Len(values) ELSE NodeCount(t, m)
    BY <1>3 DEF NodeCount
  <2> QED
    BY <2>1, <2>2
<1>5. ASSUME NEW m \in DOMAIN t.node
      PROVE  ChildPerGap(u, m) /\ (m # t.root => IsChild(u, m))
  <2>1. ChildPerGap(u, m)
    <3>1. ChildPerGap(t, m)
      BY <1>0 DEF InOrder, Attached
    <3> QED
      BY <1>3, <1>4, <3>1 DEF ChildPerGap
  <2>2. ASSUME m # t.root
        PROVE  IsChild(u, m)
    <3> DEFINE p == Parent(t, m)
               i == Position(t, m)
    <3>1. Sits(t, m, p, i) /\ p \in DOMAIN t.node /\ p # m /\ ~Leaf(t, p)
      BY <1>0, <2>2, SitsBelow, BelowRootFacts
    <3> HIDE DEF p, i
    <3>2. ChildPerGap(u, p)
      <4>1. ChildPerGap(t, p)
        BY <1>0, <3>1 DEF InOrder, Attached
      <4> QED
        BY <1>3, <1>4, <3>1, <4>1 DEF ChildPerGap
    <3>3. Sits(u, m, p, i)
      BY <1>3, <3>1, SitsMoved
    <3> QED
      BY <1>2, <1>3, <2>1, <3>1, <3>2, <3>3, SitsIsChild
  <2> QED
    BY <2>1, <2>2
<1>6. Attached(u)
  BY <1>2, <1>3, <1>5 DEF Attached
<1>7. Sized(u)
  BY <1>0, <1>3, <1>4 DEF Sized
<1>8. Graded(u, lev)
  <2>1. DOMAIN lev = DOMAIN u.node
    BY <1>0, <1>3 DEF Graded
  <2>2. \A m \in DOMAIN t.node :
          /\ lev[m] \in Nat /\ (Leaf(t, m) <=> lev[m] = 0)
          /\ m # t.root => (lev[Parent(t, m)] = lev[m] + 1 /\ lev[m] < lev[t.root])
    BY <1>0 DEF Graded
  <2> QED
    BY <1>3, <1>4, <2>1, <2>2 DEF Graded
<1>9. FirstChildren(u) = FirstChildren(t)
  BY <1>3 DEF FirstChildren
<1>10. LastChildren(u) = LastChildren(t)
  <2>1. ASSUME NEW m \in DOMAIN t.node, m # t.root
        PROVE  NodeCount(u, Parent(u, m)) = NodeCount(t, Parent(t, m))
    <3>1. Parent(t, m) \in DOMAIN t.node /\ ~Leaf(t, Parent(t, m))
      BY <1>0, <2>1, BelowRootFacts
    <3> QED
      BY <1>3, <1>4, <3>1
  <2> QED
    BY <1>3, <2>1 DEF LastChildren
<1>11. Leftmost(u) = Leftmost(t) /\ Rightmost(u) = Rightmost(t)
  BY <1>0, <1>3, <1>4 DEF Leftmost, Rightmost, InOrder
<1>12. \A a, edge : edge \subseteq DOMAIN t.node /\ AtEdge(t, a, edge) => AtEdge(u, a, edge)
  BY <1>3, <1>4 DEF AtEdge
<1>13. Edged(u)
  <2>1. FirstChildren(t) \subseteq DOMAIN t.node /\ LastChildren(t) \subseteq DOMAIN t.node
    BY DEF FirstChildren, LastChildren
  <2> QED
    BY <1>0, <1>9, <1>10, <1>11, <1>12, <2>1 DEF Edged
<1>14. Shape(u, lev)
  BY <1>0, <1>3, <1>6, <1>7, <1>8, <1>13 DEF Shape, InOrder
<1> QED
  BY <1>3, <1>4, <1>14 DEF u

LEMMA InsertValueInLeaf ==
  ASSUME NEW t, NEW lev, Shape(t, lev), NEW n \in DOMAIN t.node, Leaf(t, n), ~Full(t, n),
         NEW p \in Nat, p <= NodeCount(t, n), NEW e \in Entry
  PROVE  LET u == InsertValue(t, n, p, e)
         IN /\ Shape(u, lev) /\ DOMAIN u.node = DOMAIN t.node /\ u.root = t.root
            /\ \A m \in DOMAIN t.node :
                 NodeCount(u, m) = IF m = n THEN NodeCount(t, n) + 1 ELSE NodeCount(t, m)
<1> DEFINE values == InsertAt(Values(t, n), p + 1, e)
<1>0. InOrder(t) /\ Graded(t, lev) /\ Tree(t)
  BY DEF Shape, InOrder
<1>1. /\ Values(t, n) \in Seq(Entry) /\ NodeCount(t, n) \in Nat /\ MaxCount(t, n) \in Nat
      /\ NodeCount(t, n) <= MaxCount(t, n)
  BY <1>0, NodeFacts
<1>2. values \in Seq(Entry) /\ Len(values) = NodeCount(t, n) + 1
  <2>1. HasPlace(Entry, Values(t, n), p + 1, e)
    BY <1>1 DEF HasPlace, NodeCount
  <2> QED
    BY <2>1, InsertAtProperties DEF NodeCount
<1>3. Len(values) <= MaxCount(t, n)
  BY <1>1, <1>2 DEF Full
<1>4. InsertValue(t, n, p, e) = SetValues(t, n, values)
  <2>1. Check(t, p <= NodeCount(t, n)) = t
    BY <1>0, CheckPasses
  <2> QED
    BY <2>1 DEF InsertValue
<1> HIDE DEF values
<1> QED
  BY <1>2, <1>3, <1>4, LeafRevalued

LEMMA RemoveValueFromLeaf ==
  ASSUME NEW t, NEW lev, Shape(t, lev), NEW n \in DOMAIN t.node, Leaf(t, n),
         NEW p \in Nat, p < NodeCount(t, n)
  PROVE  LET u == RemoveValue(t, n, p)
         IN /\ Shape(u, lev) /\ DOMAIN u.node = DOMAIN t.node /\ u.root = t.root
            /\ \A m \in DOMAIN t.node \ {n} : NodeCount(u, m) = NodeCount(t, m)
<1> DEFINE values == RemoveAt(Values(t, n), p + 1)
<1>0. InOrder(t) /\ Graded(t, lev) /\ Tree(t)
  BY DEF Shape, InOrder
<1>1. /\ Values(t, n) \in Seq(Entry) /\ NodeCount(t, n) \in Nat /\ MaxCount(t, n) \in Nat
      /\ NodeCount(t, n) <= MaxCount(t, n)
  BY <1>0, NodeFacts
<1>2. values \in Seq(Entry) /\ Len(values) = NodeCount(t, n) - 1
  <2>1. p + 1 \in 1..Len(Values(t, n))
    BY <1>1 DEF NodeCount
  <2> QED
    BY <1>1, <2>1, RemoveAtProperties DEF NodeCount
<1>3. Len(values) <= MaxCount(t, n)
  BY <1>1, <1>2
<1>4. RemoveValue(t, n, p) = SetValues(t, n, values)
  BY DEF RemoveValue
<1> HIDE DEF values
<1> QED
  BY <1>2, <1>3, <1>4, LeafRevalued

-------------------------------------------------------------------------------
\* Giving a node back to the allocator.
Freed(t, u, n) ==
  /\ Tree(u) /\ IsFiniteSet(DOMAIN u.node) /\ DOMAIN u.node = DOMAIN t.node \ {n}
  /\ \A m \in DOMAIN u.node : u.node[m] = t.node[m]
  /\ u.root = t.root /\ u.rightmost = t.rightmost /\ u.asserts = t.asserts

LEMMA FreeFrees ==
  ASSUME NEW t, Tree(t), IsFiniteSet(DOMAIN t.node), NEW n, n # t.root
  PROVE  Freed(t, Free(t, n), n)
<1> DEFINE D == DOMAIN t.node \ {n}
           node == [m \in D |-> t.node[m]]
           u == Free(t, n)
<1>1. u = [t EXCEPT !.node = node]
  BY DEF Free, Restrict
<1>2. /\ D \subseteq Nat /\ IsFiniteSet(D) /\ node \in [D -> Node] /\ DOMAIN node = D
      /\ t.root \in D \cup {NoNode}
  <2>1. IsFiniteSet(D)
    BY FS_Subset
  <2> QED
    BY <2>1 DEF Tree
<1>3. \A m \in D : node[m] = t.node[m]
  OBVIOUS
<1> HIDE DEF node, u
<1>4. /\ u.node = node
      /\ u.root = t.root /\ u.rightmost = t.rightmost /\ u.asserts = t.asserts
      /\ u = [node |-> u.node, root |-> u.root, rightmost |-> u.rightmost, size |-> u.size,
              asserts |-> u.asserts]
  BY <1>1 DEF Tree
<1> HIDE DEF D
<1>5. Tree(u)
  BY <1>2, <1>4 DEF Tree
<1> QED
  BY <1>2, <1>3, <1>4, <1>5 DEF Freed, D, u

\* v is t with r merged into l and deleted.
Joined(t, v, l, r) ==
  LET above == Parent(t, l)
      at == Position(t, l)
  IN /\ Tree(v) /\ Linked(v) /\ IsFiniteSet(DOMAIN v.node) /\ DOMAIN v.node = DOMAIN t.node \ {r}
     /\ v.root = t.root /\ v.asserts = t.asserts /\ Leftmost(v) = Leftmost(t)
     /\ v.rightmost = IF t.rightmost = r THEN l ELSE t.rightmost
     /\ \A m \in DOMAIN v.node :
          /\ v.node[m].fields = t.node[m].fields /\ Leaf(v, m) = Leaf(t, m)
          /\ MaxCount(v, m) = MaxCount(t, m)
          /\ NodeCount(v, m) = IF m = l THEN NodeCount(t, l) + 1 + NodeCount(t, r)
                               ELSE IF m = above THEN NodeCount(t, above) - 1
                               ELSE NodeCount(t, m)
     /\ Children(v, l) = Children(t, l) \o Children(t, r)
     /\ Children(v, above) = RemoveAt(Children(t, above), at + 2)
     /\ \A m \in DOMAIN v.node \ {l, above} : Children(v, m) = Children(t, m)
     /\ Parent(v, l) = above /\ Position(v, l) = at

LEMMA MergeJoins ==
  ASSUME NEW t, NEW lev, NEW l, NEW r, Shape(t, lev), Neighbours(t, l, r)
  PROVE  Joined(t, MergeNodes(t, l, r), l, r)
<1> DEFINE above == Parent(t, l)
           at == Position(t, l)
           u == Merge(t, l, r)
           w == IF Leaf(u, r) THEN MoveRightmost(u, r, l) ELSE u
           v == Free(w, r)
<1>0. /\ InOrder(t) /\ Graded(t, lev) /\ Edged(t) /\ Tree(t) /\ Linked(t)
      /\ IsFiniteSet(DOMAIN t.node) /\ t.root \in DOMAIN t.node
  BY DEF Shape, InOrder, Attached
<1>1. /\ l \in DOMAIN t.node /\ r \in DOMAIN t.node /\ above \in DOMAIN t.node
      /\ l # r /\ above # l /\ above # r /\ r # t.root
      /\ at \in Nat /\ at + 1 \in 1..NodeCount(t, above) /\ Delimiter(t, l) \in Entry
      /\ Children(t, above)[at + 2] = r
  BY <1>0, NeighboursApart
<1>2. Merged(t, u, l, r)
  BY <1>0, MergeMerges
<1> HIDE DEF u, above, at
<1>3. /\ Tree(u) /\ Linked(u) /\ DOMAIN u.node = DOMAIN t.node
      /\ u.root = t.root /\ u.rightmost = t.rightmost /\ u.asserts = t.asserts
      /\ Leftmost(u) = Leftmost(t)
      /\ \A m \in DOMAIN t.node :
           u.node[m].fields = t.node[m].fields /\ MaxCount(u, m) = MaxCount(t, m)
      /\ Parent(u, l) = above /\ Position(u, l) = at
      /\ Values(u, l) = Around(t, l, r)
      /\ Children(u, l) = Children(t, l) \o Children(t, r)
      /\ \A m \in DOMAIN t.node : ~Contains(Children(u, m), r)
      /\ Values(u, above) = RemoveAt(Values(t, above), at + 1)
      /\ Children(u, above) = RemoveAt(Children(t, above), at + 2)
      /\ \A m \in DOMAIN t.node \ {l, r, above} :
           Values(u, m) = Values(t, m) /\ Children(u, m) = Children(t, m)
  BY <1>2 DEF Merged, SameFrame, SameElsewhere, above, at
<1>4. \A m \in DOMAIN t.node : Leaf(u, m) = Leaf(t, m)
  BY <1>3 DEF Leaf
<1>5. /\ NodeCount(u, l) = NodeCount(t, l) + 1 + NodeCount(t, r)
      /\ NodeCount(u, above) = NodeCount(t, above) - 1
      /\ \A m \in DOMAIN t.node \ {l, r, above} : NodeCount(u, m) = NodeCount(t, m)
  <2>1. Values(t, l) \in Seq(Entry) /\ Values(t, r) \in Seq(Entry) /\ Values(t, above) \in Seq(Entry)
    BY <1>0, <1>1, NodeFields
  <2>2. <<Delimiter(t, l)>> \in Seq(Entry) /\ Len(<<Delimiter(t, l)>>) = 1
    BY <1>1
  <2>3. Len(Around(t, l, r)) = Len(Values(t, l)) + 1 + Len(Values(t, r))
    <3> DEFINE a == Values(t, l)
               b == <<Delimiter(t, l)>>
               c == Values(t, r)
    <3>1. a \in Seq(Entry) /\ b \in Seq(Entry) /\ c \in Seq(Entry) /\ Len(b) = 1
      BY <2>1, <2>2
    <3>2. Around(t, l, r) = a \o b \o c
      BY DEF Around
    <3> HIDE DEF a, b, c
    <3>3. a \in Seq(Entry) /\ b \in Seq(Entry) /\ c \in Seq(Entry) =>
            a \o b \o c \in Seq(Entry) /\ Len(a \o b \o c) = Len(a) + Len(b) + Len(c)
      BY Concat3
    <3> QED
      BY <3>1, <3>2, <3>3 DEF a, c
  <2>4. Len(RemoveAt(Values(t, above), at + 1)) = Len(Values(t, above)) - 1
    <3>1. at + 1 \in 1..Len(Values(t, above))
      BY <1>1 DEF NodeCount
    <3> QED
      BY <2>1, <3>1, RemoveAtProperties
  <2> QED
    BY <1>3, <2>3, <2>4 DEF NodeCount
<1>6. /\ w = [node |-> w.node, root |-> w.root, rightmost |-> w.rightmost, size |-> w.size,
              asserts |-> w.asserts]
      /\ w.node = u.node /\ w.root = u.root /\ w.asserts = u.asserts
      /\ w.rightmost = IF Leaf(u, r) /\ u.rightmost = r THEN l ELSE u.rightmost
  BY <1>3 DEF MoveRightmost, Tree
<1>7. w.rightmost = IF t.rightmost = r THEN l ELSE t.rightmost
  <2>1. t.rightmost = r => Leaf(t, r)
    <3>1. Rightmost(t) = t.rightmost /\ Leaf(t, Rightmost(t))
      <4>1. ~Leaf(t, t.root) /\ t.root # NoNode
        <5>1. lev[r] \in Nat /\ lev[r] < lev[t.root]
          BY <1>0, <1>1 DEF Graded
        <5> QED
          BY <1>0, <5>1, NodeFacts
      <4>2. Leaf(t, Rightmost(t))
        BY <1>0 DEF Edged, AtEdge
      <4> QED
        BY <4>1, <4>2 DEF Rightmost
    <3> QED
      BY <3>1
  <2> QED
    BY <1>1, <1>3, <1>4, <1>6, <2>1
<1>8. MergeNodes(t, l, r) = v
  <2>1. CASE Leaf(u, r)
    BY <2>1 DEF MergeNodes, DeleteMerged, u
  <2>2. CASE ~Leaf(u, r)
    <3>1. Check(u, r # u.root) = u
      BY <1>1, <1>3, CheckPasses
    <3> QED
      BY <2>2, <3>1 DEF MergeNodes, DeleteMerged, DeleteInternalNode, u
  <2> QED
    BY <2>1, <2>2
<1> HIDE DEF w
<1>9. Freed(w, v, r)
  <2>1. Tree(w) /\ IsFiniteSet(DOMAIN w.node) /\ r # w.root
    BY <1>0, <1>1, <1>3, <1>6 DEF Tree
  <2> QED
    BY <2>1, FreeFrees
<1> HIDE DEF v
<1>10. /\ Tree(v) /\ IsFiniteSet(DOMAIN v.node) /\ DOMAIN v.node = DOMAIN t.node \ {r}
       /\ \A m \in DOMAIN v.node : v.node[m] = u.node[m]
       /\ v.root = t.root /\ v.asserts = t.asserts
       /\ v.rightmost = IF t.rightmost = r THEN l ELSE t.rightmost
  BY <1>3, <1>6, <1>7, <1>9 DEF Freed
<1>11. /\ \A m \in DOMAIN v.node :
            /\ v.node[m].fields = u.node[m].fields /\ Leaf(v, m) = Leaf(u, m)
            /\ MaxCount(v, m) = MaxCount(u, m) /\ NodeCount(v, m) = NodeCount(u, m)
            /\ Children(v, m) = Children(u, m) /\ Parent(v, m) = Parent(u, m)
            /\ Position(v, m) = Position(u, m)
  BY <1>10 DEF Leaf, MaxCount, NodeCount, Values, Children, Parent, Position
<1>12. Leftmost(v) = Leftmost(t)
  <2>1. Leftmost(v) = Leftmost(u)
    BY <1>0, <1>1, <1>3, <1>10, <1>11 DEF Leftmost
  <2> QED
    BY <1>3, <2>1
<1>13. Linked(v)
  <2> SUFFICES ASSUME NEW m \in DOMAIN v.node, NEW i \in 1..Len(Children(v, m))
               PROVE  LET c == Children(v, m)[i]
                      IN c \in DOMAIN v.node /\ c # v.root /\ Parent(v, c) = m /\ Position(v, c) = i - 1
    BY DEF Linked, Links
  <2> DEFINE c == Children(v, m)[i]
  <2>1. m \in DOMAIN t.node /\ Children(v, m) = Children(u, m)
    BY <1>10, <1>11
  <2>2. c \in DOMAIN u.node /\ c # u.root /\ Parent(u, c) = m /\ Position(u, c) = i - 1
    BY <1>3, <2>1 DEF Linked, Links
  <2>3. c # r
    <3>1. Contains(Children(u, m), c)
      BY <2>1 DEF Contains
    <3> QED
      BY <1>3, <2>1, <3>1
  <2> HIDE DEF c
  <2>4. c \in DOMAIN v.node
    BY <1>3, <1>10, <2>2, <2>3
  <2> QED
    BY <1>3, <1>10, <1>11, <2>2, <2>4 DEF c
<1>14. l \in DOMAIN v.node /\ above \in DOMAIN v.node
  BY <1>1, <1>10
<1>15. /\ \A m \in DOMAIN v.node :
            /\ v.node[m].fields = t.node[m].fields /\ Leaf(v, m) = Leaf(t, m)
            /\ MaxCount(v, m) = MaxCount(t, m)
            /\ NodeCount(v, m) = IF m = l THEN NodeCount(t, l) + 1 + NodeCount(t, r)
                                 ELSE IF m = above THEN NodeCount(t, above) - 1
                                 ELSE NodeCount(t, m)
       /\ \A m \in DOMAIN v.node \ {l, above} : Children(v, m) = Children(t, m)
  BY <1>3, <1>4, <1>5, <1>10, <1>11
<1>16. /\ Children(v, l) = Children(t, l) \o Children(t, r)
       /\ Children(v, above) = RemoveAt(Children(t, above), at + 2)
       /\ Parent(v, l) = above /\ Position(v, l) = at
  BY <1>3, <1>11, <1>14
<1> QED
  BY <1>8, <1>10, <1>12, <1>13, <1>15, <1>16 DEF Joined, above, at

\* A list of children with one less in it.
LEMMA SitsRemoved ==
  ASSUME NEW t, NEW u, Tree(t), Tree(u), Linked(u), NEW p \in DOMAIN u.node,
         NEW at \in Nat, at + 1 < Len(Children(t, p)),
         Children(u, p) = RemoveAt(Children(t, p), at + 2),
         NEW m, NEW i, Sits(t, m, p, i), i # at + 1
  PROVE  Hangs(u, m, p, IF i <= at THEN i ELSE i - 1)
<1> DEFINE kids == Children(t, p)
           new == Children(u, p)
<1>1. kids \in Seq(Nat) /\ Len(kids) \in Nat /\ p \in DOMAIN t.node
  BY NodeFields, LenProperties DEF Sits
<1>2. at + 2 \in 1..Len(kids)
  BY <1>1
<1>3. /\ Len(new) = Len(kids) - 1
      /\ \A j \in 1..Len(kids) - 1 : new[j] = IF j < at + 2 THEN kids[j] ELSE kids[j + 1]
  <2> DEFINE j0 == at + 2
  <2>1. new = RemoveAt(kids, j0)
    OBVIOUS
  <2>2. kids \in Seq(Nat) /\ j0 \in 1..Len(kids)
    BY <1>1, <1>2
  <2> HIDE DEF kids, new, j0
  <2>3. /\ Len(new) = Len(kids) - 1
        /\ \A j \in 1..Len(kids) - 1 : new[j] = IF j < j0 THEN kids[j] ELSE kids[j + 1]
    BY <2>1, <2>2, RemoveAtProperties
  <2> QED
    BY <2>3 DEF j0
<1>4. i \in 0..Len(kids) - 1 /\ kids[i + 1] = m
  BY DEF Sits
<1> HIDE DEF kids, new
<1>5. i <= at => i \in 0..Len(new) - 1 /\ new[i + 1] = m
  <2> SUFFICES ASSUME i <= at
               PROVE  i \in 0..Len(new) - 1 /\ new[i + 1] = m
    OBVIOUS
  <2>1. i + 1 \in 1..Len(kids) - 1 /\ i + 1 < at + 2
    BY <1>1, <1>2, <1>4
  <2> QED
    BY <1>1, <1>3, <1>4, <2>1
<1>6. ~(i <= at) => i - 1 \in 0..Len(new) - 1 /\ new[(i - 1) + 1] = m
  <2> SUFFICES ASSUME ~(i <= at)
               PROVE  i - 1 \in 0..Len(new) - 1 /\ new[(i - 1) + 1] = m
    OBVIOUS
  <2>1. i \in 1..Len(kids) - 1 /\ ~(i < at + 2) /\ (i - 1) + 1 = i
    BY <1>1, <1>4
  <2> QED
    BY <1>1, <1>3, <1>4, <2>1
<1>7. i <= at => Sits(u, m, p, i)
  BY <1>5 DEF Sits, new
<1>8. ~(i <= at) => Sits(u, m, p, i - 1)
  BY <1>6 DEF Sits, new
<1> QED
  BY <1>7, <1>8, SitsHangs

Joining(t, v, lev, l, r) ==
  /\ Shape(t, lev) /\ Neighbours(t, l, r) /\ Joined(t, v, l, r)

LEMMA JoinedPlaces ==
  ASSUME NEW t, NEW v, NEW lev, NEW l, NEW r, Joining(t, v, lev, l, r)
  PROVE  LET above == Parent(t, l)
             at == Position(t, l)
         IN \A m, p, i : Sits(t, m, p, i) /\ m # r =>
              /\ p \notin {l, r, above} => Hangs(v, m, p, i)
              /\ p = above => i # at + 1 /\ Hangs(v, m, above, IF i <= at THEN i ELSE i - 1)
              /\ p = l => Hangs(v, m, l, i)
              /\ p = r => Hangs(v, m, l, NodeCount(t, l) + 1 + i)
<1> DEFINE above == Parent(t, l)
           at == Position(t, l)
<1>0. /\ InOrder(t) /\ Graded(t, lev) /\ Tree(t) /\ Linked(t)
      /\ Neighbours(t, l, r) /\ Joined(t, v, l, r)
  BY DEF Joining, Shape, InOrder, Attached
<1>1. /\ l \in DOMAIN t.node /\ r \in DOMAIN t.node /\ above \in DOMAIN t.node
      /\ l # r /\ above # l /\ above # r
      /\ at \in Nat /\ at + 1 \in 1..NodeCount(t, above)
      /\ Len(Children(t, above)) = NodeCount(t, above) + 1 /\ NodeCount(t, above) \in Nat
      /\ Children(t, above)[at + 2] = r
  BY <1>0, NeighboursApart, NodeFields
<1>2. /\ Tree(v) /\ Linked(v) /\ DOMAIN v.node = DOMAIN t.node \ {r}
      /\ Children(v, l) = Children(t, l) \o Children(t, r)
      /\ Children(v, above) = RemoveAt(Children(t, above), at + 2)
      /\ \A m \in DOMAIN v.node \ {l, above} : Children(v, m) = Children(t, m)
  BY <1>0 DEF Joined
<1> HIDE DEF above, at
<1>3. above \in DOMAIN v.node /\ l \in DOMAIN v.node
  BY <1>1, <1>2
<1>4. ASSUME NEW m, NEW p, NEW i, Sits(t, m, p, i), p \notin {l, r, above}
      PROVE  Hangs(v, m, p, i)
  <2>1. p \in DOMAIN v.node /\ Children(v, p) = Children(t, p)
    BY <1>2, <1>4 DEF Sits
  <2> QED
    BY <1>2, <1>4, <2>1, SitsMoved, SitsHangs
<1>5. ASSUME NEW m, NEW i, Sits(t, m, above, i), m # r
      PROVE  i # at + 1 /\ Hangs(v, m, above, IF i <= at THEN i ELSE i - 1)
  <2>1. i # at + 1
    BY <1>1, <1>5 DEF Sits
  <2>2. at + 1 < Len(Children(t, above))
    BY <1>1
  <2> QED
    BY <1>0, <1>1, <1>2, <1>3, <1>5, <2>1, <2>2, SitsRemoved
<1>6. /\ Children(t, l) \in Seq(Nat) /\ Children(t, r) \in Seq(Nat)
      /\ Len(Children(t, l)) \in Nat /\ Len(Children(t, r)) \in Nat
  BY <1>0, <1>1, NodeFields, LenProperties
<1>7. Len(Children(v, l)) = Len(Children(t, l)) + Len(Children(t, r))
  BY <1>2, <1>6, ConcatProperties
<1>8. ASSUME NEW m, NEW i, Sits(t, m, l, i)
      PROVE  Hangs(v, m, l, i)
  <2>1. i \in 0..Len(Children(t, l)) - 1 /\ Children(t, l)[i + 1] = m
    BY <1>8 DEF Sits
  <2>2. (Children(t, l) \o Children(t, r))[i + 1] = Children(t, l)[i + 1]
    BY <1>6, <2>1, ConcatAt
  <2>3. Sits(v, m, l, i)
    BY <1>2, <1>3, <1>6, <1>7, <2>1, <2>2 DEF Sits
  <2> QED
    BY <1>2, <2>3, SitsHangs
<1>9. ASSUME NEW m, NEW i, Sits(t, m, r, i)
      PROVE  Hangs(v, m, l, NodeCount(t, l) + 1 + i)
  <2> DEFINE c == Children(t, l)
             d == Children(t, r)
             g == Len(c) + i
  <2>1. i \in 0..Len(d) - 1 /\ d[i + 1] = m
    BY <1>9 DEF Sits
  <2>2. Len(c) = NodeCount(t, l) + 1
    <3>1. ~Leaf(t, r)
      <4>1. Len(Children(t, r)) # 0
        BY <1>6, <2>1
      <4> QED
        BY <1>0, <1>1, <4>1, NodeFacts DEF ChildPerGap
    <3>2. ~Leaf(t, l) /\ ChildPerGap(t, l)
      BY <1>0, <1>1, <3>1, NodeFacts DEF Neighbours
    <3> QED
      BY <3>2 DEF ChildPerGap
  <2> HIDE DEF c, d
  <2>3. g \in Nat /\ g < Len(c) + Len(d) /\ g >= Len(c) /\ g - Len(c) = i
    BY <1>6, <2>1 DEF c, d
  <2>4. (c \o d)[g + 1] = d[(g - Len(c)) + 1]
    <3>1. c \in Seq(Nat) /\ d \in Seq(Nat)
      BY <1>6 DEF c, d
    <3> HIDE DEF g
    <3> QED
      BY <2>3, <3>1, ConcatAt
  <2>5. (c \o d)[g + 1] = m
    BY <2>1, <2>3, <2>4
  <2>6. g \in 0..Len(Children(v, l)) - 1 /\ Children(v, l)[g + 1] = m
    BY <1>2, <1>6, <1>7, <2>3, <2>5 DEF c, d
  <2>7. Sits(v, m, l, g)
    BY <1>3, <2>6 DEF Sits
  <2>8. g = NodeCount(t, l) + 1 + i
    BY <2>2
  <2> QED
    BY <1>2, <2>7, <2>8, SitsHangs
<1> QED
  BY <1>4, <1>5, <1>8, <1>9 DEF above, at

\* The levels of the nodes that are left.
LevelsLeft(v, lev) == [m \in DOMAIN v.node |-> lev[m]]

LEMMA JoinedInOrder ==
  ASSUME NEW t, NEW v, NEW lev, NEW l, NEW r, Joining(t, v, lev, l, r),
         NodeCount(t, l) + 1 + NodeCount(t, r) <= kNodeValues
  PROVE  InOrder(v) /\ Graded(v, LevelsLeft(v, lev))
<1> DEFINE above == Parent(t, l)
           at == Position(t, l)
           new == LevelsLeft(v, lev)
<1>0. /\ InOrder(t) /\ Graded(t, lev) /\ Tree(t) /\ Linked(t)
      /\ Neighbours(t, l, r) /\ Joined(t, v, l, r)
  BY DEF Joining, Shape, InOrder, Attached
<1>1. /\ l \in DOMAIN t.node /\ r \in DOMAIN t.node /\ above \in DOMAIN t.node
      /\ l # r /\ above # l /\ above # r /\ l # t.root /\ r # t.root
      /\ at \in Nat /\ at + 1 \in 1..NodeCount(t, above)
      /\ Len(Children(t, above)) = NodeCount(t, above) + 1 /\ ~Leaf(t, above)
      /\ Leaf(t, l) = Leaf(t, r)
  BY <1>0, NeighboursApart DEF Neighbours
<1>2. /\ NodeCount(t, above) \in Nat /\ NodeCount(t, l) \in Nat /\ NodeCount(t, r) \in Nat
      /\ MaxCount(t, l) = kNodeValues /\ MaxCount(t, above) = kNodeValues
      /\ NodeCount(t, above) <= kNodeValues /\ kNodeValues \in Nat
      /\ lev[l] \in Nat /\ lev[above] = lev[l] + 1 /\ lev[r] = lev[l]
  <2>1. MaxCount(t, l) = kNodeValues /\ MaxCount(t, above) = kNodeValues /\ lev[above] = lev[l] + 1
    BY <1>0, <1>1, BelowRootFacts
  <2>2. /\ NodeCount(t, above) \in Nat /\ NodeCount(t, l) \in Nat /\ NodeCount(t, r) \in Nat
        /\ NodeCount(t, above) <= MaxCount(t, above) /\ kNodeValues \in Nat
        /\ lev[l] \in Nat /\ lev[r] \in Nat /\ lev[above] \in Nat
    BY <1>0, <1>1, NodeFacts
  <2>3. lev[above] = lev[r] + 1
    <3>1. Parent(t, r) = above
      BY <1>0 DEF Neighbours, Siblings
    <3> QED
      BY <1>0, <1>1, <3>1 DEF Graded
  <2> QED
    BY <2>1, <2>2, <2>3
<1>3. /\ Tree(v) /\ Linked(v) /\ IsFiniteSet(DOMAIN v.node) /\ DOMAIN v.node = DOMAIN t.node \ {r}
      /\ v.root = t.root /\ v.asserts = t.asserts
      /\ \A m \in DOMAIN v.node :
           /\ v.node[m].fields = t.node[m].fields /\ Leaf(v, m) = Leaf(t, m)
           /\ MaxCount(v, m) = MaxCount(t, m)
           /\ NodeCount(v, m) = IF m = l THEN NodeCount(t, l) + 1 + NodeCount(t, r)
                                ELSE IF m = above THEN NodeCount(t, above) - 1
                                ELSE NodeCount(t, m)
      /\ Children(v, l) = Children(t, l) \o Children(t, r)
      /\ Children(v, above) = RemoveAt(Children(t, above), at + 2)
      /\ \A m \in DOMAIN v.node \ {l, above} : Children(v, m) = Children(t, m)
  BY <1>0 DEF Joined
<1>4. /\ t.root \in DOMAIN t.node /\ NoNode \notin DOMAIN v.node /\ v.asserts
      /\ v.root \in DOMAIN v.node
  BY <1>0, <1>1, <1>3 DEF InOrder
<1>5. /\ \A m \in DOMAIN v.node : new[m] = lev[m] /\ lev[m] \in Nat
      /\ DOMAIN new = DOMAIN v.node
  BY <1>0, <1>3 DEF LevelsLeft, Graded
<1> HIDE DEF above, at, new
<1>6. ChildPerGap(v, l) /\ ChildPerGap(v, above)
  <2>1. l \in DOMAIN v.node /\ above \in DOMAIN v.node
    BY <1>1, <1>3
  <2>2. Len(Children(v, above)) = Len(Children(t, above)) - 1
    <3>1. Children(t, above) \in Seq(Nat) /\ at + 2 \in 1..Len(Children(t, above))
      BY <1>0, <1>1, <1>2, NodeFields
    <3> QED
      BY <1>3, <3>1, RemoveAtProperties
  <2>3. /\ Children(t, l) \in Seq(Nat) /\ Children(t, r) \in Seq(Nat)
        /\ Len(Children(v, l)) = Len(Children(t, l)) + Len(Children(t, r))
    BY <1>0, <1>1, <1>3, NodeFields, ConcatProperties
  <2>4. ChildPerGap(t, l) /\ ChildPerGap(t, r)
    BY <1>0, <1>1, NodeFacts
  <2>5. ChildPerGap(v, above)
    BY <1>1, <1>2, <1>3, <2>1, <2>2, SMTT(30) DEF ChildPerGap
  <2>6. ChildPerGap(v, l)
    <3>1. NodeCount(v, l) = NodeCount(t, l) + 1 + NodeCount(t, r) /\ Leaf(v, l) = Leaf(t, l)
      BY <1>3, <2>1
    <3>2. CASE Leaf(t, l)
      BY <1>1, <2>3, <2>4, <3>1, <3>2 DEF ChildPerGap
    <3>3. CASE ~Leaf(t, l)
      <4>1. /\ Len(Children(t, l)) = NodeCount(t, l) + 1
            /\ Len(Children(t, r)) = NodeCount(t, r) + 1
        BY <1>1, <2>4, <3>3 DEF ChildPerGap
      <4> QED
        BY <1>2, <2>3, <3>1, <3>3, <4>1 DEF ChildPerGap
    <3> QED
      BY <3>2, <3>3
  <2> QED
    BY <2>5, <2>6
<1>7. ASSUME NEW m \in DOMAIN v.node
      PROVE  ChildPerGap(v, m) /\ new[m] \in Nat /\ (Leaf(v, m) <=> new[m] = 0)
  <2>1. m \in DOMAIN t.node /\ ChildPerGap(t, m) /\ (Leaf(t, m) <=> lev[m] = 0)
    BY <1>0, <1>3, NodeFacts
  <2>2. m \notin {l, above} => ChildPerGap(v, m)
    BY <1>3, <2>1 DEF ChildPerGap
  <2> QED
    BY <1>3, <1>5, <1>6, <2>1, <2>2
<1>8. Sized(v)
  <2> SUFFICES ASSUME NEW m \in DOMAIN v.node
               PROVE  /\ v.node[m].fields = "root" <=> (m = v.root /\ ~Leaf(v, m))
                      /\ MaxCount(v, m) \in 1..kNodeValues
                      /\ MaxCount(v, m) = kNodeValues \/ (m = v.root /\ Leaf(v, m))
                      /\ NodeCount(v, m) <= MaxCount(v, m)
    BY DEF Sized
  <2>1. m \in DOMAIN t.node
    BY <1>3
  <2>2. NodeCount(v, m) <= MaxCount(v, m)
    <3>1. CASE m = l
      BY <1>2, <1>3, <3>1
    <3>2. CASE m = above
      <4>1. NodeCount(v, m) = NodeCount(t, above) - 1 /\ MaxCount(v, m) = kNodeValues
        BY <1>1, <1>2, <1>3, <3>2
      <4> QED
        BY <1>2, <4>1
    <3>3. CASE m \notin {l, above}
      BY <1>0, <1>3, <2>1, <3>3 DEF InOrder, Sized
    <3> QED
      BY <3>1, <3>2, <3>3
  <2> QED
    BY <1>0, <1>3, <2>1, <2>2 DEF InOrder, Sized
<1>9. ASSUME NEW m \in DOMAIN v.node, m # v.root
      PROVE  /\ new[m] < new[v.root]
             /\ \E q \in DOMAIN v.node : \E j \in Nat : Sits(v, m, q, j) /\ new[q] = new[m] + 1
  <2> DEFINE q == Parent(t, m)
             i == Position(t, m)
  <2>1. m \in DOMAIN t.node /\ m # t.root /\ m # r
    BY <1>3, <1>9
  <2>2. /\ Sits(t, m, q, i) /\ q \in DOMAIN t.node /\ i \in Nat
        /\ lev[q] = lev[m] + 1 /\ lev[m] < lev[t.root]
    BY <1>0, <2>1, SitsBelow, BelowRootFacts
  <2> HIDE DEF q, i
  <2>3. /\ q \notin {l, r, above} => Hangs(v, m, q, i)
        /\ q = above => i # at + 1 /\ Hangs(v, m, above, IF i <= at THEN i ELSE i - 1)
        /\ q = l => Hangs(v, m, l, i)
        /\ q = r => Hangs(v, m, l, NodeCount(t, l) + 1 + i)
    BY <2>1, <2>2, JoinedPlaces DEF above, at
  <2>4. PICK h, j : Hangs(v, m, h, j) /\ lev[h] = lev[m] + 1 /\ h \in DOMAIN v.node
    BY <1>1, <1>2, <1>3, <2>2, <2>3
  <2>5. Sits(v, m, h, j) /\ j \in Nat
    BY <1>3, <2>4, NodeFields DEF Hangs
  <2> QED
    BY <1>3, <1>4, <1>5, <2>2, <2>4, <2>5
<1> QED
  BY <1>3, <1>4, <1>5, <1>7, <1>8, <1>9, InOrderWhen DEF new

\* The last leaf is the other one if it was r.
LEMMA JoinedEdged ==
  ASSUME NEW t, NEW v, NEW lev, NEW l, NEW r, Joining(t, v, lev, l, r),
         NodeCount(t, l) + 1 + NodeCount(t, r) <= kNodeValues
  PROVE  Edged(v)
<1> DEFINE above == Parent(t, l)
           at == Position(t, l)
<1>0. /\ InOrder(t) /\ Graded(t, lev) /\ Edged(t) /\ Tree(t) /\ Linked(t)
      /\ Neighbours(t, l, r) /\ Joined(t, v, l, r) /\ t.root \in DOMAIN t.node
  BY DEF Joining, Shape, InOrder, Attached
<1>1. /\ l \in DOMAIN t.node /\ r \in DOMAIN t.node /\ above \in DOMAIN t.node
      /\ l # r /\ above # l /\ above # r /\ l # t.root /\ r # t.root
      /\ at \in Nat /\ at + 1 \in 1..NodeCount(t, above) /\ NodeCount(t, above) \in Nat
      /\ Parent(t, r) = above /\ Position(t, r) = at + 1
      /\ Leaf(t, l) = Leaf(t, r) /\ NodeCount(t, l) \in Nat /\ NodeCount(t, r) \in Nat
  BY <1>0, NeighboursApart, NodeFields DEF Neighbours
<1>2. /\ Tree(v) /\ DOMAIN v.node = DOMAIN t.node \ {r}
      /\ v.root = t.root /\ Leftmost(v) = Leftmost(t)
      /\ v.rightmost = IF t.rightmost = r THEN l ELSE t.rightmost
      /\ \A m \in DOMAIN v.node :
           /\ Leaf(v, m) = Leaf(t, m)
           /\ NodeCount(v, m) = IF m = l THEN NodeCount(t, l) + 1 + NodeCount(t, r)
                                ELSE IF m = above THEN NodeCount(t, above) - 1
                                ELSE NodeCount(t, m)
      /\ Parent(v, l) = above /\ Position(v, l) = at
  BY <1>0 DEF Joined
<1>3. t.root # NoNode /\ ~Leaf(t, t.root)
  <2>1. lev[r] \in Nat /\ lev[r] < lev[t.root]
    BY <1>0, <1>1 DEF Graded
  <2> QED
    BY <1>0, <2>1, NodeFacts
<1>4. Rightmost(t) = t.rightmost /\ Rightmost(v) = v.rightmost
  <2>1. ~Leaf(v, v.root)
    BY <1>0, <1>1, <1>2, <1>3
  <2> QED
    BY <1>2, <1>3, <2>1 DEF Rightmost
<1>5. \A m, p, i : Sits(t, m, p, i) /\ m # r =>
        /\ p \notin {l, r, above} => Hangs(v, m, p, i)
        /\ p = above => i # at + 1 /\ Hangs(v, m, above, IF i <= at THEN i ELSE i - 1)
        /\ p = l => Hangs(v, m, l, i)
        /\ p = r => Hangs(v, m, l, NodeCount(t, l) + 1 + i)
  BY JoinedPlaces
<1> HIDE DEF above, at
<1>6. AtEdge(v, Leftmost(v), FirstChildren(v))
  <2>1. PICK E \in SUBSET FirstChildren(t) :
          /\ Leftmost(t) \in E /\ Leaf(t, Leftmost(t))
          /\ \A m \in E : m # t.root => Parent(t, m) \in E
    BY <1>0 DEF Edged, AtEdge
  <2>2. r \notin E /\ E \subseteq DOMAIN v.node
    BY <1>1, <1>2, <2>1 DEF FirstChildren
  <2>3. ASSUME NEW m \in E, m # t.root
        PROVE  Parent(v, m) \in E /\ Position(v, m) = 0
    <3> DEFINE p == Parent(t, m)
    <3>1. m \in DOMAIN t.node /\ Position(t, m) = 0 /\ p \in E /\ m # r
      BY <2>1, <2>2, <2>3 DEF FirstChildren
    <3>2. Sits(t, m, p, 0)
      BY <1>0, <2>3, <3>1, SitsBelow
    <3> HIDE DEF p
    <3>3. Hangs(v, m, p, 0)
      BY <1>1, <1>5, <2>2, <3>1, <3>2
    <3> QED
      BY <3>1, <3>3 DEF Hangs
  <2>4. E \in SUBSET FirstChildren(v)
    BY <1>2, <2>2, <2>3 DEF FirstChildren
  <2> QED
    BY <1>2, <2>1, <2>2, <2>3, <2>4 DEF AtEdge
<1>7. AtEdge(v, Rightmost(v), LastChildren(v))
  <2>1. PICK E \in SUBSET LastChildren(t) :
          /\ Rightmost(t) \in E /\ Leaf(t, Rightmost(t))
          /\ \A m \in E : m # t.root => Parent(t, m) \in E
    BY <1>0 DEF Edged, AtEdge
  <2> DEFINE F == IF r \in E THEN (E \ {r}) \cup {l} ELSE E
  <2>2. E \subseteq DOMAIN t.node /\ F \subseteq DOMAIN v.node
    BY <1>1, <1>2, <2>1 DEF LastChildren
  <2>3. l \notin E
    <3>1. l \in E => at = NodeCount(t, above)
      BY <1>1, <2>1 DEF LastChildren, above, at
    <3> QED
      BY <1>1, <3>1
  <2>4. ASSUME NEW m \in E, m # t.root, m # r
        PROVE  Parent(v, m) \in F /\ Position(v, m) = NodeCount(v, Parent(v, m))
    <3> DEFINE p == Parent(t, m)
               i == Position(t, m)
    <3>1. m \in DOMAIN t.node /\ i = NodeCount(t, p) /\ p \in E
      BY <2>1, <2>2, <2>4 DEF LastChildren
    <3>2. Sits(t, m, p, i) /\ p \in DOMAIN t.node /\ i \in Nat
      BY <1>0, <2>4, <3>1, SitsBelow, BelowRootFacts
    <3> HIDE DEF p, i
    <3>3. CASE p \notin {r, above}
      <4>1. p # l /\ p \in DOMAIN v.node
        BY <1>2, <2>3, <3>1, <3>2, <3>3
      <4>2. Hangs(v, m, p, i) /\ NodeCount(v, p) = NodeCount(t, p)
        BY <1>2, <1>5, <2>4, <3>2, <3>3, <4>1
      <4> QED
        BY <3>1, <3>3, <4>2 DEF Hangs
    <3>4. CASE p = above
      <4>1. i # at + 1 /\ Hangs(v, m, above, IF i <= at THEN i ELSE i - 1)
        BY <1>5, <2>4, <3>2, <3>4
      <4>2. above \in DOMAIN v.node /\ above # l
        BY <1>1, <1>2
      <4>3. ~(i <= at) /\ i - 1 = NodeCount(v, above)
        BY <1>1, <1>2, <3>1, <3>4, <4>1, <4>2
      <4> QED
        BY <1>1, <3>1, <3>4, <4>1, <4>3 DEF Hangs
    <3>5. CASE p = r
      <4>1. Hangs(v, m, l, NodeCount(t, l) + 1 + i)
        BY <1>5, <2>4, <3>2, <3>5
      <4>2. NodeCount(t, l) + 1 + i = NodeCount(v, l)
        BY <1>1, <1>2, <3>1, <3>5
      <4> QED
        BY <3>1, <3>5, <4>1, <4>2 DEF Hangs
    <3> QED
      BY <3>3, <3>4, <3>5
  <2>5. r \in E => above \in F /\ at = NodeCount(v, above)
    <3> SUFFICES ASSUME r \in E
                 PROVE  above \in F /\ at = NodeCount(v, above)
      OBVIOUS
    <3>1. above \in E /\ at + 1 = NodeCount(t, above)
      BY <1>1, <2>1 DEF LastChildren
    <3>2. NodeCount(v, above) = NodeCount(t, above) - 1
      BY <1>1, <1>2
    <3> QED
      BY <1>1, <3>1, <3>2
  <2>6. ASSUME NEW m \in F, m # t.root
        PROVE  Parent(v, m) \in F /\ Position(v, m) = NodeCount(v, Parent(v, m))
    <3>1. CASE m \in E /\ m # r
      BY <2>4, <2>6, <3>1
    <3>2. CASE ~(m \in E /\ m # r)
      <4>1. m = l /\ r \in E
        BY <3>2
      <4> QED
        BY <1>2, <2>5, <4>1
    <3> QED
      BY <3>1, <3>2
  <2>7. Rightmost(v) \in F /\ Leaf(v, Rightmost(v))
    <3>1. CASE t.rightmost = r
      <4>1. Rightmost(v) = l /\ r \in E /\ Leaf(t, r)
        BY <1>2, <1>4, <2>1, <3>1
      <4> QED
        BY <1>1, <1>2, <2>2, <4>1
    <3>2. CASE t.rightmost # r
      <4>1. Rightmost(v) = Rightmost(t) /\ Rightmost(t) \in DOMAIN v.node
        BY <1>2, <1>4, <2>1, <2>2, <3>2
      <4> QED
        BY <1>2, <1>4, <2>1, <3>2, <4>1
    <3> QED
      BY <3>1, <3>2
  <2>8. F \in SUBSET LastChildren(v)
    <3> HIDE DEF F
    <3> QED
      BY <1>2, <2>2, <2>6 DEF LastChildren
  <2> HIDE DEF F
  <2> QED
    BY <1>2, <2>6, <2>7, <2>8 DEF AtEdge
<1> QED
  BY <1>6, <1>7 DEF Edged

\* Merging n with a sibling.
LEMMA MergeKeepsShape ==
  ASSUME NEW t, NEW lev, NEW l, NEW r, Shape(t, lev), Neighbours(t, l, r),
         NodeCount(t, l) + 1 + NodeCount(t, r) <= kNodeValues
  PROVE  LET v == MergeNodes(t, l, r)
         IN Joined(t, v, l, r) /\ Shape(v, LevelsLeft(v, lev))
<1> DEFINE v == MergeNodes(t, l, r)
<1>1. Joined(t, v, l, r)
  BY MergeJoins
<1> HIDE DEF v
<1>2. Joining(t, v, lev, l, r)
  BY <1>1 DEF Joining
<1>3. InOrder(v) /\ Graded(v, LevelsLeft(v, lev))
  BY <1>2, JoinedInOrder
<1>4. Edged(v)
  BY <1>2, JoinedEdged
<1> QED
  BY <1>1, <1>3, <1>4 DEF Shape, v

LEMMA ShapeLeft ==
  ASSUME NEW u, NEW lev, Shape(u, lev)
  PROVE  Shape(u, LevelsLeft(u, lev))
<1>1. InOrder(u) /\ Graded(u, lev) /\ Edged(u) /\ u.root \in DOMAIN u.node
  BY DEF Shape, InOrder
<1>2. \A m \in DOMAIN u.node \ {u.root} : Parent(u, m) \in DOMAIN u.node
  BY <1>1, BelowRootFacts
<1>3. Graded(u, LevelsLeft(u, lev))
  BY <1>1, <1>2 DEF Graded, LevelsLeft
<1> QED
  BY <1>1, <1>3 DEF Shape

\* What is left to do at n, where a value is missing: every other node has one.
Repairing(t, lev, n) ==
  /\ Shape(t, lev) /\ n \in DOMAIN t.node
  /\ \A m \in DOMAIN t.node \ {n} : NodeCount(t, m) >= 1

\* It is done, or goes on at the parent of a node.
Repaired(s, lev) ==
  /\ Shape(s.t, LevelsLeft(s.t, lev)) /\ s.merged \in BOOLEAN
  /\ ~s.merged => NoneEmpty(s.t)
  /\ s.merged => /\ Repairing(s.t, LevelsLeft(s.t, lev), Parent(s.t, s.it.node))
                 /\ s.it.position \in Nat

\* n is l or r.
LEMMA MergeRepairs ==
  ASSUME NEW t, NEW lev, NEW n, Repairing(t, lev, n), NEW l, NEW r, Neighbours(t, l, r),
         n \in {l, r}, NEW at \in Nat, NEW on \in {l, r}, on # r,
         NodeCount(t, l) + 1 + NodeCount(t, r) <= kNodeValues
  PROVE  Repaired([t |-> MergeNodes(t, l, r), it |-> It(on, at), merged |-> TRUE], lev)
<1> DEFINE v == MergeNodes(t, l, r)
           above == Parent(t, l)
           s == [t |-> v, it |-> It(l, at), merged |-> TRUE]
<1>0. Shape(t, lev) /\ \A m \in DOMAIN t.node \ {n} : NodeCount(t, m) >= 1
  BY DEF Repairing
<1>1. Joined(t, v, l, r) /\ Shape(v, LevelsLeft(v, lev))
  BY <1>0, MergeKeepsShape
<1> HIDE DEF v
<1>2. /\ l \in DOMAIN t.node /\ r \in DOMAIN t.node /\ above \in DOMAIN t.node
      /\ above # r /\ l # r /\ above # l
      /\ NodeCount(t, l) \in Nat /\ NodeCount(t, r) \in Nat
  <2>1. Tree(t) /\ Linked(t)
    BY <1>0 DEF Shape, InOrder, Attached
  <2> QED
    BY <2>1, NeighboursApart, NodeFields, ZenonT(30)
<1>3. /\ DOMAIN v.node = DOMAIN t.node \ {r} /\ Parent(v, l) = above
      /\ \A m \in DOMAIN v.node :
           NodeCount(v, m) = IF m = l THEN NodeCount(t, l) + 1 + NodeCount(t, r)
                             ELSE IF m = above THEN NodeCount(t, above) - 1
                             ELSE NodeCount(t, m)
  BY <1>1 DEF Joined
<1>4. \A m \in DOMAIN v.node \ {above} : NodeCount(v, m) >= 1
  BY <1>0, <1>2, <1>3
<1>5. Repairing(v, LevelsLeft(v, lev), above)
  BY <1>1, <1>2, <1>3, <1>4 DEF Repairing
<1>6. /\ s.t = v /\ s.it.node = l /\ s.it.position = at /\ s.merged = TRUE
  BY DEF It
<1>7. on = l
  OBVIOUS
<1> HIDE DEF above, s
<1>8. Repaired(s, lev)
  BY <1>1, <1>3, <1>5, <1>6 DEF Repaired
<1> QED
  BY <1>7, <1>8 DEF s, v

LEMMA ExchangeRepairs ==
  ASSUME NEW t, NEW u, NEW lev, NEW n, Repairing(t, lev, n), NEW l, NEW r, Neighbours(t, l, r),
         n \in {l, r}, NEW at, NEW k \in Int, Rebalanced(t, u, l, r, k),
         NodeCount(t, l) + k \in 1..kNodeValues, NodeCount(t, r) - k \in 1..kNodeValues
  PROVE  Repaired([t |-> u, it |-> at, merged |-> FALSE], lev)
<1> DEFINE s == [t |-> u, it |-> at, merged |-> FALSE]
<1>0. /\ Shape(t, lev) /\ InOrder(t) /\ Graded(t, lev)
      /\ \A m \in DOMAIN t.node \ {n} : NodeCount(t, m) >= 1
  BY DEF Repairing, Shape
<1>1. Shape(u, lev)
  BY <1>0, RebalancedShape
<1>2. /\ NodeCount(u, l) = NodeCount(t, l) + k /\ NodeCount(u, r) = NodeCount(t, r) - k
      /\ \A m \in DOMAIN t.node \ {l, r} : NodeCount(u, m) = NodeCount(t, m)
  BY <1>0, RebalancedCounts
<1>3. DOMAIN u.node = DOMAIN t.node
  BY DEF Rebalanced, SameFrame
<1>4. NoneEmpty(u)
  BY <1>0, <1>2, <1>3 DEF NoneEmpty
<1>5. Shape(u, LevelsLeft(u, lev))
  BY <1>1, ShapeLeft
<1>6. s.t = u /\ s.merged = FALSE
  OBVIOUS
<1> HIDE DEF s
<1>7. Repaired(s, lev)
  BY <1>4, <1>5, <1>6 DEF Repaired
<1> QED
  BY <1>7 DEF s

\* How many values come from a sibling with more than half of what fits.
LEMMA TakesSome ==
  ASSUME NEW k \in Nat, k >= 3, NEW a \in Nat, a < k \div 2, NEW b \in Nat, b > k \div 2, b <= k
  PROVE  LET g == Min({(b - a) \div 2, b - 1})
         IN g \in 1..b /\ a + g \in 1..k /\ b - g \in 1..k
<1> DEFINE x == (b - a) \div 2
           y == b - 1
           g == Min({x, y})
<1>1. x \in Int /\ y \in Int /\ x >= 1 /\ y >= 1 /\ 2 * x <= b - a
  OBVIOUS
<1>2. y = b - 1
  OBVIOUS
<1> HIDE DEF x, y
<1>3. g \in {x, y} /\ g <= x /\ g <= y
  BY <1>1, MinOfTwo
<1> HIDE DEF g
<1>4. g \in Int /\ g >= 1 /\ g <= b - 1 /\ 2 * g <= b - a
  BY <1>1, <1>2, <1>3
<1>5. g \in 1..b /\ a + g \in 1..k /\ b - g \in 1..k
  BY <1>4
<1> QED
  BY <1>5 DEF g, x, y

LEMMA TryRepairs ==
  ASSUME NEW t, NEW lev, NEW n, NEW p \in Nat, Repairing(t, lev, n), n # t.root,
         BelowMinimum(t, n)
  PROVE  Repaired(TryMergeOrRebalance(t, It(n, p)), lev)
<1> DEFINE i == It(n, p)
           left == LeftSibling(t, n)
           right == RightSibling(t, n)
           goesLeft == HasLeft(t, n) /\ Mergeable(t, n, left)
           goesRight == HasRight(t, n) /\ Mergeable(t, n, right)
           fewer == ToTake(t, left, n)
           more == ToTake(t, right, n)
           s == TryMergeOrRebalance(t, i)
<1>0. /\ Shape(t, lev) /\ InOrder(t) /\ Graded(t, lev) /\ n \in DOMAIN t.node
      /\ Tree(t) /\ Linked(t) /\ \A m \in DOMAIN t.node \ {n} : NodeCount(t, m) >= 1
  BY DEF Repairing, Shape, InOrder, Attached
<1>1. i.node = n /\ i.position = p
  BY DEF It
<1>2. s = IF goesLeft
          THEN [t |-> MergeNodes(t, left, n), it |-> It(left, p + 1 + NodeCount(t, left)), merged |-> TRUE]
          ELSE IF goesRight THEN [t |-> MergeNodes(t, n, right), it |-> i, merged |-> TRUE]
          ELSE IF CanTakeFromRight(t, i)
          THEN [t |-> RebalanceRightToLeft(t, n, right, more), it |-> i, merged |-> FALSE]
          ELSE IF CanTakeFromLeft(t, i)
          THEN [t |-> RebalanceLeftToRight(t, left, n, fewer), it |-> It(n, p + fewer), merged |-> FALSE]
          ELSE [t |-> t, it |-> i, merged |-> FALSE]
  BY <1>1 DEF TryMergeOrRebalance
<1>3. HasLeft(t, n) =>
        /\ Neighbours(t, left, n) /\ left \in DOMAIN t.node /\ left # n
        /\ MaxCount(t, left) = kNodeValues
        /\ NodeCount(t, left) \in Nat /\ NodeCount(t, left) <= kNodeValues
  BY <1>0, LeftIsNeighbour, NodeFacts
<1>4. HasRight(t, n) =>
        /\ Neighbours(t, n, right) /\ right \in DOMAIN t.node /\ right # n
        /\ MaxCount(t, right) = kNodeValues
        /\ NodeCount(t, right) \in Nat /\ NodeCount(t, right) <= kNodeValues
  BY <1>0, RightIsNeighbour, NodeFacts
<1>5. NodeCount(t, n) \in Nat /\ kNodeValues \in Nat /\ kNodeValues >= 3
  BY <1>0, NodeFacts
<1>6. NodeCount(t, n) < kNodeValues \div 2
  BY DEF BelowMinimum
<1> SUFFICES Repaired(s, lev)
  OBVIOUS
<1> HIDE DEF i, left, right, fewer, more, s
<1>7. CASE goesLeft
  <2> DEFINE at == p + 1 + NodeCount(t, left)
  <2>1. NodeCount(t, left) + 1 + NodeCount(t, n) <= kNodeValues
    BY <1>3, <1>5, <1>7 DEF Mergeable
  <2>2. at \in Nat /\ HasLeft(t, n)
    BY <1>3, <1>7
  <2> HIDE DEF at
  <2>3. Neighbours(t, left, n) /\ n \in {left, n} /\ left \in {left, n} /\ left # n
    BY <1>3, <2>2
  <2>4. Repaired([t |-> MergeNodes(t, left, n), it |-> It(left, at), merged |-> TRUE], lev)
    BY <2>1, <2>2, <2>3, MergeRepairs
  <2>5. s = [t |-> MergeNodes(t, left, n), it |-> It(left, at), merged |-> TRUE]
    BY <1>2, <1>7 DEF at
  <2> QED
    BY <2>4, <2>5
<1>8. CASE ~goesLeft /\ goesRight
  <2>1. NodeCount(t, n) + 1 + NodeCount(t, right) <= kNodeValues
    BY <1>4, <1>5, <1>8 DEF Mergeable
  <2>2. Neighbours(t, n, right) /\ n \in {n, right} /\ n # right
    BY <1>4, <1>8
  <2>3. Repaired([t |-> MergeNodes(t, n, right), it |-> It(n, p), merged |-> TRUE], lev)
    BY <2>1, <2>2, MergeRepairs
  <2>4. s = [t |-> MergeNodes(t, n, right), it |-> It(n, p), merged |-> TRUE]
    BY <1>2, <1>8 DEF i
  <2> QED
    BY <2>3, <2>4
<1>9. CASE ~goesLeft /\ ~goesRight /\ CanTakeFromRight(t, i)
  <2> DEFINE u == RebalanceRightToLeft(t, n, right, more)
  <2>1. HasRight(t, n) /\ NodeCount(t, right) > kNodeValues \div 2
    BY <1>1, <1>9 DEF CanTakeFromRight, AboveMinimum, right
  <2>2. /\ Neighbours(t, n, right) /\ n \in {n, right}
        /\ NodeCount(t, right) \in Nat /\ NodeCount(t, right) <= kNodeValues
        /\ NodeCount(t, right) <= MaxCount(t, right)
    BY <1>4, <2>1
  <2>3. more = Min({(NodeCount(t, right) - NodeCount(t, n)) \div 2, NodeCount(t, right) - 1})
    BY DEF more, ToTake
  <2>4. /\ more \in 1..NodeCount(t, right) /\ NodeCount(t, n) + more \in 1..kNodeValues
        /\ NodeCount(t, right) - more \in 1..kNodeValues
    BY <1>5, <1>6, <2>1, <2>2, <2>3, TakesSome
  <2>5. more \in Int /\ NodeCount(t, right) >= NodeCount(t, n)
    BY <1>5, <1>6, <2>1, <2>2, <2>4
  <2>6. Rebalanced(t, u, n, right, more)
    BY <1>0, <2>2, <2>4, <2>5, RightToLeftRebalances
  <2> HIDE DEF u
  <2>7. Repaired([t |-> u, it |-> i, merged |-> FALSE], lev)
    BY <2>2, <2>4, <2>5, <2>6, ExchangeRepairs
  <2>8. s = [t |-> u, it |-> i, merged |-> FALSE]
    BY <1>2, <1>9 DEF u
  <2> QED
    BY <2>7, <2>8
<1>10. CASE ~goesLeft /\ ~goesRight /\ ~CanTakeFromRight(t, i) /\ CanTakeFromLeft(t, i)
  <2> DEFINE u == RebalanceLeftToRight(t, left, n, fewer)
             k == 0 - fewer
             at == It(n, p + fewer)
  <2>1. HasLeft(t, n) /\ NodeCount(t, left) > kNodeValues \div 2
    BY <1>1, <1>10 DEF CanTakeFromLeft, AboveMinimum, left
  <2>2. /\ Neighbours(t, left, n) /\ n \in {left, n}
        /\ NodeCount(t, left) \in Nat /\ NodeCount(t, left) <= kNodeValues
    BY <1>3, <2>1
  <2>3. fewer = Min({(NodeCount(t, left) - NodeCount(t, n)) \div 2, NodeCount(t, left) - 1})
    BY DEF fewer, ToTake
  <2>4. /\ fewer \in 1..NodeCount(t, left) /\ NodeCount(t, n) + fewer \in 1..kNodeValues
        /\ NodeCount(t, left) - fewer \in 1..kNodeValues
    BY <1>5, <1>6, <2>1, <2>2, <2>3, TakesSome
  <2>5. fewer \in Int /\ NodeCount(t, left) >= NodeCount(t, n)
    BY <1>5, <1>6, <2>1, <2>2, <2>4
  <2>6. Rebalanced(t, u, left, n, k)
    BY <1>0, <2>2, <2>4, <2>5, LeftToRightRebalances
  <2>7. /\ k \in Int /\ NodeCount(t, left) + k \in 1..kNodeValues
        /\ NodeCount(t, n) - k \in 1..kNodeValues
    BY <1>5, <2>2, <2>4, <2>5
  <2> HIDE DEF u, k, at
  <2>8. Repaired([t |-> u, it |-> at, merged |-> FALSE], lev)
    BY <2>2, <2>6, <2>7, ExchangeRepairs
  <2>9. s = [t |-> u, it |-> at, merged |-> FALSE]
    BY <1>2, <1>10 DEF u, at
  <2> QED
    BY <2>8, <2>9
<1>11. CASE ~goesLeft /\ ~goesRight /\ ~CanTakeFromRight(t, i) /\ ~CanTakeFromLeft(t, i)
  <2>1. NodeCount(t, n) # 0
    <3> SUFFICES ASSUME NodeCount(t, n) = 0
                 PROVE  FALSE
      OBVIOUS
    <3>1. HasLeft(t, n) \/ HasRight(t, n)
      <4>1. /\ Parent(t, n) \in DOMAIN t.node /\ Parent(t, n) # n
            /\ Position(t, n) \in 0..NodeCount(t, Parent(t, n))
            /\ NodeCount(t, Parent(t, n)) \in Nat
        BY <1>0, BelowRootFacts
      <4>2. NodeCount(t, Parent(t, n)) >= 1
        BY <1>0, <4>1
      <4> QED
        BY <4>1, <4>2 DEF HasLeft, HasRight
    <3>2. CASE HasLeft(t, n)
      <4>1. NodeCount(t, left) > kNodeValues \div 2
        BY <1>3, <1>5, <1>11, <3>2 DEF Mergeable
      <4> QED
        BY <1>1, <1>11, <3>2, <4>1 DEF CanTakeFromLeft, AboveMinimum, left
    <3>3. CASE HasRight(t, n)
      <4>1. NodeCount(t, right) > kNodeValues \div 2
        BY <1>4, <1>5, <1>11, <3>3 DEF Mergeable
      <4> QED
        BY <1>1, <1>11, <3>3, <4>1 DEF CanTakeFromRight, AboveMinimum, right
    <3> QED
      BY <3>1, <3>2, <3>3
  <2>2. NoneEmpty(t)
    BY <1>0, <1>5, <2>1 DEF NoneEmpty
  <2>3. s = [t |-> t, it |-> i, merged |-> FALSE]
    BY <1>2, <1>11
  <2>4. Shape(t, LevelsLeft(t, lev))
    BY <1>0, ShapeLeft
  <2>5. s.t = t /\ s.merged = FALSE
    BY <2>3
  <2> QED
    BY <2>2, <2>4, <2>5 DEF Repaired
<1> HIDE DEF goesLeft, goesRight
<1> QED
  BY <1>7, <1>8, <1>9, <1>10, <1>11

-------------------------------------------------------------------------------
\* An empty root gives way to its only child.

\* The last node of a tree has been given back.
Gone(v) ==
  /\ Tree(v) /\ DOMAIN v.node = {} /\ v.root = NoNode /\ v.asserts

LEMMA LastLeafGoes ==
  ASSUME NEW t, NEW lev, Shape(t, lev), Leaf(t, t.root), NodeCount(t, t.root) = 0
  PROVE  Gone(DeleteRootLeaf(t))
<1> DEFINE f == [m \in {} |-> t.node[m]]
           u == Free(t, t.root)
           v == [u EXCEPT !.root = NoNode]
<1>1. Tree(t) /\ t.asserts /\ DOMAIN t.node = {t.root}
  BY LeafRootAlone DEF Shape, InOrder
<1>2. u = [t EXCEPT !.node = f]
  <2>1. DOMAIN t.node \ {t.root} = {}
    BY <1>1
  <2> QED
    BY <2>1 DEF Free, Restrict
<1>3. DOMAIN f = {} /\ f \in [{} -> Node]
  OBVIOUS
<1> HIDE DEF f, u
<1>4. /\ u.node = f /\ u.asserts = t.asserts
      /\ u = [node |-> u.node, root |-> u.root, rightmost |-> u.rightmost, size |-> u.size,
              asserts |-> u.asserts]
  BY <1>1, <1>2 DEF Tree
<1> HIDE DEF v
<1>5. /\ v.node = f /\ v.asserts = t.asserts /\ v.root = NoNode
      /\ v = [node |-> v.node, root |-> v.root, rightmost |-> v.rightmost, size |-> v.size,
              asserts |-> v.asserts]
  BY <1>4 DEF v
<1>6. DOMAIN v.node = {} /\ v.node \in [DOMAIN v.node -> Node]
  BY <1>3, <1>5
<1>7. Gone(v)
  BY <1>1, <1>5, <1>6 DEF Gone, Tree
<1>8. DeleteRootLeaf(t) = v
  <2>1. SizeOf(t) = 0
    BY <1>1, LeafRootAlone DEF SizeOf
  <2>2. Check(t, SizeOf(t) = 0) = t
    BY <1>1, <2>1, CheckPasses
  <2> QED
    BY <2>2 DEF DeleteRootLeaf, v, u
<1> QED
  BY <1>7, <1>8

\* The levels of a tree that has lost its highest.
LevelsLower(v, t, lev) ==
  [m \in DOMAIN v.node |-> IF m = v.root THEN lev[t.root] - 1 ELSE lev[m]]

\* The root has no value, and so one child.
LEMMA OnlyChild ==
  ASSUME NEW t, NEW lev, Shape(t, lev), ~Leaf(t, t.root), NodeCount(t, t.root) = 0
  PROVE  LET c == Child(t, t.root, 0)
         IN /\ c \in DOMAIN t.node /\ c # t.root /\ Parent(t, c) = t.root /\ Position(t, c) = 0
            /\ lev[c] + 1 = lev[t.root] /\ lev[c] \in Nat /\ MaxCount(t, c) = kNodeValues
            /\ Len(Children(t, t.root)) = 1 /\ Children(t, t.root)[1] = c
            /\ \A m \in DOMAIN t.node : Parent(t, m) = t.root /\ m # t.root => m = c
<1> DEFINE root == t.root
           c == Child(t, root, 0)
<1>0. InOrder(t) /\ Graded(t, lev) /\ root \in DOMAIN t.node
  BY DEF Shape, InOrder
<1>1. Len(Children(t, root)) = 1
  <2>1. ChildPerGap(t, root) /\ NodeCount(t, root) = 0 /\ ~Leaf(t, root)
    BY <1>0, NodeFacts
  <2> QED
    BY <2>1 DEF ChildPerGap
<1>2. c = Children(t, root)[1]
  BY DEF Child
<1>3. 0 \in 0..NodeCount(t, root)
  OBVIOUS
<1>4. c \in DOMAIN t.node /\ c # root /\ Parent(t, c) = root /\ Position(t, c) = 0
      /\ lev[c] + 1 = lev[root]
  BY <1>0, <1>3, ChildFacts
<1> HIDE DEF c
<1>5. MaxCount(t, c) = kNodeValues /\ lev[c] \in Nat
  BY <1>0, <1>4, NodeFacts
<1>6. ASSUME NEW m \in DOMAIN t.node, Parent(t, m) = root, m # root
      PROVE  m = c
  <2>1. Sits(t, m, root, Position(t, m))
    BY <1>0, <1>6, SitsBelow
  <2>2. Position(t, m) = 0 /\ Children(t, root)[Position(t, m) + 1] = m
    BY <1>1, <2>1 DEF Sits
  <2> QED
    BY <1>2, <2>2
<1> HIDE DEF root
<1> QED
  BY <1>1, <1>2, <1>4, <1>5, <1>6 DEF c, root

LEMMA LeafTakesOver ==
  ASSUME NEW t, NEW lev, Shape(t, lev), ~Leaf(t, t.root), NodeCount(t, t.root) = 0,
         Leaf(t, Child(t, t.root, 0))
  PROVE  LET c == Child(t, t.root, 0)
             v == Free(MakeRoot(t, c), t.root)
         IN /\ Shape(v, LevelsLower(v, t, lev)) /\ DOMAIN v.node = {c}
            /\ NodeCount(v, c) = NodeCount(t, c)
<1> DEFINE root == t.root
           c == Child(t, root, 0)
           a == Parent(t, Parent(t, c))
           one == [t.node[c] EXCEPT !.parent = a]
           node == [t.node EXCEPT ![c] = one]
           w == MakeRoot(t, c)
           v == Free(w, root)
           new == LevelsLower(v, t, lev)
<1>0. /\ InOrder(t) /\ Graded(t, lev) /\ Edged(t) /\ Tree(t) /\ Linked(t)
      /\ IsFiniteSet(DOMAIN t.node) /\ NoNode \notin DOMAIN t.node
      /\ root \in DOMAIN t.node /\ t.asserts
  BY DEF Shape, InOrder, Attached
<1>1. /\ c \in DOMAIN t.node /\ c # root /\ Parent(t, c) = root /\ Position(t, c) = 0
      /\ lev[c] + 1 = lev[root] /\ lev[c] \in Nat /\ MaxCount(t, c) = kNodeValues
      /\ \A m \in DOMAIN t.node : Parent(t, m) = root /\ m # root => m = c
  BY OnlyChild
<1>2. Leaf(t, c) /\ ~Leaf(t, root)
  OBVIOUS
<1> HIDE DEF c, root
<1>3. lev[c] = 0 /\ lev[root] = 1
  BY <1>0, <1>1, <1>2, NodeFacts
<1>4. DOMAIN t.node = {root, c}
  <2>1. ASSUME NEW m \in DOMAIN t.node, m # root
        PROVE  m = c
    <3>1. /\ lev[m] \in Nat /\ lev[m] < lev[root] /\ lev[Parent(t, m)] = lev[m] + 1
          /\ Parent(t, m) \in DOMAIN t.node
      BY <1>0, <2>1, BelowRootFacts DEF root
    <3>2. Parent(t, m) = root
      <4>1. Parent(t, m) # root => lev[Parent(t, m)] < lev[root]
        BY <1>0, <3>1 DEF Graded, root
      <4> QED
        BY <1>3, <3>1, <4>1
    <3> QED
      BY <1>1, <2>1, <3>2
  <2> QED
    BY <1>0, <1>1, <2>1
<1>5. a = c /\ Leaf(t, a)
  <2>1. a = Leftmost(t)
    BY <1>0, <1>1 DEF Leftmost, root
  <2>2. a \in DOMAIN t.node /\ Leaf(t, a)
    BY <1>0, <2>1 DEF Edged, AtEdge, FirstChildren
  <2> QED
    BY <1>2, <1>4, <2>2
<1> HIDE DEF a
<1>6. w = [t EXCEPT !.node = node, !.root = c, !.rightmost = NoNode, !.size = 0]
  <2>1. Check(t, IsRoot(t, Parent(t, c))) = t
    <3>1. IsRoot(t, Parent(t, c))
      BY <1>5 DEF IsRoot, a
    <3> QED
      BY <1>0, <3>1, CheckPasses
  <2>2. w = [t EXCEPT !.node[c].parent = a, !.root = c, !.rightmost = NoNode, !.size = 0]
    BY <2>1 DEF MakeRoot, a
  <2> HIDE DEF w
  <2> QED
    BY <2>2
<1> HIDE DEF w
<1>7. /\ one \in Node /\ one.fields = t.node[c].fields /\ one.max_count = t.node[c].max_count
      /\ one.parent = a /\ one.position = t.node[c].position
      /\ one.values = t.node[c].values /\ one.children = t.node[c].children
  <2>1. t.node[c] \in Node /\ a \in Nat
    BY <1>0, <1>1, <1>5 DEF Tree
  <2> QED
    BY <2>1 DEF Node
<1> HIDE DEF one
<1>8. /\ node \in [DOMAIN t.node -> Node] /\ DOMAIN node = DOMAIN t.node /\ node[c] = one
  <2>1. t.node \in [DOMAIN t.node -> Node]
    BY <1>0 DEF Tree
  <2> QED
    BY <1>1, <1>7, <2>1
<1> HIDE DEF node
<1>9. /\ w.node = node /\ w.root = c /\ w.rightmost = NoNode /\ w.asserts = t.asserts
      /\ w = [node |-> w.node, root |-> w.root, rightmost |-> w.rightmost, size |-> w.size,
              asserts |-> w.asserts]
  BY <1>0, <1>6 DEF Tree
<1>10. Tree(w)
  BY <1>0, <1>1, <1>8, <1>9 DEF Tree
<1>11. Freed(w, v, root)
  BY <1>0, <1>1, <1>8, <1>9, <1>10, FreeFrees
<1> HIDE DEF v
<1>12. /\ Tree(v) /\ IsFiniteSet(DOMAIN v.node) /\ DOMAIN v.node = {c} /\ v.node[c] = one
       /\ v.root = c /\ v.asserts
  BY <1>0, <1>1, <1>4, <1>8, <1>9, <1>11 DEF Freed
<1>13. /\ Leaf(v, c) /\ v.node[c].fields = "leaf" /\ MaxCount(v, c) = kNodeValues
       /\ Values(v, c) = Values(t, c) /\ Children(v, c) = Children(t, c) /\ Parent(v, c) = c
       /\ NodeCount(v, c) = NodeCount(t, c)
  BY <1>1, <1>2, <1>5, <1>7, <1>12
  DEF Leaf, MaxCount, Values, Children, Parent, NodeCount
<1>14. /\ NodeCount(t, c) \in Nat /\ NodeCount(t, c) <= kNodeValues /\ kNodeValues \in Nat
       /\ kNodeValues >= 3 /\ Len(Children(v, c)) = 0
  <2>1. /\ NodeCount(t, c) \in Nat /\ NodeCount(t, c) <= MaxCount(t, c) /\ kNodeValues \in Nat
        /\ kNodeValues >= 3 /\ ChildPerGap(t, c)
    BY <1>0, <1>1, NodeFacts
  <2> QED
    BY <1>1, <1>2, <1>13, <2>1 DEF ChildPerGap
<1>15. DOMAIN new = {c} /\ new[c] = 0
  BY <1>3, <1>12 DEF LevelsLower, root
<1> HIDE DEF new
<1>16. Linked(v)
  BY <1>12, <1>14 DEF Linked, Links
<1>17. Sized(v)
  BY <1>12, <1>13, <1>14 DEF Sized
<1>18. InOrder(v) /\ Graded(v, new)
  <2>1. /\ NoNode \notin DOMAIN v.node /\ v.root \in DOMAIN v.node /\ DOMAIN new = DOMAIN v.node
    BY <1>0, <1>1, <1>12, <1>15
  <2>2. \A m \in DOMAIN v.node :
          ChildPerGap(v, m) /\ new[m] \in Nat /\ (Leaf(v, m) <=> new[m] = 0)
    BY <1>12, <1>13, <1>14, <1>15 DEF ChildPerGap
  <2>3. \A m \in DOMAIN v.node \ {v.root} :
          /\ new[m] < new[v.root]
          /\ \E p \in DOMAIN v.node : \E i \in Nat : Sits(v, m, p, i) /\ new[p] = new[m] + 1
    BY <1>12
  <2> QED
    BY <1>12, <1>16, <1>17, <2>1, <2>2, <2>3, InOrderWhen
<1>19. Edged(v)
  <2>1. Leftmost(v) = c /\ Rightmost(v) = c
    BY <1>0, <1>1, <1>12, <1>13 DEF Leftmost, Rightmost
  <2>2. {c} \in SUBSET FirstChildren(v) /\ {c} \in SUBSET LastChildren(v)
    BY <1>12 DEF FirstChildren, LastChildren
  <2> QED
    BY <1>12, <1>13, <2>1, <2>2 DEF Edged, AtEdge
<1> QED
  BY <1>12, <1>13, <1>18, <1>19 DEF Shape, v, w, c, root, new

LEMMA ContentsMoveUp ==
  ASSUME NEW t, NEW lev, Shape(t, lev), ~Leaf(t, t.root), NodeCount(t, t.root) = 0,
         ~Leaf(t, Child(t, t.root, 0))
  PROVE  LET c == Child(t, t.root, 0)
             v == DeleteInternalNode(Swap(t, c, t.root), c)
         IN /\ Shape(v, LevelsLower(v, t, lev)) /\ DOMAIN v.node = DOMAIN t.node \ {c}
            /\ v.root = t.root /\ NodeCount(v, t.root) = NodeCount(t, c)
            /\ \A m \in DOMAIN v.node \ {t.root} : NodeCount(v, m) = NodeCount(t, m)
<1> DEFINE root == t.root
           c == Child(t, root, 0)
           w == Swap(t, c, root)
           v == Free(w, c)
           new == LevelsLower(v, t, lev)
<1>0. /\ InOrder(t) /\ Graded(t, lev) /\ Edged(t) /\ Tree(t) /\ Linked(t)
      /\ IsFiniteSet(DOMAIN t.node) /\ NoNode \notin DOMAIN t.node
      /\ root \in DOMAIN t.node /\ t.asserts
  BY DEF Shape, InOrder, Attached
<1>1. /\ c \in DOMAIN t.node /\ c # root /\ Parent(t, c) = root /\ Position(t, c) = 0
      /\ lev[c] + 1 = lev[root] /\ lev[c] \in Nat /\ MaxCount(t, c) = kNodeValues
      /\ Len(Children(t, root)) = 1 /\ Children(t, root)[1] = c
      /\ \A m \in DOMAIN t.node : Parent(t, m) = root /\ m # root => m = c
  BY OnlyChild
<1>2. ~Leaf(t, c) /\ ~Leaf(t, root)
  OBVIOUS
<1>3. Swapped(t, w, c, root)
  <2>1. Leaf(t, c) = Leaf(t, root)
    BY <1>2 DEF Leaf
  <2> HIDE DEF c
  <2> QED
    BY <1>0, <1>1, <2>1, SwapSwaps
<1> HIDE DEF c, root, w
<1>4. /\ Tree(w) /\ Linked(w) /\ DOMAIN w.node = DOMAIN t.node /\ w.root = root
      /\ w.rightmost = t.rightmost /\ w.asserts = t.asserts /\ Leftmost(w) = Leftmost(t)
      /\ Values(w, root) = Values(t, c) /\ Children(w, root) = Children(t, c)
      /\ Children(w, c) = Children(t, root)
      /\ \A m \in DOMAIN t.node :
           w.node[m].fields = t.node[m].fields /\ MaxCount(w, m) = MaxCount(t, m)
      /\ \A m \in DOMAIN t.node \ {c, root} :
           Values(w, m) = Values(t, m) /\ Children(w, m) = Children(t, m)
  BY <1>0, <1>3 DEF Swapped, SameFrame, SameElsewhere, root
<1>5. Freed(w, v, c)
  BY <1>0, <1>1, <1>4, FreeFrees
<1>6. DeleteInternalNode(w, c) = v
  <2>1. Check(w, c # w.root) = w
    BY <1>1, <1>4, CheckPasses
  <2> QED
    BY <2>1 DEF DeleteInternalNode
<1> HIDE DEF v
<1>7. /\ Tree(v) /\ IsFiniteSet(DOMAIN v.node) /\ DOMAIN v.node = DOMAIN t.node \ {c}
      /\ \A m \in DOMAIN v.node : v.node[m] = w.node[m]
      /\ v.root = root /\ v.rightmost = t.rightmost /\ v.asserts /\ root \in DOMAIN v.node
  BY <1>0, <1>1, <1>4, <1>5 DEF Freed
<1>8. \A m \in DOMAIN v.node :
        /\ v.node[m].fields = w.node[m].fields /\ MaxCount(v, m) = MaxCount(w, m)
        /\ Values(v, m) = Values(w, m) /\ Children(v, m) = Children(w, m)
        /\ Parent(v, m) = Parent(w, m) /\ Position(v, m) = Position(w, m)
  BY <1>7 DEF MaxCount, Values, Children, Parent, Position
<1>9. /\ \A m \in DOMAIN v.node :
           /\ v.node[m].fields = t.node[m].fields /\ MaxCount(v, m) = MaxCount(t, m)
           /\ Leaf(v, m) = Leaf(t, m)
      /\ Values(v, root) = Values(t, c) /\ Children(v, root) = Children(t, c)
      /\ \A m \in DOMAIN v.node \ {root} :
           Values(v, m) = Values(t, m) /\ Children(v, m) = Children(t, m)
  BY <1>4, <1>7, <1>8 DEF Leaf
<1>10. /\ NodeCount(v, root) = NodeCount(t, c)
       /\ \A m \in DOMAIN v.node \ {root} : NodeCount(v, m) = NodeCount(t, m)
  BY <1>7, <1>9 DEF NodeCount
<1>11. Leftmost(v) = Leftmost(t)
  <2>1. Leftmost(v) = Leftmost(w)
    BY <1>4, <1>7, <1>8 DEF Leftmost
  <2> QED
    BY <1>4, <2>1
<1>12. Linked(v)
  <2> SUFFICES ASSUME NEW m \in DOMAIN v.node, NEW i \in 1..Len(Children(v, m))
               PROVE  LET d == Children(v, m)[i]
                      IN d \in DOMAIN v.node /\ d # v.root /\ Parent(v, d) = m /\ Position(v, d) = i - 1
    BY DEF Linked, Links
  <2> DEFINE d == Children(v, m)[i]
  <2>1. m \in DOMAIN w.node /\ m # c /\ Children(v, m) = Children(w, m)
    BY <1>4, <1>7, <1>8
  <2>2. d \in DOMAIN w.node /\ d # w.root /\ Parent(w, d) = m /\ Position(w, d) = i - 1
    BY <1>4, <2>1 DEF Linked, Links
  <2>3. Parent(w, c) = c
    <3>1. c \in DOMAIN w.node /\ Children(w, c)[1] = c
      BY <1>1, <1>4
    <3>2. Len(Children(w, c)) = 1
      BY <1>1, <1>4
    <3>3. 1 \in 1..Len(Children(w, c))
      BY <3>2
    <3> QED
      BY <1>4, <3>1, <3>3 DEF Linked, Links
  <2> HIDE DEF d
  <2>4. d \in DOMAIN v.node
    BY <1>4, <1>7, <2>1, <2>2, <2>3
  <2> QED
    BY <1>4, <1>7, <1>8, <2>2, <2>4 DEF d
<1>13. ASSUME NEW m \in DOMAIN t.node, m # root, m # c
       PROVE  LET p == Parent(t, m)
                  i == Position(t, m)
              IN /\ p \in DOMAIN t.node /\ p # root /\ i \in Nat
                 /\ lev[p] = lev[m] + 1 /\ lev[m] \in Nat /\ lev[m] < lev[root] - 1
                 /\ p = c => Hangs(v, m, root, i)
                 /\ p # c => Hangs(v, m, p, i) /\ p \in DOMAIN v.node
  <2> DEFINE p == Parent(t, m)
             i == Position(t, m)
  <2>1. Sits(t, m, p, i) /\ p \in DOMAIN t.node /\ i \in Nat /\ lev[p] = lev[m] + 1 /\ lev[m] \in Nat
    BY <1>0, <1>13, SitsBelow, BelowRootFacts DEF root
  <2>2. p # root
    BY <1>1, <1>13
  <2>3. lev[p] < lev[root] /\ lev[p] \in Nat /\ lev[root] \in Nat
    BY <1>0, <2>1, <2>2 DEF Graded, root
  <2> HIDE DEF p, i
  <2>4. p = c => Hangs(v, m, root, i)
    <3>1. p = c => Sits(v, m, root, i)
      BY <1>7, <1>9, <2>1, SitsMoved
    <3> QED
      BY <1>7, <1>12, <3>1, SitsHangs
  <2>5. p # c => Hangs(v, m, p, i) /\ p \in DOMAIN v.node
    <3>1. p # c => p \in DOMAIN v.node \ {root}
      BY <1>7, <2>1, <2>2
    <3>2. p # c => Sits(v, m, p, i)
      BY <1>9, <2>1, <3>1, SitsMoved
    <3> QED
      BY <1>7, <1>12, <3>1, <3>2, SitsHangs
  <2>6. lev[m] < lev[root] - 1
    BY <2>1, <2>3
  <2> QED
    BY <2>1, <2>2, <2>4, <2>5, <2>6 DEF p, i
<1>14. /\ DOMAIN new = DOMAIN v.node /\ new[root] = lev[c] /\ lev[c] = lev[root] - 1
       /\ lev[root] \in Nat
       /\ \A m \in DOMAIN v.node \ {root} : new[m] = lev[m]
  <2>1. lev[root] \in Nat
    BY <1>0 DEF Graded
  <2> QED
    BY <1>1, <1>7, <2>1 DEF LevelsLower, root
<1> HIDE DEF new
<1>15. Sized(v)
  <2> SUFFICES ASSUME NEW m \in DOMAIN v.node
               PROVE  /\ v.node[m].fields = "root" <=> (m = v.root /\ ~Leaf(v, m))
                      /\ MaxCount(v, m) \in 1..kNodeValues
                      /\ MaxCount(v, m) = kNodeValues \/ (m = v.root /\ Leaf(v, m))
                      /\ NodeCount(v, m) <= MaxCount(v, m)
    BY DEF Sized
  <2>1. m \in DOMAIN t.node
    BY <1>7
  <2>2. NodeCount(v, m) <= MaxCount(v, m)
    <3>1. CASE m = root
      <4>1. NodeCount(t, c) <= MaxCount(t, c) /\ MaxCount(t, root) = kNodeValues
        BY <1>0, <1>1, <1>2, NodeFacts
      <4> QED
        BY <1>1, <1>7, <1>9, <1>10, <3>1, <4>1
    <3>2. CASE m # root
      BY <1>0, <1>9, <1>10, <2>1, <3>2 DEF InOrder, Sized
    <3> QED
      BY <3>1, <3>2
  <2> QED
    BY <1>0, <1>7, <1>9, <2>1, <2>2 DEF InOrder, Sized, root
<1>16. ASSUME NEW m \in DOMAIN v.node
       PROVE  ChildPerGap(v, m) /\ new[m] \in Nat /\ (Leaf(v, m) <=> new[m] = 0)
  <2>1. m \in DOMAIN t.node
    BY <1>7
  <2>2. CASE m = root
    <3>1. ChildPerGap(t, c) /\ (Leaf(t, c) <=> lev[c] = 0)
      BY <1>0, <1>1, NodeFacts
    <3> QED
      BY <1>1, <1>2, <1>7, <1>9, <1>10, <1>14, <2>2, <3>1 DEF ChildPerGap
  <2>3. CASE m # root
    <3>1. ChildPerGap(t, m) /\ (Leaf(t, m) <=> lev[m] = 0) /\ lev[m] \in Nat
      BY <1>0, <2>1, NodeFacts
    <3> QED
      BY <1>9, <1>10, <1>14, <2>3, <3>1 DEF ChildPerGap
  <2> QED
    BY <2>2, <2>3
<1>17. InOrder(v) /\ Graded(v, new)
  <2>1. NoNode \notin DOMAIN v.node /\ v.root \in DOMAIN v.node
    BY <1>0, <1>7
  <2>2. ASSUME NEW m \in DOMAIN v.node \ {v.root}
        PROVE  /\ new[m] < new[v.root]
               /\ \E q \in DOMAIN v.node : \E j \in Nat : Sits(v, m, q, j) /\ new[q] = new[m] + 1
    <3> DEFINE p == Parent(t, m)
               i == Position(t, m)
    <3>1. m \in DOMAIN t.node /\ m # root /\ m # c
      BY <1>7, <2>2
    <3>2. /\ p \in DOMAIN t.node /\ p # root /\ i \in Nat
          /\ lev[p] = lev[m] + 1 /\ lev[m] \in Nat /\ lev[m] < lev[root] - 1
          /\ p = c => Hangs(v, m, root, i)
          /\ p # c => Hangs(v, m, p, i) /\ p \in DOMAIN v.node
      BY <1>13, <3>1
    <3> HIDE DEF p, i
    <3>3. CASE p = c
      BY <1>7, <1>14, <2>2, <3>1, <3>2, <3>3 DEF Hangs
    <3>4. CASE p # c
      BY <1>7, <1>14, <2>2, <3>1, <3>2, <3>4 DEF Hangs
    <3> QED
      BY <3>3, <3>4
  <2> QED
    BY <1>7, <1>12, <1>14, <1>15, <1>16, <2>1, <2>2, InOrderWhen
<1>18. Rightmost(v) = Rightmost(t)
  BY <1>0, <1>2, <1>7, <1>9 DEF Rightmost, root
<1>19. AtEdge(v, Leftmost(v), FirstChildren(v))
  <2>1. PICK E \in SUBSET FirstChildren(t) :
          /\ Leftmost(t) \in E /\ Leaf(t, Leftmost(t))
          /\ \A n \in E : n # t.root => Parent(t, n) \in E
    BY <1>0 DEF Edged, AtEdge
  <2> DEFINE F == (E \ {c}) \cup {root}
  <2>2. E \subseteq DOMAIN t.node
    BY <2>1 DEF FirstChildren
  <2>3. ASSUME NEW m \in F, m # root
        PROVE  Parent(v, m) \in F /\ Position(v, m) = 0
    <3>1. m \in E /\ m \in DOMAIN t.node /\ m # c /\ Position(t, m) = 0 /\ Parent(t, m) \in E
      BY <2>1, <2>2, <2>3 DEF FirstChildren, root
    <3> QED
      BY <1>13, <2>3, <3>1 DEF Hangs
  <2>4. F \in SUBSET FirstChildren(v)
    <3>1. F \subseteq DOMAIN v.node
      BY <1>7, <2>2
    <3> HIDE DEF F
    <3> QED
      BY <1>7, <2>3, <3>1 DEF FirstChildren
  <2>5. Leftmost(v) \in F /\ Leaf(v, Leftmost(v))
    BY <1>2, <1>7, <1>9, <1>11, <2>1, <2>2
  <2> HIDE DEF F
  <2> QED
    BY <1>7, <2>3, <2>4, <2>5 DEF AtEdge
<1>20. AtEdge(v, Rightmost(v), LastChildren(v))
  <2>1. PICK E \in SUBSET LastChildren(t) :
          /\ Rightmost(t) \in E /\ Leaf(t, Rightmost(t))
          /\ \A n \in E : n # t.root => Parent(t, n) \in E
    BY <1>0 DEF Edged, AtEdge
  <2> DEFINE F == (E \ {c}) \cup {root}
  <2>2. E \subseteq DOMAIN t.node
    BY <2>1 DEF LastChildren
  <2>3. ASSUME NEW m \in F, m # root
        PROVE  Parent(v, m) \in F /\ Position(v, m) = NodeCount(v, Parent(v, m))
    <3> DEFINE p == Parent(t, m)
               i == Position(t, m)
    <3>1. m \in E /\ m \in DOMAIN t.node /\ m # c /\ i = NodeCount(t, p) /\ p \in E
      BY <2>1, <2>2, <2>3 DEF LastChildren, root
    <3>2. /\ p # root /\ p = c => Hangs(v, m, root, i)
          /\ p # c => Hangs(v, m, p, i) /\ p \in DOMAIN v.node
      BY <1>13, <2>3, <3>1
    <3>3. p # root
      BY <1>13, <2>3, <3>1
    <3> HIDE DEF p, i
    <3>4. CASE p = c
      BY <1>10, <3>1, <3>2, <3>3, <3>4 DEF Hangs
    <3>5. CASE p # c
      BY <1>10, <3>1, <3>2, <3>3, <3>5 DEF Hangs
    <3> QED
      BY <3>4, <3>5
  <2>4. F \in SUBSET LastChildren(v)
    <3>1. F \subseteq DOMAIN v.node
      BY <1>7, <2>2
    <3> HIDE DEF F
    <3> QED
      BY <1>7, <2>3, <3>1 DEF LastChildren
  <2>5. Rightmost(v) \in F /\ Leaf(v, Rightmost(v))
    BY <1>2, <1>7, <1>9, <1>18, <2>1, <2>2
  <2> HIDE DEF F
  <2> QED
    BY <1>7, <2>3, <2>4, <2>5 DEF AtEdge
<1> QED
  BY <1>6, <1>7, <1>10, <1>17, <1>19, <1>20 DEF Shape, Edged, v, w, c, root, new

LEMMA ShrinkKeepsShape ==
  ASSUME NEW t, NEW lev, Repairing(t, lev, t.root)
  PROVE  LET v == TryShrink(t)
         IN \/ v = t /\ NoneEmpty(t)
            \/ Gone(v)
            \/ Shape(v, LevelsLower(v, t, lev)) /\ NoneEmpty(v)
<1> DEFINE root == t.root
           c == Child(t, root, 0)
           v == TryShrink(t)
<1>0. /\ Shape(t, lev) /\ InOrder(t) /\ Graded(t, lev) /\ root \in DOMAIN t.node
      /\ \A m \in DOMAIN t.node \ {root} : NodeCount(t, m) >= 1
      /\ NodeCount(t, root) \in Nat
  <2>1. Shape(t, lev) /\ \A m \in DOMAIN t.node \ {root} : NodeCount(t, m) >= 1
    BY DEF Repairing
  <2>2. InOrder(t) /\ Graded(t, lev) /\ root \in DOMAIN t.node
    BY <2>1 DEF Shape, InOrder
  <2> QED
    BY <2>1, <2>2, NodeFacts
<1>1. CASE NodeCount(t, root) > 0
  <2>1. v = t
    BY <1>1 DEF TryShrink
  <2>2. NoneEmpty(t)
    BY <1>0, <1>1 DEF NoneEmpty
  <2> QED
    BY <2>1, <2>2
<1>2. CASE NodeCount(t, root) = 0 /\ Leaf(t, root)
  <2>1. v = DeleteRootLeaf(t)
    BY <1>2 DEF TryShrink
  <2>2. Gone(DeleteRootLeaf(t))
    BY <1>0, <1>2, LastLeafGoes
  <2> QED
    BY <2>1, <2>2
<1>3. CASE NodeCount(t, root) = 0 /\ ~Leaf(t, root) /\ Leaf(t, c)
  <2>1. v = Free(MakeRoot(t, c), root)
    BY <1>3 DEF TryShrink
  <2>2. Shape(v, LevelsLower(v, t, lev)) /\ DOMAIN v.node = {c} /\ NodeCount(v, c) = NodeCount(t, c)
    <3> DEFINE w == Free(MakeRoot(t, c), root)
    <3>1. Shape(w, LevelsLower(w, t, lev)) /\ DOMAIN w.node = {c} /\ NodeCount(w, c) = NodeCount(t, c)
      BY <1>0, <1>3, LeafTakesOver
    <3> HIDE DEF w, v, c
    <3> QED
      BY <2>1, <3>1 DEF w
  <2>3. c \in DOMAIN t.node /\ c # root
    BY <1>0, <1>3, OnlyChild
  <2>4. NoneEmpty(v)
    BY <1>0, <2>2, <2>3 DEF NoneEmpty
  <2> QED
    BY <2>2, <2>4
<1>4. CASE NodeCount(t, root) = 0 /\ ~Leaf(t, root) /\ ~Leaf(t, c)
  <2>1. v = DeleteInternalNode(Swap(t, c, root), c)
    BY <1>4 DEF TryShrink
  <2>2. /\ Shape(v, LevelsLower(v, t, lev)) /\ DOMAIN v.node = DOMAIN t.node \ {c}
        /\ v.root = root /\ NodeCount(v, root) = NodeCount(t, c)
        /\ \A m \in DOMAIN v.node \ {root} : NodeCount(v, m) = NodeCount(t, m)
    <3> DEFINE w == DeleteInternalNode(Swap(t, c, root), c)
    <3>1. /\ Shape(w, LevelsLower(w, t, lev)) /\ DOMAIN w.node = DOMAIN t.node \ {c}
          /\ w.root = root /\ NodeCount(w, root) = NodeCount(t, c)
          /\ \A m \in DOMAIN w.node \ {root} : NodeCount(w, m) = NodeCount(t, m)
      BY <1>0, <1>4, ContentsMoveUp
    <3> HIDE DEF w, v, c
    <3> QED
      BY <2>1, <3>1 DEF w
  <2>3. c \in DOMAIN t.node /\ c # root
    BY <1>0, <1>4, OnlyChild
  <2>4. NoneEmpty(v)
    BY <1>0, <2>2, <2>3 DEF NoneEmpty
  <2> QED
    BY <2>2, <2>4
<1> QED
  BY <1>0, <1>1, <1>2, <1>3, <1>4

-------------------------------------------------------------------------------
\* A root that is a leaf, new or twice as large as it was.

LEMMA OneLeaf ==
  ASSUME NEW v, NEW a, NEW new, Tree(v), DOMAIN v.node = {a}, a # NoNode, v.root = a, v.asserts,
         Leaf(v, a), Parent(v, a) = a, Children(v, a) = <<>>,
         MaxCount(v, a) \in 1..kNodeValues, NodeCount(v, a) <= MaxCount(v, a),
         DOMAIN new = {a}, new[a] = 0
  PROVE  Shape(v, new)
<1>1. Len(<<>>) = 0 /\ IsFiniteSet({a})
  BY FS_Singleton
<1>2. Linked(v)
  BY <1>1 DEF Linked, Links
<1>3. Sized(v)
  BY DEF Sized, Leaf
<1>4. \A m \in DOMAIN v.node :
        ChildPerGap(v, m) /\ new[m] \in Nat /\ (Leaf(v, m) <=> new[m] = 0)
  BY <1>1 DEF ChildPerGap
<1>5. \A m \in DOMAIN v.node \ {v.root} :
        /\ new[m] < new[v.root]
        /\ \E p \in DOMAIN v.node : \E i \in Nat : Sits(v, m, p, i) /\ new[p] = new[m] + 1
  OBVIOUS
<1>6. /\ IsFiniteSet(DOMAIN v.node) /\ NoNode \notin DOMAIN v.node /\ v.root \in DOMAIN v.node
      /\ DOMAIN new = DOMAIN v.node
  BY <1>1
<1>7. InOrder(v) /\ Graded(v, new)
  BY <1>2, <1>3, <1>4, <1>5, <1>6, InOrderWhen
<1>8. Edged(v)
  <2>1. Leftmost(v) = a /\ Rightmost(v) = a
    BY DEF Leftmost, Rightmost
  <2>2. {a} \in SUBSET FirstChildren(v) /\ {a} \in SUBSET LastChildren(v)
    BY DEF FirstChildren, LastChildren
  <2> QED
    BY <2>1, <2>2 DEF Edged, AtEdge
<1> QED
  BY <1>7, <1>8 DEF Shape

\* u is a leaf by itself, with room for a value at any position up to p.
LeafForNext(u, p) ==
  /\ DOMAIN u.node = {u.root} /\ Shape(u, [m \in DOMAIN u.node |-> 0])
  /\ Leaf(u, u.root) /\ ~Full(u, u.root) /\ p <= NodeCount(u, u.root)

LEMMA NewLeafRootShape ==
  ASSUME NEW t, Tree(t), IsFiniteSet(DOMAIN t.node), DOMAIN t.node = {}, t.asserts
  PROVE  LeafForNext(NewLeafRoot(t, 1), 0)
<1> DEFINE a == FreshAddress(t)
           s == Allocate(t, LeafNode(a, 1))
           u == NewLeafRoot(t, 1)
<1>1. a \in Nat /\ a # NoNode
  BY FreshAddressIsFresh
<1>2. Blank(LeafNode(a, 1), "leaf", a, 1)
  BY <1>1, NewNodes
<1>3. Added(t, s, a, LeafNode(a, 1))
  BY <1>2, AllocateAdds DEF Blank
<1>4. u = [s EXCEPT !.root = a]
  BY DEF NewLeafRoot
<1> HIDE DEF a, s, u
<1>5. /\ Tree(s) /\ DOMAIN s.node = {a} /\ s.asserts /\ s.node[a] = LeafNode(a, 1)
  BY <1>3 DEF Added
<1>6. /\ u.node = s.node /\ u.root = a /\ u.asserts
      /\ u = [node |-> u.node, root |-> u.root, rightmost |-> u.rightmost, size |-> u.size,
              asserts |-> u.asserts]
  BY <1>4, <1>5 DEF Tree
<1>7. Tree(u)
  BY <1>5, <1>6 DEF Tree
<1>8. /\ Leaf(u, a) /\ Parent(u, a) = a /\ Children(u, a) = <<>> /\ MaxCount(u, a) = 1
      /\ NodeCount(u, a) = 0
  <2>1. Len(<<>>) = 0
    OBVIOUS
  <2> QED
    BY <1>2, <1>5, <1>6, <2>1
    DEF Blank, Leaf, Parent, Children, MaxCount, NodeCount, Values
<1> DEFINE new == [m \in DOMAIN u.node |-> 0]
<1>9. DOMAIN u.node = {a} /\ DOMAIN new = {a} /\ new[a] = 0
  BY <1>5, <1>6
<1> HIDE DEF new
<1>10. MaxCount(u, a) \in 1..kNodeValues /\ NodeCount(u, a) <= MaxCount(u, a)
  BY <1>8, kNodeValuesAssumption
<1>11. Shape(u, new)
  BY <1>1, <1>6, <1>7, <1>8, <1>9, <1>10, OneLeaf
<1> QED
  BY <1>6, <1>8, <1>9, <1>11 DEF LeafForNext, Full, u, new

LEMMA GrowRootShape ==
  ASSUME NEW t, NEW lev, Shape(t, lev), Leaf(t, t.root), Full(t, t.root),
         MaxCount(t, t.root) < kNodeValues, NEW p \in 0..NodeCount(t, t.root)
  PROVE  LeafForNext(GrowRoot(t), p)
<1> DEFINE root == t.root
           a == FreshAddress(t)
           size == Min({kNodeValues, 2 * MaxCount(t, root)})
           s == Allocate(t, LeafNode(a, size))
           w == Swap(s, a, root)
           x == [w EXCEPT !.root = a]
           u == Free(x, root)
<1>0. /\ InOrder(t) /\ Graded(t, lev) /\ Tree(t) /\ Linked(t) /\ IsFiniteSet(DOMAIN t.node)
      /\ root \in DOMAIN t.node /\ t.asserts
  BY DEF Shape, InOrder, Attached
<1>1. DOMAIN t.node = {root} /\ root # NoNode /\ Children(t, root) = <<>>
  BY LeafRootAlone
<1>2. /\ NodeCount(t, root) = MaxCount(t, root) /\ MaxCount(t, root) \in 1..kNodeValues
      /\ kNodeValues \in Nat
  BY <1>0, NodeFacts DEF Full
<1>3. size \in 1..kNodeValues /\ NodeCount(t, root) < size
  <2> DEFINE b == 2 * MaxCount(t, root)
             c == MaxCount(t, root)
  <2>1. c \in Nat /\ c >= 1 /\ c < kNodeValues /\ b = 2 * c
    BY <1>2
  <2> HIDE DEF b, c
  <2>2. b \in Int /\ kNodeValues \in Int
    BY <1>2, <2>1
  <2>3. Min({kNodeValues, b}) \in {kNodeValues, b} /\ Min({kNodeValues, b}) <= kNodeValues
    BY <2>2, MinOfTwo
  <2> DEFINE g == Min({kNodeValues, b})
  <2> HIDE DEF g
  <2>4. g \in {kNodeValues, b} /\ g <= kNodeValues
    BY <2>3 DEF g
  <2>5. g \in 1..kNodeValues /\ c < g
    BY <1>2, <2>1, <2>4
  <2>6. size = g
    BY DEF g, b
  <2> QED
    BY <1>2, <2>5, <2>6 DEF c
<1> HIDE DEF size
<1>4. a \in Nat
  BY <1>0, FreshAddressIsFresh
<1>5. Blank(LeafNode(a, size), "leaf", a, size)
  BY <1>3, <1>4, NewNodes
<1>6. Added(t, s, a, LeafNode(a, size))
  BY <1>0, <1>5, AllocateAdds DEF Blank
<1> HIDE DEF a, s
<1>7. /\ Tree(s) /\ IsFiniteSet(DOMAIN s.node) /\ a # NoNode /\ a # root
      /\ DOMAIN s.node = {root, a} /\ s.root = root /\ s.asserts
      /\ s.node[a] = LeafNode(a, size)
  BY <1>0, <1>1, <1>6 DEF Added
<1>8. /\ Values(s, root) = Values(t, root) /\ Children(s, root) = <<>> /\ Leaf(s, root)
      /\ Children(s, a) = <<>> /\ Parent(s, a) = a /\ Leaf(s, a) /\ MaxCount(s, a) = size
  <2>1. /\ Values(s, root) = Values(t, root) /\ Children(s, root) = <<>> /\ Leaf(s, root)
        /\ Children(s, a) = LeafNode(a, size).children /\ Parent(s, a) = LeafNode(a, size).parent
        /\ Leaf(s, a) = (LeafNode(a, size).fields = "leaf")
        /\ MaxCount(s, a) = LeafNode(a, size).max_count
    BY <1>0, <1>1, <1>6, AddedFields
  <2> QED
    BY <1>5, <2>1 DEF Blank
<1>9. Linked(s)
  BY <1>0, <1>5, <1>6, AddedApart DEF Blank
<1>10. Swapped(s, w, a, root)
  BY <1>7, <1>8, <1>9, SwapSwaps
<1>11. GrowRoot(t) = [Free(w, root) EXCEPT !.root = a]
  BY DEF GrowRoot, w, s, a, size
<1> HIDE DEF w, root
<1>12. /\ Tree(w) /\ DOMAIN w.node = {root, a} /\ w.root = root /\ w.asserts = s.asserts
       /\ MaxCount(w, a) = size /\ w.node[a].fields = s.node[a].fields
       /\ Values(w, a) = Values(t, root) /\ Children(w, a) = <<>>
  BY <1>7, <1>8, <1>10 DEF Swapped, SameFrame
<1>13. Parent(w, a) = a
  <2>1. ~Contains(<<>>, a)
    BY DEF Contains
  <2> QED
    BY <1>7, <1>8, <1>10, <2>1 DEF Swapped
<1>14. GrowRoot(t) = u
  <2>1. w = [node |-> w.node, root |-> w.root, rightmost |-> w.rightmost, size |-> w.size,
             asserts |-> w.asserts]
    BY <1>12 DEF Tree
  <2> QED
    BY <1>11, <2>1 DEF Free
<1>15. /\ x.node = w.node /\ x.root = a /\ x.asserts = w.asserts
       /\ x = [node |-> x.node, root |-> x.root, rightmost |-> x.rightmost, size |-> x.size,
               asserts |-> x.asserts]
  BY <1>12 DEF Tree
<1> HIDE DEF x
<1>16. Tree(x) /\ IsFiniteSet(DOMAIN x.node)
  BY <1>7, <1>12, <1>15 DEF Tree
<1>17. Freed(x, u, root)
  BY <1>7, <1>15, <1>16, FreeFrees
<1> HIDE DEF u
<1>18. /\ Tree(u) /\ DOMAIN u.node = {a} /\ u.node[a] = w.node[a] /\ u.root = a /\ u.asserts
  BY <1>7, <1>12, <1>15, <1>17 DEF Freed
<1>19. /\ Leaf(u, a) /\ Parent(u, a) = a /\ Children(u, a) = <<>> /\ MaxCount(u, a) = size
       /\ NodeCount(u, a) = NodeCount(t, root)
  BY <1>8, <1>12, <1>13, <1>18 DEF Leaf, Parent, Children, MaxCount, NodeCount, Values
<1> DEFINE new == [m \in DOMAIN u.node |-> 0]
<1>20. DOMAIN new = {a} /\ new[a] = 0
  BY <1>18
<1> HIDE DEF new
<1>21. MaxCount(u, a) \in 1..kNodeValues /\ NodeCount(u, a) <= MaxCount(u, a) /\ NodeCount(u, a) # MaxCount(u, a)
  BY <1>2, <1>3, <1>19
<1>22. Shape(u, new)
  BY <1>7, <1>18, <1>19, <1>20, <1>21, OneLeaf
<1>23. p <= NodeCount(u, a)
  BY <1>2, <1>19 DEF root
<1>24. LeafForNext(u, p)
  BY <1>18, <1>19, <1>21, <1>22, <1>23 DEF LeafForNext, Full, new
<1> QED
  BY <1>14, <1>24

-------------------------------------------------------------------------------
\* The size is counted in a field of its own.

LEMMA CountingKeepsShape ==
  ASSUME NEW u, NEW lev, Shape(u, lev), NEW v, v \in {Counted(u), Uncounted(u)}
  PROVE  SameNodes(u, v) /\ Shape(v, lev)
<1>1. Tree(u)
  BY DEF Shape, InOrder
<1>2. \E size : v = u \/ v = [u EXCEPT !.size = size]
  BY DEF Counted, Uncounted
<1>3. SameNodes(u, v) /\ v.rightmost = u.rightmost
  BY <1>1, <1>2 DEF SameNodes, Tree
<1>4. Rightmost(v) = Rightmost(u)
  BY <1>3, SameNodesFacts DEF Rightmost, SameNodes
<1> QED
  BY <1>3, <1>4, SameNodesShape

LEMMA CountedMakesRoom ==
  ASSUME NEW t, NEW u, NEW lev, NEW new, NEW n, NEW p, NEW at, RoomMade(t, u, lev, new, n, p, at)
  PROVE  RoomMade(t, Counted(u), lev, new, n, p, at)
<1> DEFINE v == Counted(u)
<1>1. SameNodes(u, v) /\ Shape(v, new)
  BY CountingKeepsShape DEF RoomMade
<1> HIDE DEF v
<1>2. /\ v.node = u.node /\ v.root = u.root
      /\ \A m : /\ Parent(v, m) = Parent(u, m) /\ Position(v, m) = Position(u, m)
                /\ MaxCount(v, m) = MaxCount(u, m) /\ NodeCount(v, m) = NodeCount(u, m)
                /\ Full(v, m) = Full(u, m)
  BY <1>1, SameNodesFacts DEF SameNodes
<1>3. BelowKept(t, v, lev, new, n)
  BY <1>2 DEF RoomMade, BelowKept
<1> QED
  BY <1>1, <1>2, <1>3 DEF RoomMade, v
===============================================================================
