--------------------------- MODULE BTreeMethodsProofs ---------------------------
(***************************************************************************)
(* The methods of btree_node keep what BTreeMethods says they do, proved   *)
(* for every size of node and every set of keys and data.                  *)
(***************************************************************************)
EXTENDS BTreeMethods, SequenceTheorems, FiniteSetTheorems, WellFoundedInduction, TLAPS

-------------------------------------------------------------------------------
\* Sequences.

Distinct(s) == \A i, j \in 1..Len(s) : s[i] = s[j] => i = j

LEMMA IndexOfEach ==
  ASSUME NEW s \in Seq(Nat), Distinct(s), NEW j \in 1..Len(s)
  PROVE  IndexIn(s, s[j]) = j
<1> DEFINE I == {i \in 1..Len(s) : s[i] = s[j]}
<1>1. I = {j}
  BY DEF Distinct
<1>2. IndexIn(s, s[j]) = IF I # {} THEN Min(I) ELSE 0
  BY DEF IndexIn, SelectInSeq
<1>3. Min(I) = j
  <2> HIDE DEF I
  <2> QED BY <1>1 DEF Min
<1> QED
  BY <1>1, <1>2, <1>3

LEMMA Part ==
  ASSUME NEW S, NEW s \in Seq(S), NEW a \in 1..Len(s) + 1, NEW b \in a - 1..Len(s)
  PROVE  /\ SubSeq(s, a, b) \in Seq(S) /\ Len(SubSeq(s, a, b)) = b - a + 1
         /\ \A j \in 1..b - a + 1 : SubSeq(s, a, b)[j] = s[a + j - 1]
<1>1. \A j \in a..b : s[j] \in S
  BY ElementOfSeq
<1> QED
  BY <1>1, SubSeqProperties

LEMMA EmptyPart ==
  ASSUME NEW S, NEW s \in Seq(S)
  PROVE  SubSeq(s, 1, 0) = <<>> /\ SubSeq(s, Len(s) + 1, Len(s)) = <<>>
  BY SubSeqEmpty, LenProperties

\* A part of a sequence without duplicates has none.
LEMMA DistinctPart ==
  ASSUME NEW S, NEW s \in Seq(S), Distinct(s), NEW a \in 1..Len(s) + 1, NEW b \in a - 1..Len(s)
  PROVE  Distinct(SubSeq(s, a, b))
<1> DEFINE z == SubSeq(s, a, b)
<1>1. Len(z) = b - a + 1 /\ \A j \in 1..b - a + 1 : z[j] = s[a + j - 1]
  BY Part
<1> HIDE DEF z
<1>2. ASSUME NEW i \in 1..Len(z), NEW j \in 1..Len(z), z[i] = z[j]
      PROVE  i = j
  <2>1. a + i - 1 \in 1..Len(s) /\ a + j - 1 \in 1..Len(s) /\ s[a + i - 1] = s[a + j - 1]
    BY <1>1, <1>2
  <2>2. a + i - 1 = a + j - 1
    BY <2>1 DEF Distinct
  <2> QED
    BY <2>2, <1>1
<1> QED
  BY <1>2 DEF Distinct, z

\* A value in the middle: what a rebalancing or a split makes a delimiter.
LEMMA CutAt ==
  ASSUME NEW S, NEW s \in Seq(S), NEW k \in 1..Len(s)
  PROVE  SubSeq(s, 1, k - 1) \o <<s[k]>> \o SubSeq(s, k + 1, Len(s)) = s
<1>1. SubSeq(s, 1, k) = SubSeq(s, 1, k - 1) \o <<s[k]>>
  BY SubSeqRecursiveSecond
<1>2. SubSeq(s, 1, k) \o SubSeq(s, k + 1, Len(s)) = SubSeq(s, 1, Len(s))
  BY ConcatAdjacentSubSeq
<1> QED
  BY <1>1, <1>2, SubSeqFull

LEMMA CutAfter ==
  ASSUME NEW S, NEW s \in Seq(S), NEW k \in 0..Len(s)
  PROVE  SubSeq(s, 1, k) \o SubSeq(s, k + 1, Len(s)) = s
<1>0. Len(s) \in Nat /\ 1 \in 1..Len(s) + 1 /\ k \in (1 - 1)..Len(s) /\ Len(s) \in k..Len(s)
  BY LenProperties
<1>1. SubSeq(s, 1, k) \o SubSeq(s, k + 1, Len(s)) = SubSeq(s, 1, Len(s))
  BY <1>0, ConcatAdjacentSubSeq
<1> QED
  BY <1>1, SubSeqFull

LEMMA Prefix ==
  ASSUME NEW S, NEW s \in Seq(S), NEW k \in 0..Len(s)
  PROVE  /\ SubSeq(s, 1, k) \in Seq(S) /\ Len(SubSeq(s, 1, k)) = k
         /\ \A j \in 1..k : SubSeq(s, 1, k)[j] = s[j]
         /\ Distinct(s) => Distinct(SubSeq(s, 1, k))
<1>1. Len(s) \in Nat /\ 1 \in 1..Len(s) + 1 /\ k \in (1 - 1)..Len(s) /\ k - 1 + 1 = k
  BY LenProperties
<1>2. /\ SubSeq(s, 1, k) \in Seq(S) /\ Len(SubSeq(s, 1, k)) = k - 1 + 1
      /\ \A j \in 1..k - 1 + 1 : SubSeq(s, 1, k)[j] = s[1 + j - 1]
  BY <1>1, Part
<1>3. Distinct(s) => Distinct(SubSeq(s, 1, k))
  BY <1>1, DistinctPart
<1> QED
  BY <1>1, <1>2, <1>3

LEMMA Suffix ==
  ASSUME NEW S, NEW s \in Seq(S), NEW k \in 0..Len(s)
  PROVE  /\ SubSeq(s, k + 1, Len(s)) \in Seq(S) /\ Len(SubSeq(s, k + 1, Len(s))) = Len(s) - k
         /\ \A j \in 1..Len(s) - k : SubSeq(s, k + 1, Len(s))[j] = s[k + j]
         /\ Distinct(s) => Distinct(SubSeq(s, k + 1, Len(s)))
<1>1. Len(s) \in Nat /\ k + 1 \in 1..Len(s) + 1 /\ Len(s) \in (k + 1) - 1..Len(s)
  BY LenProperties
<1>2. /\ SubSeq(s, k + 1, Len(s)) \in Seq(S)
      /\ Len(SubSeq(s, k + 1, Len(s))) = Len(s) - (k + 1) + 1
      /\ \A j \in 1..Len(s) - (k + 1) + 1 : SubSeq(s, k + 1, Len(s))[j] = s[(k + 1) + j - 1]
  BY <1>1, Part
<1>3. Distinct(s) => Distinct(SubSeq(s, k + 1, Len(s)))
  BY <1>1, DistinctPart
<1> QED
  BY <1>1, <1>2, <1>3

LEMMA Concat3 ==
  ASSUME NEW S, NEW a, NEW b, NEW c
  PROVE  a \in Seq(S) /\ b \in Seq(S) /\ c \in Seq(S) =>
           a \o b \o c \in Seq(S) /\ Len(a \o b \o c) = Len(a) + Len(b) + Len(c)
<1>1. a \in Seq(S) /\ b \in Seq(S) => a \o b \in Seq(S) /\ Len(a \o b) = Len(a) + Len(b)
  BY ConcatProperties
<1> DEFINE ab == a \o b
<1> HIDE DEF ab
<1>2. ab \in Seq(S) /\ c \in Seq(S) => ab \o c \in Seq(S) /\ Len(ab \o c) = Len(ab) + Len(c)
  BY ConcatProperties
<1> QED
  BY <1>1, <1>2 DEF ab

\* Five sequences, said in one atom for the prover to instantiate Concat5 with.
AreSeqs(S, a, b, c, d, e) ==
  a \in Seq(S) /\ b \in Seq(S) /\ c \in Seq(S) /\ d \in Seq(S) /\ e \in Seq(S)

LEMMA Concat3Regrouped ==
  ASSUME NEW S, NEW a, NEW b, NEW c, AreSeqs(S, a, b, c, c, c)
  PROVE  (a \o b) \o c = a \o (b \o c)
  BY ConcatAssociative DEF AreSeqs

\* What the left and right lists of a rebalancing hold, put together.
LEMMA Concat5 ==
  ASSUME NEW S, NEW a, NEW b, NEW c, NEW d, NEW e, AreSeqs(S, a, b, c, d, e)
  PROVE  (a \o b \o c) \o d \o e = a \o b \o (c \o d \o e)
<1>1. a \in Seq(S) /\ b \in Seq(S) => a \o b \in Seq(S)
  BY ConcatProperties
<1>2. c \in Seq(S) /\ d \in Seq(S) => c \o d \in Seq(S)
  BY ConcatProperties
<1> DEFINE ab == a \o b
           cd == c \o d
<1> HIDE DEF ab, cd
<1>3. ab \in Seq(S) /\ c \in Seq(S) /\ d \in Seq(S) => (ab \o c) \o d = ab \o (c \o d)
  BY ConcatAssociative, SMTT(30)
<1>4. ab \in Seq(S) /\ cd \in Seq(S) /\ e \in Seq(S) => (ab \o cd) \o e = ab \o (cd \o e)
  BY ConcatAssociative, SMTT(30)
<1> QED
  BY <1>1, <1>2, <1>3, <1>4 DEF AreSeqs, ab, cd

\* Two sequences, a value between them and a place in one, likewise in one atom.
ArePair(S, q, d, s, k, places) ==
  q \in Seq(S) /\ d \in S /\ s \in Seq(S) /\ k \in places

\* left, e and right hold what q, d and s hold, n of it in left.
Shifted(S, q, d, s, left, e, right, n) ==
  /\ left \in Seq(S) /\ Len(left) = n
  /\ right \in Seq(S) /\ Len(right) = Len(q) + Len(s) - n
  /\ e \in S
  /\ left \o <<e>> \o right = q \o <<d>> \o s

\* k values go from s to q, d coming down before them and s[k] going up.
LEMMA ValuesGoLeft ==
  ASSUME NEW S, NEW q, NEW s, NEW d, NEW k, ArePair(S, q, d, s, k, 1..Len(s))
  PROVE  Shifted(S, q, d, s, q \o <<d>> \o SubSeq(s, 1, k - 1), s[k], SubSeq(s, k + 1, Len(s)),
                 Len(q) + k)
<1> DEFINE moved == SubSeq(s, 1, k - 1)
           right == SubSeq(s, k + 1, Len(s))
           down == <<d>>
           up == <<s[k]>>
<1>0. q \in Seq(S) /\ s \in Seq(S) /\ d \in S /\ k \in 1..Len(s)
  BY DEF ArePair
<1>1. Len(s) \in Nat /\ Len(q) \in Nat /\ k - 1 \in 0..Len(s) /\ k \in 0..Len(s) /\ s[k] \in S
  BY <1>0, LenProperties, ElementOfSeq
<1>2. moved \in Seq(S) /\ Len(moved) = k - 1
  BY <1>0, <1>1, Prefix
<1>3. right \in Seq(S) /\ Len(right) = Len(s) - k
  BY <1>0, <1>1, Suffix
<1>4. down \in Seq(S) /\ Len(down) = 1
  BY <1>0
<1>5. up \in Seq(S)
  BY <1>1
<1>6. moved \o up \o right = s
  BY <1>0, CutAt
<1> HIDE DEF moved, right, down, up
<1>7. q \o down \o moved \in Seq(S) /\ Len(q \o down \o moved) = Len(q) + Len(down) + Len(moved)
  <2>1. q \in Seq(S) /\ down \in Seq(S) /\ moved \in Seq(S) =>
          q \o down \o moved \in Seq(S) /\ Len(q \o down \o moved) = Len(q) + Len(down) + Len(moved)
    BY Concat3
  <2> QED
    BY <1>0, <1>2, <1>4, <2>1
<1>8. (q \o down \o moved) \o up \o right = q \o down \o (moved \o up \o right)
  <2>1. AreSeqs(S, q, down, moved, up, right)
    BY <1>0, <1>2, <1>3, <1>4, <1>5 DEF AreSeqs
  <2> QED
    BY <2>1, Concat5, SMTT(60)
<1>9. Len(q \o down \o moved) = Len(q) + k /\ Len(right) = Len(q) + Len(s) - (Len(q) + k)
  <2>1. \A a, b, i \in Int : a + 1 + (i - 1) = a + i /\ b - i = a + b - (a + i)
    OBVIOUS
  <2>2. Len(q) \in Int /\ Len(s) \in Int /\ k \in Int
    BY <1>0, <1>1
  <2>3. Len(q) + 1 + (k - 1) = Len(q) + k /\ Len(s) - k = Len(q) + Len(s) - (Len(q) + k)
    BY <2>1, <2>2, Zenon
  <2>4. Len(q \o down \o moved) = Len(q) + 1 + (k - 1)
    BY <1>2, <1>4, <1>7, Zenon
  <2> QED
    BY <1>3, <2>3, <2>4, Zenon
<1> DEFINE left == q \o down \o moved
<1>10. left \in Seq(S) /\ right \in Seq(S) /\ s[k] \in S /\ left \o up \o right = q \o down \o s
  BY <1>1, <1>3, <1>6, <1>7, <1>8
<1>11. Len(left) = Len(q) + k /\ Len(right) = Len(q) + Len(s) - (Len(q) + k)
  BY <1>9
<1> HIDE DEF left
<1>12. Shifted(S, q, d, s, left, s[k], right, Len(q) + k)
  BY <1>10, <1>11 DEF Shifted, up, down
<1> QED
  BY <1>12 DEF left, moved, right, down

\* The last n - k of n values go from q to s, d coming down after them and
\* q[k + 1] going up.
LEMMA ValuesGoRight ==
  ASSUME NEW S, NEW q, NEW s, NEW d, NEW k, ArePair(S, q, d, s, k, 0..Len(q) - 1)
  PROVE  Shifted(S, q, d, s, SubSeq(q, 1, k), q[k + 1], SubSeq(q, k + 2, Len(q)) \o <<d>> \o s, k)
<1> DEFINE left == SubSeq(q, 1, k)
           moved == SubSeq(q, (k + 1) + 1, Len(q))
           down == <<d>>
           up == <<q[k + 1]>>
<1>0. q \in Seq(S) /\ s \in Seq(S) /\ d \in S /\ k \in 0..Len(q) - 1
  BY DEF ArePair
<1>1. /\ Len(s) \in Nat /\ Len(q) \in Nat /\ k \in 0..Len(q) /\ k + 1 \in 0..Len(q)
      /\ k + 1 \in 1..Len(q) /\ q[k + 1] \in S /\ (k + 1) + 1 = k + 2 /\ (k + 1) - 1 = k
  BY <1>0, LenProperties, ElementOfSeq
<1>2. left \in Seq(S) /\ Len(left) = k
  BY <1>0, <1>1, Prefix
<1>3. moved \in Seq(S) /\ Len(moved) = Len(q) - (k + 1)
  BY <1>0, <1>1, Suffix
<1>4. down \in Seq(S) /\ Len(down) = 1
  BY <1>0
<1>5. up \in Seq(S)
  BY <1>1
<1>6. left \o up \o moved = q
  BY <1>0, <1>1, CutAt
<1>10. moved = SubSeq(q, k + 2, Len(q))
  BY <1>1
<1> HIDE DEF left, moved, down, up
<1>7. moved \o down \o s \in Seq(S) /\ Len(moved \o down \o s) = Len(moved) + Len(down) + Len(s)
  <2>1. moved \in Seq(S) /\ down \in Seq(S) /\ s \in Seq(S) =>
          moved \o down \o s \in Seq(S) /\ Len(moved \o down \o s) = Len(moved) + Len(down) + Len(s)
    BY Concat3
  <2> QED
    BY <1>0, <1>3, <1>4, <2>1
<1>8. left \o up \o (moved \o down \o s) = (left \o up \o moved) \o down \o s
  <2>1. AreSeqs(S, left, up, moved, down, s)
    BY <1>0, <1>2, <1>3, <1>4, <1>5 DEF AreSeqs
  <2> QED
    BY <2>1, Concat5, SMTT(60)
<1> DEFINE right == moved \o down \o s
<1>9. Len(right) = Len(q) + Len(s) - k
  BY <1>0, <1>1, <1>3, <1>4, <1>7
<1>11. right \in Seq(S) /\ left \o up \o right = q \o down \o s
  BY <1>6, <1>7, <1>8
<1> HIDE DEF right
<1>12. Shifted(S, q, d, s, left, q[k + 1], right, k)
  BY <1>1, <1>2, <1>9, <1>11 DEF Shifted, up, down
<1> QED
  BY <1>10, <1>12 DEF left, right, down

\* The same of the children, which have no delimiter between them.
LEMMA CutConcat ==
  ASSUME NEW S, NEW q \in Seq(S), NEW s \in Seq(S)
  PROVE  /\ \A k \in 0..Len(s) : (q \o SubSeq(s, 1, k)) \o SubSeq(s, k + 1, Len(s)) = q \o s
         /\ \A k \in 0..Len(q) : SubSeq(q, 1, k) \o (SubSeq(q, k + 1, Len(q)) \o s) = q \o s
<1>1. ASSUME NEW k \in 0..Len(s)
      PROVE  (q \o SubSeq(s, 1, k)) \o SubSeq(s, k + 1, Len(s)) = q \o s
  <2> DEFINE a == SubSeq(s, 1, k)
             b == SubSeq(s, k + 1, Len(s))
  <2>1. a \in Seq(S) /\ b \in Seq(S) /\ a \o b = s
    BY Prefix, Suffix, CutAfter
  <2> HIDE DEF a, b
  <2>2. (q \o a) \o b = q \o (a \o b)
    <3>1. AreSeqs(S, q, a, b, b, b)
      BY <2>1 DEF AreSeqs
    <3> QED
      BY <3>1, Concat3Regrouped
  <2> QED
    BY <2>1, <2>2 DEF a, b
<1>2. ASSUME NEW k \in 0..Len(q)
      PROVE  SubSeq(q, 1, k) \o (SubSeq(q, k + 1, Len(q)) \o s) = q \o s
  <2> DEFINE a == SubSeq(q, 1, k)
             b == SubSeq(q, k + 1, Len(q))
  <2>1. a \in Seq(S) /\ b \in Seq(S) /\ a \o b = q
    BY Prefix, Suffix, CutAfter
  <2> HIDE DEF a, b
  <2>2. (a \o b) \o s = a \o (b \o s)
    <3>1. AreSeqs(S, a, b, s, s, s)
      BY <2>1 DEF AreSeqs
    <3> QED
      BY <3>1, Concat3Regrouped
  <2> QED
    BY <2>1, <2>2 DEF a, b
<1> QED
  BY <1>1, <1>2

LEMMA RemoveAtProperties ==
  ASSUME NEW S, NEW s \in Seq(S), NEW i \in 1..Len(s)
  PROVE  /\ RemoveAt(s, i) \in Seq(S) /\ Len(RemoveAt(s, i)) = Len(s) - 1
         /\ \A j \in 1..Len(s) - 1 : RemoveAt(s, i)[j] = IF j < i THEN s[j] ELSE s[j + 1]
<1> DEFINE a == SubSeq(s, 1, i - 1)
           b == SubSeq(s, i + 1, Len(s))
<1>1. Len(s) \in Nat /\ i - 1 \in 0..Len(s) /\ i \in 0..Len(s)
  BY LenProperties
<1>2. a \in Seq(S) /\ Len(a) = i - 1 /\ \A j \in 1..i - 1 : a[j] = s[j]
  BY <1>1, Prefix
<1>3. b \in Seq(S) /\ Len(b) = Len(s) - i /\ \A j \in 1..Len(s) - i : b[j] = s[i + j]
  BY <1>1, Suffix
<1> HIDE DEF a, b
<1>4. /\ a \o b \in Seq(S) /\ Len(a \o b) = Len(a) + Len(b)
      /\ \A j \in 1..Len(a) + Len(b) : (a \o b)[j] = IF j <= Len(a) THEN a[j] ELSE b[j - Len(a)]
  BY <1>2, <1>3, ConcatProperties
<1> DEFINE ab == a \o b
<1> HIDE DEF ab
<1>5. ASSUME NEW j \in 1..Len(s) - 1
      PROVE  ab[j] = IF j < i THEN s[j] ELSE s[j + 1]
  <2>1. j \in 1..Len(a) + Len(b)
    BY <1>1, <1>2, <1>3
  <2>2. CASE j < i
    BY <1>1, <1>2, <1>4, <2>1, <2>2 DEF ab
  <2>3. CASE ~(j < i)
    <3>1. j - (i - 1) \in 1..Len(s) - i /\ i + (j - (i - 1)) = j + 1
      BY <1>1, <2>3
    <3>2. b[j - (i - 1)] = s[j + 1]
      BY <1>3, <3>1
    <3> QED
      BY <1>1, <1>2, <1>4, <2>1, <2>3, <3>2 DEF ab
  <2> QED
    BY <2>2, <2>3
<1>6. ab \in Seq(S) /\ Len(ab) = Len(s) - 1
  BY <1>1, <1>2, <1>3, <1>4 DEF ab
<1> QED
  BY <1>5, <1>6 DEF RemoveAt, ab, a, b

\* x has a place in s at i, in one atom.
HasPlace(S, s, i, x) == s \in Seq(S) /\ i \in 1..Len(s) + 1 /\ x \in S

LEMMA InsertAtProperties ==
  ASSUME NEW S, NEW s, NEW x, NEW i, HasPlace(S, s, i, x)
  PROVE  /\ InsertAt(s, i, x) \in Seq(S) /\ Len(InsertAt(s, i, x)) = Len(s) + 1
         /\ \A j \in 1..Len(s) + 1 :
              InsertAt(s, i, x)[j] = IF j < i THEN s[j] ELSE IF j = i THEN x ELSE s[j - 1]
<1> DEFINE a == SubSeq(s, 1, i - 1)
           b == SubSeq(s, (i - 1) + 1, Len(s))
           c == <<x>>
<1>a. s \in Seq(S) /\ i \in 1..Len(s) + 1 /\ x \in S
  BY DEF HasPlace
<1>1. Len(s) \in Nat /\ i - 1 \in 0..Len(s) /\ (i - 1) + 1 = i
  BY <1>a, LenProperties
<1>2. a \in Seq(S) /\ Len(a) = i - 1 /\ \A j \in 1..i - 1 : a[j] = s[j]
  BY <1>a, <1>1, Prefix
<1>3. b \in Seq(S) /\ Len(b) = Len(s) - (i - 1) /\ \A j \in 1..Len(s) - (i - 1) : b[j] = s[(i - 1) + j]
  BY <1>a, <1>1, Suffix
<1>4. c \in Seq(S) /\ Len(c) = 1 /\ c[1] = x
  BY <1>a
<1>0. InsertAt(s, i, x) = a \o c \o b
  BY <1>1 DEF InsertAt
<1> HIDE DEF a, b, c
<1> DEFINE ac == a \o c
<1>5. ac \in Seq(S) /\ Len(ac) = i /\ \A j \in 1..i : ac[j] = IF j < i THEN s[j] ELSE x
  <2>1. /\ ac \in Seq(S) /\ Len(ac) = Len(a) + Len(c)
        /\ \A j \in 1..Len(a) + Len(c) : ac[j] = IF j <= Len(a) THEN a[j] ELSE c[j - Len(a)]
    BY <1>2, <1>4, ConcatProperties
  <2> HIDE DEF ac
  <2> QED
    BY <1>a, <1>1, <1>2, <1>4, <2>1
<1> HIDE DEF ac
<1> DEFINE abc == ac \o b
<1>6. /\ abc \in Seq(S) /\ Len(abc) = Len(ac) + Len(b)
      /\ \A j \in 1..Len(ac) + Len(b) : abc[j] = IF j <= Len(ac) THEN ac[j] ELSE b[j - Len(ac)]
  BY <1>3, <1>5, ConcatProperties, ZenonT(30)
<1> HIDE DEF abc
<1>7. ASSUME NEW j \in 1..Len(s) + 1
      PROVE  abc[j] = IF j < i THEN s[j] ELSE IF j = i THEN x ELSE s[j - 1]
  <2>1. j \in 1..Len(ac) + Len(b)
    BY <1>a, <1>1, <1>3, <1>5
  <2>2. CASE j <= i
    BY <1>a, <1>1, <1>5, <1>6, <2>1, <2>2
  <2>3. CASE j > i
    <3>1. j - i \in 1..Len(s) - (i - 1) /\ (i - 1) + (j - i) = j - 1
      BY <1>a, <1>1, <2>3
    <3>2. b[j - i] = s[j - 1]
      BY <1>3, <3>1
    <3> QED
      BY <1>a, <1>1, <1>5, <1>6, <2>1, <2>3, <3>2
  <2> QED
    BY <1>a, <1>1, <2>2, <2>3
<1>8. Len(abc) = Len(s) + 1
  BY <1>a, <1>1, <1>3, <1>5, <1>6, SMTT(30)
<1> QED
  BY <1>0, <1>6, <1>7, <1>8 DEF abc, ac

-------------------------------------------------------------------------------
\* Fields.

LEMMA NodeFields ==
  ASSUME NEW t, Tree(t), NEW m \in DOMAIN t.node
  PROVE  /\ Values(t, m) \in Seq(Entry) /\ Children(t, m) \in Seq(Nat)
         /\ Position(t, m) \in Nat /\ Parent(t, m) \in Nat /\ MaxCount(t, m) \in Nat
         /\ NodeCount(t, m) \in Nat /\ m \in Nat
<1>1. t.node[m] \in Node /\ m \in Nat
  BY DEF Tree
<1>2. Values(t, m) \in Seq(Entry) /\ Children(t, m) \in Seq(Nat)
  BY <1>1 DEF Node, Values, Children
<1>3. Position(t, m) \in Nat /\ Parent(t, m) \in Nat /\ MaxCount(t, m) \in Nat
  BY <1>1 DEF Node, Position, Parent, MaxCount
<1> QED
  BY <1>1, <1>2, <1>3, LenProperties DEF NodeCount

\* u is t after n took kids as its children from index first on.
Adopted(t, u, n, first, kids) ==
  /\ Tree(u) /\ SameFrame(t, u) /\ u.asserts = t.asserts
  /\ \A m \in DOMAIN t.node : Values(u, m) = Values(t, m)
  /\ \A m \in DOMAIN t.node : m # n => Children(u, m) = Children(t, m)
  /\ Children(u, n) = SubSeq(Children(t, n), 1, first) \o kids
  /\ \A j \in 1..Len(kids) : Parent(u, kids[j]) = n /\ Position(u, kids[j]) = first + j - 1
  /\ \A m \in DOMAIN t.node : ~Contains(kids, m) =>
       Parent(u, m) = Parent(t, m) /\ Position(u, m) = Position(t, m)

LEMMA SetChildrenAdopts ==
  ASSUME NEW t, Tree(t), NEW n \in DOMAIN t.node, NEW kids \in Seq(DOMAIN t.node),
         Distinct(kids), NEW first \in 0..Len(Children(t, n))
  PROVE  Adopted(t, SetChildren(t, n, first, kids), n, first, kids)
<1> DEFINE u == SetChildren(t, n, first, kids)
           old(m) == IF m = n
                     THEN [t.node[m] EXCEPT !.children = SubSeq(t.node[m].children, 1, first) \o kids]
                     ELSE t.node[m]
           new(m) == IF ~Contains(kids, m) THEN old(m)
                     ELSE [old(m) EXCEPT !.parent = n,
                             !.position = first + IndexIn(kids, m) - 1]
<1>1. u = [t EXCEPT !.node = [m \in DOMAIN t.node |-> new(m)]]
  BY DEF SetChildren
<1>2. kids \in Seq(Nat)
  BY SeqMonotonic DEF Tree
<1>3. \A m \in DOMAIN t.node : t.node[m] \in Node
  BY DEF Tree
<1>4. SubSeq(Children(t, n), 1, first) \o kids \in Seq(Nat)
  <2>1. Children(t, n) \in Seq(Nat)
    BY NodeFields
  <2>2. \A i \in 1..first : Children(t, n)[i] \in Nat
    BY <2>1
  <2>3. SubSeq(Children(t, n), 1, first) \in Seq(Nat)
    BY <2>1, <2>2, SubSeqProperties
  <2> QED
    BY <1>2, <2>3, ConcatProperties
<1>5. ASSUME NEW m \in DOMAIN t.node
      PROVE  /\ old(m) \in Node
             /\ old(m).fields = t.node[m].fields /\ old(m).max_count = t.node[m].max_count
             /\ old(m).values = t.node[m].values
             /\ old(m).parent = t.node[m].parent /\ old(m).position = t.node[m].position
             /\ old(m).children = IF m = n THEN SubSeq(Children(t, n), 1, first) \o kids
                                  ELSE t.node[m].children
  BY <1>3, <1>4 DEF Node, Children
<1>6. ASSUME NEW j \in 1..Len(kids)
      PROVE  IndexIn(kids, kids[j]) = j
  BY <1>2, IndexOfEach
<1>7. ASSUME NEW m \in DOMAIN t.node
      PROVE  /\ new(m) \in Node
             /\ new(m).fields = t.node[m].fields /\ new(m).max_count = t.node[m].max_count
             /\ new(m).values = t.node[m].values
             /\ ~Contains(kids, m) => new(m).parent = t.node[m].parent /\ new(m).position = t.node[m].position
             /\ \A j \in 1..Len(kids) : m = kids[j] => new(m).parent = n /\ new(m).position = first + j - 1
             /\ new(m).children = IF m = n THEN SubSeq(Children(t, n), 1, first) \o kids
                                  ELSE t.node[m].children
  <2> HIDE DEF old
  <2>1. CASE ~Contains(kids, m)
    BY <1>5, <2>1 DEF Contains
  <2>2. ASSUME NEW j \in 1..Len(kids), m = kids[j]
        PROVE  new(m) = [old(m) EXCEPT !.parent = n, !.position = first + j - 1]
    BY <1>6, <2>2 DEF Contains
  <2>3. CASE Contains(kids, m)
    <3>1. PICK j \in 1..Len(kids) : m = kids[j]
      BY <2>3 DEF Contains
    <3>2. new(m) = [old(m) EXCEPT !.parent = n, !.position = first + j - 1]
      BY <2>2, <3>1
    <3>3. \A i \in 1..Len(kids) : m = kids[i] => i = j
      BY <3>1 DEF Distinct
    <3>4. n \in Nat /\ first + j - 1 \in Nat
      BY <1>2, LenProperties, SMTT(30) DEF Tree
    <3> HIDE DEF new
    <3>6. old(m) \in Node
      BY <1>5
    <3>5. new(m) \in Node
      BY <3>2, <3>4, <3>6 DEF Node
    <3>7. /\ new(m).parent = n /\ new(m).position = first + j - 1
          /\ new(m).fields = old(m).fields /\ new(m).max_count = old(m).max_count
          /\ new(m).values = old(m).values /\ new(m).children = old(m).children
      BY <3>2, <3>6 DEF Node
    <3> QED
      BY <1>5, <2>3, <3>1, <3>3, <3>5, <3>7
  <2> QED
    BY <2>1, <2>3
<1> HIDE DEF old, new
<1>8. /\ u.node = [m \in DOMAIN t.node |-> new(m)]
      /\ u.root = t.root /\ u.rightmost = t.rightmost /\ u.size = t.size /\ u.asserts = t.asserts
      /\ u = [node |-> u.node, root |-> u.root, rightmost |-> u.rightmost, size |-> u.size,
              asserts |-> u.asserts]
  BY <1>1 DEF Tree
<1> HIDE DEF u
<1>9. Tree(u) /\ SameFrame(t, u)
  BY <1>7, <1>8 DEF Tree, SameFrame, MaxCount
<1>10. \A m \in DOMAIN t.node : Values(u, m) = Values(t, m)
  BY <1>7, <1>8 DEF Values
<1>11. \A m \in DOMAIN t.node :
         Children(u, m) = IF m = n THEN SubSeq(Children(t, n), 1, first) \o kids ELSE Children(t, m)
  BY <1>7, <1>8 DEF Children
<1>12. \A j \in 1..Len(kids) : Parent(u, kids[j]) = n /\ Position(u, kids[j]) = first + j - 1
  BY <1>7, <1>8 DEF Parent, Position
<1>13. \A m \in DOMAIN t.node : ~Contains(kids, m) =>
         Parent(u, m) = Parent(t, m) /\ Position(u, m) = Position(t, m)
  BY <1>7, <1>8 DEF Parent, Position
<1> QED
  BY <1>8, <1>9, <1>10, <1>11, <1>12, <1>13 DEF Adopted, u

\* u is t with other values in n.
Revalued(t, u, n, values) ==
  /\ Tree(u) /\ SameFrame(t, u) /\ u.asserts = t.asserts
  /\ \A m \in DOMAIN t.node : Values(u, m) = IF m = n THEN values ELSE Values(t, m)
  /\ \A m \in DOMAIN t.node :
       /\ Children(u, m) = Children(t, m)
       /\ Parent(u, m) = Parent(t, m) /\ Position(u, m) = Position(t, m)

LEMMA SetValuesRevalues ==
  ASSUME NEW t, Tree(t), NEW n \in DOMAIN t.node, NEW values \in Seq(Entry)
  PROVE  Revalued(t, SetValues(t, n, values), n, values)
<1> DEFINE u == SetValues(t, n, values)
           new == [t.node[n] EXCEPT !.values = values]
<1>1. /\ u.node = [t.node EXCEPT ![n] = new]
      /\ u.root = t.root /\ u.rightmost = t.rightmost /\ u.size = t.size /\ u.asserts = t.asserts
      /\ u = [node |-> u.node, root |-> u.root, rightmost |-> u.rightmost, size |-> u.size,
              asserts |-> u.asserts]
  <2>1. u = [t EXCEPT !.node = [t.node EXCEPT ![n] = new]]
    BY DEF SetValues
  <2> HIDE DEF u, new
  <2> QED
    BY <2>1 DEF Tree
<1>2. t.node \in [DOMAIN t.node -> Node] /\ t.node[n] \in Node
  BY DEF Tree
<1>3. /\ new \in Node
      /\ new.fields = t.node[n].fields /\ new.max_count = t.node[n].max_count
      /\ new.parent = t.node[n].parent /\ new.position = t.node[n].position
      /\ new.children = t.node[n].children /\ new.values = values
  BY <1>2 DEF Node
<1> HIDE DEF u, new
<1>4. /\ DOMAIN u.node = DOMAIN t.node
      /\ \A m \in DOMAIN t.node : u.node[m] = IF m = n THEN new ELSE t.node[m]
      /\ u.node \in [DOMAIN t.node -> Node]
  BY <1>1, <1>2, <1>3
<1>5. Tree(u) /\ SameFrame(t, u)
  BY <1>1, <1>3, <1>4 DEF Tree, SameFrame, MaxCount
<1>6. \A m \in DOMAIN t.node : Values(u, m) = IF m = n THEN values ELSE Values(t, m)
  BY <1>3, <1>4 DEF Values
<1>7. \A m \in DOMAIN t.node :
       /\ Children(u, m) = Children(t, m)
       /\ Parent(u, m) = Parent(t, m) /\ Position(u, m) = Position(t, m)
  BY <1>3, <1>4 DEF Children, Parent, Position
<1> QED
  BY <1>1, <1>5, <1>6, <1>7 DEF Revalued, u

LEMMA CheckPasses ==
  ASSUME NEW t, Tree(t), NEW condition, condition
  PROVE  Check(t, condition) = t
<1>1. Check(t, condition) = [t EXCEPT !.asserts = t.asserts /\ condition]
  BY DEF Check
<1>2. (t.asserts /\ condition) = t.asserts
  BY Zenon DEF Tree
<1> QED
  BY <1>1, <1>2 DEF Tree

\* The three values lists of a rebalancing, one after the other.
LEMMA SetAroundIsSetValues ==
  ASSUME NEW t, Tree(t), NEW l \in DOMAIN t.node, NEW r \in DOMAIN t.node, l # r,
         Parent(t, l) \in DOMAIN t.node, Parent(t, l) # l, Parent(t, l) # r,
         NEW lvalues \in Seq(Entry), NEW delimiter \in Entry, NEW rvalues \in Seq(Entry)
  PROVE  SetAround(t, l, r, lvalues, delimiter, rvalues)
           = SetValues(SetValues(SetValues(t, l, lvalues), r, rvalues), Parent(t, l),
               [Values(t, Parent(t, l)) EXCEPT ![Position(t, l) + 1] = delimiter])
<1> DEFINE above == Parent(t, l)
           at == Position(t, l) + 1
           t1 == SetValues(t, l, lvalues)
           t2 == SetValues(t1, r, rvalues)
<1>1. SetAround(t, l, r, lvalues, delimiter, rvalues) = [t2 EXCEPT !.node[above].values[at] = delimiter]
  BY DEF SetAround, SetValues
<1>2. Values(t2, above) = Values(t, above)
  <2>1. Revalued(t, t1, l, lvalues)
    BY SetValuesRevalues
  <2>2. Revalued(t1, t2, r, rvalues)
    BY <2>1, SetValuesRevalues DEF Revalued, SameFrame
  <2> HIDE DEF t1, t2, above
  <2> QED
    BY <2>1, <2>2 DEF Revalued, SameFrame, above
<1> HIDE DEF t1, t2, above, at
<1>3. [t2 EXCEPT !.node[above].values[at] = delimiter]
        = SetValues(t2, above, [Values(t2, above) EXCEPT ![at] = delimiter])
  BY DEF SetValues, Values
<1> QED
  BY <1>1, <1>2, <1>3 DEF t1, t2, above, at

-------------------------------------------------------------------------------
\* Links.

\* A sequence of numbers that are in S is one of S.
LEMMA SeqWithin ==
  ASSUME NEW q \in Seq(Nat), NEW S, \A i \in 1..Len(q) : q[i] \in S
  PROVE  q \in Seq(S)
<1>1. q \in [1..Len(q) -> S] /\ Len(q) \in Nat
  BY LenProperties
<1> QED
  BY <1>1, SeqDef

\* No node is the child of two, or twice the child of one.
LEMMA LinkedApart ==
  ASSUME NEW t, Tree(t), Linked(t), NEW n \in DOMAIN t.node
  PROVE  /\ Children(t, n) \in Seq(DOMAIN t.node)
         /\ Distinct(Children(t, n))
         /\ ~Contains(Children(t, n), t.root)
         /\ \A c : \A m \in DOMAIN t.node :
              Contains(Children(t, n), c) /\ Contains(Children(t, m), c) => m = n
<1>1. \A m \in DOMAIN t.node : Children(t, m) \in Seq(Nat) /\ Len(Children(t, m)) \in Nat
  BY NodeFields, LenProperties
<1>2. \A m \in DOMAIN t.node : \A i \in 1..Len(Children(t, m)) :
        /\ Children(t, m)[i] \in DOMAIN t.node /\ Children(t, m)[i] # t.root
        /\ Parent(t, Children(t, m)[i]) = m /\ Position(t, Children(t, m)[i]) = i - 1
  <2> SUFFICES ASSUME NEW m \in DOMAIN t.node, NEW i \in 1..Len(Children(t, m))
               PROVE  LET c == Children(t, m)[i]
                      IN c \in DOMAIN t.node /\ c # t.root /\ Parent(t, c) = m /\ Position(t, c) = i - 1
    OBVIOUS
  <2>1. Links(t, m)
    BY Zenon DEF Linked
  <2> QED
    BY <2>1, Zenon DEF Links
<1>3. Children(t, n) \in Seq(DOMAIN t.node)
  <2>1. Children(t, n) \in Seq(Nat)
    BY <1>1
  <2>2. \A i \in 1..Len(Children(t, n)) : Children(t, n)[i] \in DOMAIN t.node
    BY <1>2
  <2> QED
    BY <2>1, <2>2, SeqWithin
<1>4. Distinct(Children(t, n))
  <2> SUFFICES ASSUME NEW i \in 1..Len(Children(t, n)), NEW j \in 1..Len(Children(t, n)),
                      Children(t, n)[i] = Children(t, n)[j]
               PROVE  i = j
    BY Zenon DEF Distinct
  <2>1. Position(t, Children(t, n)[i]) = i - 1 /\ Position(t, Children(t, n)[i]) = j - 1
    BY <1>2, Zenon
  <2>2. i \in Int /\ j \in Int
    BY <1>1
  <2> QED
    BY <2>1, <2>2
<1>5. ~Contains(Children(t, n), t.root)
  BY <1>2 DEF Contains
<1>6. ASSUME NEW c, NEW m \in DOMAIN t.node, Contains(Children(t, n), c), Contains(Children(t, m), c)
      PROVE  m = n
  <2>1. Parent(t, c) = n
    BY <1>2, <1>6 DEF Contains
  <2>2. Parent(t, c) = m
    BY <1>2, <1>6 DEF Contains
  <2> QED
    BY <2>1, <2>2
<1> QED
  BY <1>3, <1>4, <1>5, <1>6

\* u is t with the children of x and y distributed over them in another way.
Rehung(t, u, x, y) ==
  /\ Tree(u) /\ Linked(u) /\ SameFrame(t, u) /\ u.asserts = t.asserts
  /\ \A m \in DOMAIN t.node : Values(u, m) = Values(t, m)
  /\ \A m \in DOMAIN t.node \ {x, y} : Children(u, m) = Children(t, m)
  /\ \A m \in DOMAIN t.node : ~Contains(Children(t, x), m) /\ ~Contains(Children(t, y), m) =>
       Parent(u, m) = Parent(t, m) /\ Position(u, m) = Position(t, m)

LEMMA ChildrenGoLeft ==
  ASSUME NEW t, Tree(t), Linked(t), NEW l \in DOMAIN t.node, NEW r \in DOMAIN t.node, l # r,
         NEW k \in 0..Len(Children(t, r))
  PROVE  LET some == SubSeq(Children(t, r), 1, k)
             rest == SubSeq(Children(t, r), k + 1, Len(Children(t, r)))
             u == SetChildren(SetChildren(t, l, Len(Children(t, l)), some), r, 0, rest)
         IN Rehung(t, u, l, r) /\ Children(u, l) = Children(t, l) \o some /\ Children(u, r) = rest
<1> DEFINE lk == Children(t, l)
           rk == Children(t, r)
           some == SubSeq(rk, 1, k)
           rest == SubSeq(rk, k + 1, Len(rk))
           t1 == SetChildren(t, l, Len(lk), some)
           u == SetChildren(t1, r, 0, rest)
<1>1. /\ lk \in Seq(DOMAIN t.node) /\ Distinct(lk) /\ Len(lk) \in Nat
      /\ rk \in Seq(DOMAIN t.node) /\ Distinct(rk) /\ Len(rk) \in Nat
  BY LinkedApart, LenProperties
<1>2. /\ some \in Seq(DOMAIN t.node) /\ Distinct(some)
      /\ Len(some) = k /\ \A j \in 1..k : some[j] = rk[j]
  BY <1>1, Prefix
<1>3. /\ rest \in Seq(DOMAIN t.node) /\ Distinct(rest)
      /\ Len(rest) = Len(rk) - k /\ \A j \in 1..Len(rk) - k : rest[j] = rk[k + j]
  BY <1>1, Suffix
<1> HIDE DEF some, rest
<1>4. Adopted(t, t1, l, Len(lk), some)
  BY <1>1, <1>2, SetChildrenAdopts
<1>5. Tree(t1) /\ DOMAIN t1.node = DOMAIN t.node /\ Children(t1, r) = rk
  BY <1>4 DEF Adopted, SameFrame
<1>6. Adopted(t1, u, r, 0, rest)
  BY <1>1, <1>3, <1>5, SetChildrenAdopts
<1> HIDE DEF t1, u
<1>7. Children(u, l) = lk \o some
  BY <1>1, <1>4, <1>5, <1>6, SubSeqFull DEF Adopted
<1>8. Children(u, r) = rest
  BY <1>1, <1>3, <1>5, <1>6, EmptyPart, ConcatEmptySeq DEF Adopted
<1> HIDE DEF lk, rk
<1>9. SameFrame(t, u) /\ Tree(u) /\ u.asserts = t.asserts
  BY <1>4, <1>6 DEF Adopted, SameFrame
<1>10. \A m \in DOMAIN t.node : Values(u, m) = Values(t, m)
  BY <1>4, <1>6 DEF Adopted, SameFrame
<1>11. \A m \in DOMAIN t.node \ {l, r} : Children(u, m) = Children(t, m)
  BY <1>4, <1>6 DEF Adopted, SameFrame
<1>12. \A j \in 1..Len(rest) : Parent(u, rest[j]) = r /\ Position(u, rest[j]) = j - 1
  BY <1>1, <1>3, <1>6 DEF Adopted
<1>13. \A j \in 1..Len(some) : ~Contains(rest, some[j])
  <2> SUFFICES ASSUME NEW j \in 1..Len(some), NEW i \in 1..Len(rest), rest[i] = some[j]
               PROVE  FALSE
    BY DEF Contains
  <2>1. j \in 1..Len(rk) /\ k + i \in 1..Len(rk) /\ rk[j] = rk[k + i]
    BY <1>2, <1>3
  <2> QED
    BY <1>1, <1>2, <2>1 DEF Distinct
<1>14. \A j \in 1..Len(some) : Parent(u, some[j]) = l /\ Position(u, some[j]) = Len(lk) + j - 1
  BY <1>2, <1>4, <1>5, <1>6, <1>13, ElementOfSeq DEF Adopted
<1>15. \A m \in DOMAIN t.node : ~Contains(some, m) /\ ~Contains(rest, m) =>
         Parent(u, m) = Parent(t, m) /\ Position(u, m) = Position(t, m)
  BY <1>4, <1>5, <1>6 DEF Adopted
<1>16. \A c : Contains(some, c) \/ Contains(rest, c) => Contains(rk, c)
  BY <1>1, <1>2, <1>3 DEF Contains
<1>17. ASSUME NEW n \in DOMAIN t.node PROVE Links(u, n)
  <2> SUFFICES ASSUME NEW i \in 1..Len(Children(u, n))
               PROVE  LET c == Children(u, n)[i]
                      IN c \in DOMAIN u.node /\ c # u.root /\ Parent(u, c) = n /\ Position(u, c) = i - 1
    BY DEF Links
  <2> DEFINE c == Children(u, n)[i]
  <2>0. DOMAIN u.node = DOMAIN t.node /\ u.root = t.root
    BY <1>9 DEF SameFrame
  <2>1. CASE n # r /\ (n = l => i <= Len(lk))
    <3>1. i \in 1..Len(Children(t, n)) /\ c = Children(t, n)[i]
      <4>1. CASE n = l
        BY <1>1, <1>2, <1>7, <2>1, <4>1, ConcatProperties DEF lk
      <4> QED
        BY <1>11, <2>1, <4>1
    <3>2. c \in DOMAIN t.node /\ c # t.root /\ Parent(t, c) = n /\ Position(t, c) = i - 1
      BY <3>1 DEF Linked, Links
    <3>3. Contains(Children(t, n), c)
      BY <3>1 DEF Contains
    <3>4. ~Contains(rk, c)
      BY <2>1, <3>3, LinkedApart DEF rk
    <3> QED
      BY <1>15, <1>16, <2>0, <3>2, <3>4
  <2>2. CASE n = l /\ i > Len(lk)
    <3>1. i - Len(lk) \in 1..Len(some) /\ c = some[i - Len(lk)]
      BY <1>1, <1>2, <1>7, <2>2, ConcatProperties
    <3>2. c \in DOMAIN t.node /\ c # t.root
      <4>1. i - Len(lk) \in 1..Len(rk) /\ c = rk[i - Len(lk)]
        BY <1>1, <1>2, <3>1 DEF rk
      <4> QED
        BY <4>1 DEF Linked, Links, rk
    <3> QED
      BY <1>1, <1>2, <1>14, <2>0, <2>2, <3>1, <3>2
  <2>3. CASE n = r
    <3>1. i \in 1..Len(rest) /\ c = rest[i]
      BY <1>8, <2>3
    <3>2. c \in DOMAIN t.node /\ c # t.root
      <4>1. k + i \in 1..Len(rk) /\ c = rk[k + i]
        BY <1>1, <1>3, <3>1
      <4> QED
        BY <4>1 DEF Linked, Links, rk
    <3> QED
      BY <1>12, <2>0, <2>3, <3>1, <3>2
  <2> QED
    BY <1>1, <2>1, <2>2, <2>3
<1>18. Linked(u)
  BY <1>9, <1>17 DEF Linked, SameFrame
<1> QED
  BY <1>7, <1>8, <1>9, <1>10, <1>11, <1>15, <1>16, <1>18 DEF Rehung, lk, rk, some, rest, t1, u

LEMMA ChildrenGoRight ==
  ASSUME NEW t, Tree(t), Linked(t), NEW l \in DOMAIN t.node, NEW r \in DOMAIN t.node, l # r,
         NEW k \in 0..Len(Children(t, l))
  PROVE  LET kept == SubSeq(Children(t, l), 1, k)
             rest == SubSeq(Children(t, l), k + 1, Len(Children(t, l)))
             u == DropChildren(SetChildren(t, r, 0, rest \o Children(t, r)), l, k)
         IN Rehung(t, u, l, r) /\ Children(u, l) = kept /\ Children(u, r) = rest \o Children(t, r)
<1> DEFINE lk == Children(t, l)
           rk == Children(t, r)
           kept == SubSeq(lk, 1, k)
           rest == SubSeq(lk, k + 1, Len(lk))
           kids == rest \o rk
           t1 == SetChildren(t, r, 0, kids)
           u == DropChildren(t1, l, k)
<1>1. /\ lk \in Seq(DOMAIN t.node) /\ Distinct(lk) /\ Len(lk) \in Nat /\ k \in 0..Len(lk)
      /\ rk \in Seq(DOMAIN t.node) /\ Distinct(rk) /\ Len(rk) \in Nat
      /\ lk \in Seq(Nat)
  BY LinkedApart, LenProperties, NodeFields
<1>2. /\ kept \in Seq(Nat)
      /\ Len(kept) = k /\ \A j \in 1..k : kept[j] = lk[j]
  BY <1>1, Prefix
<1>3. /\ rest \in Seq(DOMAIN t.node) /\ Distinct(rest)
      /\ Len(rest) = Len(lk) - k /\ \A j \in 1..Len(lk) - k : rest[j] = lk[k + j]
  BY <1>1, Suffix
<1>0. \A i \in 1..Len(lk), j \in 1..Len(rk) : lk[i] # rk[j]
  BY LinkedApart DEF Contains
<1> HIDE DEF kept, rest
<1>4. /\ kids \in Seq(DOMAIN t.node) /\ Len(kids) = Len(rest) + Len(rk)
      /\ \A j \in 1..Len(rest) + Len(rk) :
           kids[j] = IF j <= Len(rest) THEN rest[j] ELSE rk[j - Len(rest)]
  BY <1>1, <1>3, ConcatProperties
<1> HIDE DEF lk, rk, kids
<1>5. Distinct(kids)
  <2> SUFFICES ASSUME NEW i \in 1..Len(kids), NEW j \in 1..Len(kids), kids[i] = kids[j]
               PROVE  i = j
    BY DEF Distinct
  <2>1. CASE i <= Len(rest) /\ j <= Len(rest)
    BY <1>1, <1>3, <1>4, <2>1 DEF Distinct
  <2>2. CASE i > Len(rest) /\ j > Len(rest)
    <3>0. i \in 1..Len(rest) + Len(rk) /\ j \in 1..Len(rest) + Len(rk) /\ Len(rest) \in Nat
      BY <1>1, <1>3, <1>4
    <3>1. /\ i - Len(rest) \in 1..Len(rk) /\ j - Len(rest) \in 1..Len(rk)
          /\ kids[i] = rk[i - Len(rest)] /\ kids[j] = rk[j - Len(rest)]
      BY <1>1, <1>4, <2>2, <3>0, SMTT(30)
    <3>2. i - Len(rest) = j - Len(rest)
      BY <1>1, <3>1 DEF Distinct
    <3> QED
      BY <1>1, <1>3, <1>4, <3>2
  <2>3. ASSUME NEW a \in 1..Len(rest), NEW b \in 1..Len(rk)
        PROVE  rest[a] # rk[b]
    <3>1. k + a \in 1..Len(lk) /\ rest[a] = lk[k + a]
      BY <1>1, <1>3
    <3> QED
      BY <1>0, <3>1
  <2>4. CASE i <= Len(rest) /\ j > Len(rest)
    <3>1. i \in 1..Len(rest) /\ j - Len(rest) \in 1..Len(rk)
      BY <1>1, <1>3, <1>4, <2>4
    <3> QED
      BY <1>1, <1>3, <1>4, <2>3, <2>4, <3>1
  <2>5. CASE i > Len(rest) /\ j <= Len(rest)
    <3>1. j \in 1..Len(rest) /\ i - Len(rest) \in 1..Len(rk)
      BY <1>1, <1>3, <1>4, <2>5
    <3> QED
      BY <1>1, <1>3, <1>4, <2>3, <2>5, <3>1, SMTT(30)
  <2> QED
    BY <1>1, <1>3, <1>4, <2>1, <2>2, <2>4, <2>5, SMTT(30)
<1>6. Adopted(t, t1, r, 0, kids)
  BY <1>1, <1>4, <1>5, SetChildrenAdopts DEF rk
<1>7. Tree(t1) /\ DOMAIN t1.node = DOMAIN t.node /\ Children(t1, l) = lk
  BY <1>6 DEF Adopted, SameFrame, lk
<1>8. Adopted(t1, u, l, k, <<>>)
  <2>1. <<>> \in Seq(DOMAIN t1.node) /\ Distinct(<<>>)
    BY EmptySeq DEF Distinct
  <2> HIDE DEF t1
  <2> QED
    BY <1>1, <1>7, <2>1, SetChildrenAdopts DEF DropChildren
<1> HIDE DEF t1, u
<1>9. Children(u, l) = kept
  BY <1>1, <1>2, <1>7, <1>8, ConcatEmptySeq DEF Adopted, kept
<1>10. Children(u, r) = kids
  <2>1. Children(t1, r) = SubSeq(rk, 1, 0) \o kids
    BY <1>6 DEF Adopted, rk
  <2> QED
    BY <1>1, <1>4, <1>7, <1>8, <2>1, EmptyPart, ConcatEmptySeq, SMTT(30) DEF Adopted
<1>11. SameFrame(t, u) /\ Tree(u) /\ u.asserts = t.asserts
  BY <1>6, <1>8 DEF Adopted, SameFrame
<1>12. \A m \in DOMAIN t.node : Values(u, m) = Values(t, m)
  BY <1>6, <1>8 DEF Adopted, SameFrame
<1>13. \A m \in DOMAIN t.node \ {l, r} : Children(u, m) = Children(t, m)
  BY <1>6, <1>8 DEF Adopted, SameFrame
<1>14. \A m \in DOMAIN t.node : Parent(u, m) = Parent(t1, m) /\ Position(u, m) = Position(t1, m)
  BY <1>7, <1>8, EmptySeq DEF Adopted, Contains
<1>15. \A j \in 1..Len(kids) : Parent(u, kids[j]) = r /\ Position(u, kids[j]) = j - 1
  <2>1. \A j \in 1..Len(kids) : Parent(t1, kids[j]) = r /\ Position(t1, kids[j]) = 0 + j - 1
    BY <1>6 DEF Adopted
  <2> QED
    BY <1>1, <1>3, <1>4, <1>14, <2>1, ElementOfSeq, SMTT(30)
<1>16. \A m \in DOMAIN t.node : ~Contains(kids, m) =>
         Parent(u, m) = Parent(t, m) /\ Position(u, m) = Position(t, m)
  BY <1>6, <1>14 DEF Adopted
<1>17. ASSUME NEW c, Contains(kids, c) PROVE Contains(lk, c) \/ Contains(rk, c)
  <2>1. PICK j \in 1..Len(kids) : kids[j] = c
    BY <1>17 DEF Contains
  <2>2. CASE j <= Len(rest)
    <3>1. k + j \in 1..Len(lk) /\ lk[k + j] = c
      BY <1>1, <1>3, <1>4, <2>1, <2>2, SMTT(30)
    <3> QED
      BY <3>1 DEF Contains
  <2>3. CASE j > Len(rest)
    <3>1. j - Len(rest) \in 1..Len(rk) /\ rk[j - Len(rest)] = c
      BY <1>1, <1>3, <1>4, <2>1, <2>3, SMTT(30)
    <3> QED
      BY <3>1 DEF Contains
  <2> QED
    BY <1>1, <1>3, <1>4, <2>2, <2>3
<1>18. ASSUME NEW n \in DOMAIN t.node PROVE Links(u, n)
  <2> SUFFICES ASSUME NEW i \in 1..Len(Children(u, n))
               PROVE  LET c == Children(u, n)[i]
                      IN c \in DOMAIN u.node /\ c # u.root /\ Parent(u, c) = n /\ Position(u, c) = i - 1
    BY DEF Links
  <2> DEFINE c == Children(u, n)[i]
  <2>0. DOMAIN u.node = DOMAIN t.node /\ u.root = t.root
    BY <1>11 DEF SameFrame
  <2>1. CASE n # r
    <3>1. i \in 1..Len(Children(t, n)) /\ c = Children(t, n)[i]
      <4>1. CASE n = l
        BY <1>1, <1>2, <1>9, <2>1, <4>1 DEF lk
      <4> QED
        BY <1>13, <2>1, <4>1
    <3>2. c \in DOMAIN t.node /\ c # t.root /\ Parent(t, c) = n /\ Position(t, c) = i - 1
      BY <3>1 DEF Linked, Links
    <3>3. ~Contains(kids, c)
      <4>1. ~Contains(rk, c)
        BY <2>1, <3>1, LinkedApart DEF rk, Contains
      <4>2. ~Contains(rest, c)
        <5> SUFFICES ASSUME NEW j \in 1..Len(rest), rest[j] = c
                     PROVE  FALSE
          BY DEF Contains
        <5>1. k + j \in 1..Len(lk) /\ lk[k + j] = c
          BY <1>1, <1>3
        <5>2. n = l
          BY <3>1, <5>1, LinkedApart DEF lk, Contains
        <5>3. i \in 1..k /\ lk[i] = c
          BY <1>2, <1>9, <5>2
        <5>4. i = k + j
          BY <1>1, <5>1, <5>3 DEF Distinct
        <5> QED
          BY <1>1, <1>3, <5>3, <5>4
      <4> QED
        <5> SUFFICES ASSUME NEW j \in 1..Len(kids), kids[j] = c
                     PROVE  FALSE
          BY DEF Contains
        <5>1. CASE j <= Len(rest)
          BY <1>1, <1>3, <1>4, <4>2, <5>1 DEF Contains
        <5>2. CASE j > Len(rest)
          <6>1. j - Len(rest) \in 1..Len(rk) /\ rk[j - Len(rest)] = c
            BY <1>1, <1>3, <1>4, <5>2, SMTT(30)
          <6> QED
            BY <4>1, <6>1 DEF Contains
        <5> QED
          BY <1>1, <1>3, <1>4, <5>1, <5>2
    <3> QED
      BY <1>16, <2>0, <3>2, <3>3
  <2>2. CASE n = r
    <3>1. i \in 1..Len(kids) /\ c = kids[i]
      BY <1>10, <2>2
    <3>2. Contains(lk, c) \/ Contains(rk, c)
      BY <1>17, <3>1 DEF Contains
    <3>3. c \in DOMAIN t.node /\ c # t.root
      BY <3>2 DEF Linked, Links, lk, rk, Contains
    <3> QED
      BY <1>15, <2>0, <2>2, <3>1, <3>3
  <2> QED
    BY <2>1, <2>2
<1>19. Linked(u)
  BY <1>11, <1>18 DEF Linked, SameFrame
<1>20. \A m \in DOMAIN t.node : ~Contains(lk, m) /\ ~Contains(rk, m) =>
         Parent(u, m) = Parent(t, m) /\ Position(u, m) = Position(t, m)
  BY <1>16, <1>17
<1> QED
  BY <1>9, <1>10, <1>11, <1>12, <1>13, <1>19, <1>20 DEF Rehung, lk, rk, kept, rest, kids, t1, u

-------------------------------------------------------------------------------
\* Rebalancing.

LEMMA NeighboursApart ==
  ASSUME NEW t, Tree(t), Linked(t), NEW l, NEW r, Neighbours(t, l, r)
  PROVE  LET above == Parent(t, l)
             at == Position(t, l)
         IN /\ l \in DOMAIN t.node /\ r \in DOMAIN t.node /\ above \in DOMAIN t.node
            /\ l # r /\ above # l /\ above # r
            /\ Parent(t, r) = above /\ Position(t, r) = at + 1
            /\ ~Leaf(t, above) /\ Len(Children(t, above)) = NodeCount(t, above) + 1
            /\ at \in Nat /\ at + 1 \in 1..NodeCount(t, above)
            /\ Children(t, above)[at + 1] = l /\ Children(t, above)[at + 2] = r
            /\ Delimiter(t, l) \in Entry
            /\ \A m \in {l, r} :
                 m # t.root /\ ~Contains(Children(t, l), m) /\ ~Contains(Children(t, r), m)
<1> DEFINE above == Parent(t, l)
           at == Position(t, l)
<1>1. /\ l \in DOMAIN t.node /\ r \in DOMAIN t.node /\ above \in DOMAIN t.node
      /\ above # l /\ above # r /\ Parent(t, r) = above /\ Position(t, r) = at + 1
      /\ ChildPerGap(t, above)
  BY DEF Neighbours, IsChild, Siblings
<1>2. at \in Nat /\ NodeCount(t, above) \in Nat /\ Values(t, above) \in Seq(Entry)
  BY <1>1, NodeFields
<1>3. /\ at + 1 < Len(Children(t, above))
      /\ Children(t, above)[at + 1] = l /\ Children(t, above)[(at + 1) + 1] = r
  BY <1>1 DEF Neighbours, IsChild, Child
<1>4. Len(Children(t, above)) \in Nat
  BY <1>1, NodeFields, LenProperties
<1>5. ~Leaf(t, above) /\ Len(Children(t, above)) = NodeCount(t, above) + 1
  BY <1>1, <1>2, <1>3, <1>4 DEF ChildPerGap
<1>6. at + 1 \in 1..NodeCount(t, above) /\ Delimiter(t, l) \in Entry
  BY <1>2, <1>3, <1>5, ElementOfSeq DEF Delimiter, NodeCount
<1>7. at + 2 = (at + 1) + 1 /\ l # r
  BY <1>1, <1>2
<1>8. Contains(Children(t, above), l) /\ Contains(Children(t, above), r)
  BY <1>2, <1>3, <1>4 DEF Contains
<1> HIDE DEF above, at
<1>9. \A m \in {l, r} : m # t.root /\ ~Contains(Children(t, l), m) /\ ~Contains(Children(t, r), m)
  BY <1>1, <1>8, LinkedApart
<1> QED
  BY <1>1, <1>2, <1>3, <1>5, <1>6, <1>7, <1>9 DEF above, at

LEMMA RevaluedLinked ==
  ASSUME NEW t, NEW u, NEW n, NEW values, Revalued(t, u, n, values), Linked(t)
  PROVE  Linked(u)
<1> SUFFICES ASSUME NEW m \in DOMAIN t.node, NEW i \in 1..Len(Children(u, m))
             PROVE  LET c == Children(u, m)[i]
                    IN c \in DOMAIN u.node /\ c # u.root /\ Parent(u, c) = m /\ Position(u, c) = i - 1
  BY DEF Linked, Links, Revalued, SameFrame
<1>1. Children(u, m) = Children(t, m)
  BY DEF Revalued
<1> QED
  BY <1>1 DEF Linked, Links, Revalued, SameFrame

LEMMA SetAroundSets ==
  ASSUME NEW t, Tree(t), Linked(t), NEW l, NEW r, Neighbours(t, l, r),
         NEW lvalues \in Seq(Entry), NEW delimiter \in Entry, NEW rvalues \in Seq(Entry)
  PROVE  LET u == SetAround(t, l, r, lvalues, delimiter, rvalues)
             above == Parent(t, l)
         IN /\ Tree(u) /\ Linked(u) /\ SameFrame(t, u) /\ u.asserts = t.asserts
            /\ Values(u, l) = lvalues /\ Values(u, r) = rvalues
            /\ Values(u, above) = [Values(t, above) EXCEPT ![Position(t, l) + 1] = delimiter]
            /\ \A m \in DOMAIN t.node \ {l, r, above} : Values(u, m) = Values(t, m)
            /\ \A m \in DOMAIN t.node :
                 /\ Children(u, m) = Children(t, m)
                 /\ Parent(u, m) = Parent(t, m) /\ Position(u, m) = Position(t, m)
<1> DEFINE above == Parent(t, l)
           vs == [Values(t, above) EXCEPT ![Position(t, l) + 1] = delimiter]
           t1 == SetValues(t, l, lvalues)
           t2 == SetValues(t1, r, rvalues)
           u == SetValues(t2, above, vs)
<1>1. /\ l \in DOMAIN t.node /\ r \in DOMAIN t.node /\ above \in DOMAIN t.node
      /\ l # r /\ above # l /\ above # r /\ Position(t, l) + 1 \in 1..Len(Values(t, above))
  BY NeighboursApart DEF NodeCount
<1>2. vs \in Seq(Entry)
  BY <1>1, NodeFields, ExceptSeq
<1>3. SetAround(t, l, r, lvalues, delimiter, rvalues) = u
  BY <1>1, SetAroundIsSetValues
<1> HIDE DEF above, vs
<1>4. Revalued(t, t1, l, lvalues)
  BY <1>1, SetValuesRevalues
<1>5. Revalued(t1, t2, r, rvalues)
  BY <1>1, <1>4, SetValuesRevalues DEF Revalued, SameFrame
<1>6. Revalued(t2, u, above, vs)
  <2> HIDE DEF t1, t2
  <2> QED
    BY <1>1, <1>2, <1>4, <1>5, SetValuesRevalues DEF Revalued, SameFrame
<1> HIDE DEF t1, t2, u
<1>7. Linked(u)
  BY <1>4, <1>5, <1>6, RevaluedLinked
<1>8. SameFrame(t, u) /\ Tree(u) /\ u.asserts = t.asserts
  BY <1>4, <1>5, <1>6 DEF Revalued, SameFrame
<1>9. \A m \in DOMAIN t.node :
        /\ Values(u, m) = IF m = above THEN vs ELSE IF m = r THEN rvalues
                          ELSE IF m = l THEN lvalues ELSE Values(t, m)
        /\ Children(u, m) = Children(t, m)
        /\ Parent(u, m) = Parent(t, m) /\ Position(u, m) = Position(t, m)
  BY <1>4, <1>5, <1>6 DEF Revalued, SameFrame
<1> QED
  BY <1>1, <1>3, <1>7, <1>8, <1>9 DEF above, vs

\* What both directions come to.
LEMMA RebalancesWhen ==
  ASSUME NEW t, Tree(t), Linked(t), NEW l, NEW r, Neighbours(t, l, r),
         NEW lvalues \in Seq(Entry), NEW delimiter \in Entry, NEW rvalues \in Seq(Entry),
         lvalues \o <<delimiter>> \o rvalues = Around(t, l, r),
         NEW u, Rehung(SetAround(t, l, r, lvalues, delimiter, rvalues), u, l, r),
         Len(Children(u, l)) = IF Leaf(t, l) THEN 0 ELSE Len(lvalues) + 1,
         Len(Children(u, r)) = IF Leaf(t, r) THEN 0 ELSE Len(rvalues) + 1,
         Children(u, l) \o Children(u, r) = Children(t, l) \o Children(t, r),
         NEW k \in Int, Len(lvalues) = NodeCount(t, l) + k
  PROVE  Rebalanced(t, u, l, r, k)
<1> DEFINE above == Parent(t, l)
           at == Position(t, l)
           t2 == SetAround(t, l, r, lvalues, delimiter, rvalues)
<1>1. /\ l \in DOMAIN t.node /\ r \in DOMAIN t.node /\ above \in DOMAIN t.node
      /\ l # r /\ above # l /\ above # r /\ Parent(t, r) = above /\ Position(t, r) = at + 1
      /\ ~Leaf(t, above) /\ Len(Children(t, above)) = NodeCount(t, above) + 1
      /\ at + 1 \in 1..Len(Values(t, above))
      /\ Children(t, above)[at + 1] = l /\ Children(t, above)[at + 2] = r
      /\ \A m \in {l, r} : ~Contains(Children(t, l), m) /\ ~Contains(Children(t, r), m)
      /\ at \in Nat
  BY NeighboursApart DEF NodeCount
<1>2. /\ Tree(t2) /\ Linked(t2) /\ SameFrame(t, t2) /\ t2.asserts = t.asserts
      /\ Values(t2, l) = lvalues /\ Values(t2, r) = rvalues
      /\ Values(t2, above) = [Values(t, above) EXCEPT ![at + 1] = delimiter]
      /\ \A m \in DOMAIN t.node \ {l, r, above} : Values(t2, m) = Values(t, m)
      /\ \A m \in DOMAIN t.node :
           /\ Children(t2, m) = Children(t, m)
           /\ Parent(t2, m) = Parent(t, m) /\ Position(t2, m) = Position(t, m)
  BY SetAroundSets
<1>3. Rehung(t2, u, l, r)
  OBVIOUS
<1> HIDE DEF t2, above, at
<1>4. Tree(u) /\ Linked(u) /\ SameFrame(t, u) /\ u.asserts = t.asserts
  BY <1>2, <1>3 DEF Rehung, SameFrame
<1>5. /\ \A m \in DOMAIN t.node : Values(u, m) = Values(t2, m)
      /\ \A m \in DOMAIN t.node \ {l, r} : Children(u, m) = Children(t, m)
      /\ \A m \in DOMAIN t.node : ~Contains(Children(t, l), m) /\ ~Contains(Children(t, r), m) =>
           Parent(u, m) = Parent(t, m) /\ Position(u, m) = Position(t, m)
  BY <1>1, <1>2, <1>3 DEF Rehung, SameFrame
<1>6. /\ Parent(u, l) = above /\ Position(u, l) = at
      /\ Parent(u, r) = above /\ Position(u, r) = at + 1
  BY <1>1, <1>5 DEF above, at
<1>7. \A m \in DOMAIN t.node : Leaf(u, m) = Leaf(t, m)
  BY <1>4 DEF SameFrame, Leaf
<1>8. Values(t, above) \in Seq(Entry)
  BY <1>1, NodeFields
<1>9. /\ NodeCount(u, above) = NodeCount(t, above) /\ Children(u, above) = Children(t, above)
      /\ Values(u, above)[at + 1] = delimiter
  BY <1>1, <1>2, <1>5, <1>8, ExceptSeq, SMTT(30) DEF NodeCount
<1>10. Delimiter(u, l) = delimiter /\ Values(u, l) = lvalues /\ Values(u, r) = rvalues
  BY <1>1, <1>2, <1>5, <1>6, <1>9 DEF Delimiter
<1>11. ChildPerGap(u, l) /\ ChildPerGap(u, r) /\ ChildPerGap(u, above)
  BY <1>1, <1>7, <1>9, <1>10 DEF ChildPerGap, NodeCount
<1>12. IsChild(u, l) /\ IsChild(u, r)
  <2>1. DOMAIN u.node = DOMAIN t.node
    BY <1>4 DEF SameFrame
  <2>2. /\ at < Len(Children(u, above)) /\ at + 1 < Len(Children(u, above))
        /\ Children(u, above)[at + 1] = l /\ Children(u, above)[(at + 1) + 1] = r
    BY <1>1, <1>9, SMTT(30) DEF NodeCount
  <2> QED
    BY <1>1, <1>6, <1>11, <2>1, <2>2 DEF IsChild, Child
<1>13. Neighbours(u, l, r)
  BY <1>1, <1>6, <1>7, <1>12 DEF Neighbours, Siblings
<1>14. Leftmost(u) = Leftmost(t)
  <2>1. t.root \in DOMAIN t.node => Parent(u, t.root) = Parent(t, t.root)
    BY <1>1, <1>5, LinkedApart
  <2> QED
    BY <1>4, <2>1 DEF Leftmost, Tree, SameFrame
<1>15. NodeCount(u, l) = NodeCount(t, l) + k /\ Around(u, l, r) = Around(t, l, r)
  BY <1>10 DEF NodeCount, Around
<1>16. SameElsewhere(t, u, {l, r, above})
  BY <1>2, <1>5 DEF SameElsewhere
<1>17. Values(u, above) = [Values(t, above) EXCEPT ![at + 1] = Delimiter(u, l)]
  BY <1>1, <1>2, <1>5, <1>10
<1> QED
  BY <1>4, <1>6, <1>9, <1>13, <1>14, <1>15, <1>16, <1>17 DEF Rebalanced, above, at

LEMMA NothingRehung ==
  ASSUME NEW t, Tree(t), Linked(t), NEW x, NEW y
  PROVE  Rehung(t, t, x, y)
  BY DEF Rehung, SameFrame

(***************************************************************************)
(* btree_node::rebalance_right_to_left, as rebalance_or_split and          *)
(* try_merge_or_rebalance call it: on neighbours, with at least as many    *)
(* values on the right and a number of them to move that the right node    *)
(* has.  to_move values go over and nothing else of the tree changes.      *)
(***************************************************************************)
THEOREM RightToLeftRebalances ==
  ASSUME NEW t, Tree(t), Linked(t), NEW l, NEW r, Neighbours(t, l, r),
         NodeCount(t, r) >= NodeCount(t, l), NodeCount(t, r) <= MaxCount(t, r),
         NEW to_move \in 1..NodeCount(t, r)
  PROVE  Rebalanced(t, RebalanceRightToLeft(t, l, r, to_move), l, r, to_move)
<1> DEFINE lv == Values(t, l)
           rv == Values(t, r)
           kids == Children(t, r)
           lvalues == lv \o <<Delimiter(t, l)>> \o SubSeq(rv, 1, to_move - 1)
           rvalues == SubSeq(rv, to_move + 1, Len(rv))
           delimiter == rv[to_move]
           t2 == SetAround(t, l, r, lvalues, delimiter, rvalues)
           u == RebalanceRightToLeft(t, l, r, to_move)
<1>1. /\ l \in DOMAIN t.node /\ r \in DOMAIN t.node /\ l # r /\ Delimiter(t, l) \in Entry
      /\ Siblings(t, l, r) /\ Leaf(t, l) = Leaf(t, r)
  BY NeighboursApart DEF Neighbours
<1>2. /\ lv \in Seq(Entry) /\ rv \in Seq(Entry) /\ Len(lv) \in Nat /\ Len(rv) \in Nat
      /\ to_move \in 1..Len(rv) /\ Len(rv) >= Len(lv)
  BY <1>1, NodeFields, LenProperties DEF NodeCount
<1>3. u = IF Leaf(t, l) THEN t2
          ELSE SetChildren(SetChildren(t2, l, Len(lv) + 1, SubSeq(kids, 1, to_move)),
                           r, 0, SubSeq(kids, to_move + 1, Len(kids)))
  <2>1. Check(t, /\ Siblings(t, l, r) /\ Len(rv) >= Len(lv) /\ to_move \in 1..Len(rv)
                 /\ Leaf(t, l) \/ Len(rv) <= MaxCount(t, r)) = t
    BY <1>1, <1>2, CheckPasses DEF NodeCount
  <2> QED
    BY <2>1 DEF RebalanceRightToLeft
<1> HIDE DEF u, lv, rv
<1>3a. Shifted(Entry, lv, Delimiter(t, l), rv, lvalues, delimiter, rvalues, Len(lv) + to_move)
  <2>1. ArePair(Entry, lv, Delimiter(t, l), rv, to_move, 1..Len(rv))
    BY <1>1, <1>2 DEF ArePair
  <2> QED
    BY <2>1, ValuesGoLeft
<1> HIDE DEF lvalues, rvalues, delimiter
<1>4. /\ lvalues \in Seq(Entry) /\ Len(lvalues) = Len(lv) + to_move
      /\ rvalues \in Seq(Entry) /\ Len(rvalues) = Len(rv) - to_move
      /\ delimiter \in Entry
      /\ lvalues \o <<delimiter>> \o rvalues = lv \o <<Delimiter(t, l)>> \o rv
  <2>1. Len(lv) + Len(rv) - (Len(lv) + to_move) = Len(rv) - to_move
    BY <1>2
  <2> QED
    BY <1>3a, <2>1 DEF Shifted
<1>0. lvalues \o <<delimiter>> \o rvalues = Around(t, l, r)
  BY <1>4 DEF Around, lv, rv
<1>5. /\ Tree(t2) /\ Linked(t2) /\ DOMAIN t2.node = DOMAIN t.node
      /\ \A m \in DOMAIN t.node : Children(t2, m) = Children(t, m)
  BY <1>4, SetAroundSets DEF SameFrame
<1>6. ChildPerGap(t, l) /\ ChildPerGap(t, r) /\ Len(lvalues) = NodeCount(t, l) + to_move /\ to_move \in Int
  BY <1>2, <1>4 DEF Neighbours, IsChild, NodeCount, lv
<1>7. CASE Leaf(t, l)
  <2>1. u = t2
    BY <1>3, <1>7
  <2>2. Len(Children(t, l)) = 0 /\ Len(Children(t, r)) = 0
    BY <1>1, <1>6, <1>7 DEF ChildPerGap
  <2>3. Rehung(t2, u, l, r) /\ Children(u, l) = Children(t, l) /\ Children(u, r) = Children(t, r)
    BY <1>1, <1>5, <2>1, NothingRehung
  <2> QED
    BY <1>0, <1>1, <1>4, <1>6, <1>7, <2>2, <2>3, RebalancesWhen DEF u
<1>8. CASE ~Leaf(t, l)
  <2> DEFINE some == SubSeq(kids, 1, to_move)
             rest == SubSeq(kids, to_move + 1, Len(kids))
  <2>1. /\ Len(Children(t, l)) = Len(lv) + 1 /\ Len(kids) = Len(rv) + 1 /\ kids \in Seq(Nat)
        /\ Children(t, l) \in Seq(Nat)
    BY <1>1, <1>6, <1>8, NodeFields DEF ChildPerGap, NodeCount, lv, rv
  <2>2. /\ to_move \in 0..Len(kids) /\ Children(t2, r) = kids
        /\ Children(t2, l) = Children(t, l)
    BY <1>1, <1>2, <1>5, <2>1, SMTT(30)
  <2>4. some \in Seq(Nat) /\ Len(some) = to_move
    BY <2>1, <2>2, Prefix
  <2>5. rest \in Seq(Nat) /\ Len(rest) = Len(kids) - to_move
    BY <2>1, <2>2, Suffix
  <2>6. some \o rest = kids
    BY <2>1, <2>2, CutAfter
  <2> HIDE DEF t2
  <2>7. Rehung(t2, u, l, r) /\ Children(u, l) = Children(t, l) \o some /\ Children(u, r) = rest
    <3> DEFINE lk == Children(t2, l)
               rk == Children(t2, r)
               w == SetChildren(SetChildren(t2, l, Len(lk), SubSeq(rk, 1, to_move)),
                                r, 0, SubSeq(rk, to_move + 1, Len(rk)))
    <3>1. u = w
      BY <1>3, <1>8, <2>1, <2>2
    <3>2. /\ Rehung(t2, w, l, r) /\ Children(w, l) = lk \o SubSeq(rk, 1, to_move)
          /\ Children(w, r) = SubSeq(rk, to_move + 1, Len(rk))
      BY <1>1, <1>5, <2>2, ChildrenGoLeft
    <3> HIDE DEF w
    <3> QED
      BY <2>2, <3>1, <3>2
  <2>8. Len(Children(u, l)) = Len(Children(t, l)) + Len(some) /\ Len(Children(u, r)) = Len(rest)
    BY <2>1, <2>4, <2>7, ConcatProperties, ZenonT(30)
  <2>9. Len(Children(u, l)) = Len(lvalues) + 1 /\ Len(Children(u, r)) = Len(rvalues) + 1
    BY <1>2, <1>4, <2>1, <2>4, <2>5, <2>8
  <2>10. Children(u, l) \o Children(u, r) = Children(t, l) \o Children(t, r)
    <3> DEFINE lk == Children(t, l)
    <3> HIDE DEF lk
    <3>1. lk \in Seq(Nat) /\ kids \in Seq(Nat) /\ to_move \in 0..Len(kids)
      BY <2>1, <2>2 DEF lk
    <3>2. (lk \o SubSeq(kids, 1, to_move)) \o SubSeq(kids, to_move + 1, Len(kids)) = lk \o kids
      BY <3>1, CutConcat
    <3> QED
      BY <2>7, <3>2 DEF some, rest, kids, lk
  <2> QED
    BY <1>0, <1>1, <1>4, <1>6, <1>8, <2>7, <2>9, <2>10, RebalancesWhen DEF t2, u
<1> QED
  BY <1>7, <1>8

(***************************************************************************)
(* btree_node::rebalance_left_to_right, the mirror image.                  *)
(***************************************************************************)
THEOREM LeftToRightRebalances ==
  ASSUME NEW t, Tree(t), Linked(t), NEW l, NEW r, Neighbours(t, l, r),
         NodeCount(t, l) >= NodeCount(t, r), NEW to_move \in 1..NodeCount(t, l)
  PROVE  Rebalanced(t, RebalanceLeftToRight(t, l, r, to_move), l, r, 0 - to_move)
<1> DEFINE lv == Values(t, l)
           rv == Values(t, r)
           kids == Children(t, l)
           keep == Len(lv) - to_move
           lvalues == SubSeq(lv, 1, keep)
           rvalues == SubSeq(lv, keep + 2, Len(lv)) \o <<Delimiter(t, l)>> \o rv
           delimiter == lv[keep + 1]
           t2 == SetAround(t, l, r, lvalues, delimiter, rvalues)
           u == RebalanceLeftToRight(t, l, r, to_move)
<1>1. /\ l \in DOMAIN t.node /\ r \in DOMAIN t.node /\ l # r /\ Delimiter(t, l) \in Entry
      /\ Siblings(t, l, r) /\ Leaf(t, l) = Leaf(t, r)
  BY NeighboursApart DEF Neighbours
<1>2. /\ lv \in Seq(Entry) /\ rv \in Seq(Entry) /\ Len(lv) \in Nat /\ Len(rv) \in Nat
      /\ to_move \in 1..Len(lv) /\ Len(lv) >= Len(rv)
      /\ keep \in 0..Len(lv) - 1
  BY <1>1, NodeFields, LenProperties, SMTT(30) DEF NodeCount
<1>3. u = IF Leaf(t, l) THEN t2
          ELSE DropChildren(SetChildren(t2, r, 0, SubSeq(kids, keep + 2, Len(kids)) \o Children(t, r)),
                            l, keep + 1)
  <2>1. Check(t, Siblings(t, l, r) /\ Len(lv) >= Len(rv) /\ to_move \in 1..Len(lv)) = t
    BY <1>1, <1>2, CheckPasses
  <2> QED
    BY <2>1 DEF RebalanceLeftToRight
<1>4. /\ ChildPerGap(t, l) /\ ChildPerGap(t, r) /\ 0 - to_move \in Int
      /\ keep = NodeCount(t, l) + (0 - to_move)
  BY <1>2 DEF Neighbours, IsChild, NodeCount
<1> HIDE DEF u, lv, rv, keep
<1>5. Shifted(Entry, lv, Delimiter(t, l), rv, lvalues, delimiter, rvalues, keep)
  <2>1. ArePair(Entry, lv, Delimiter(t, l), rv, keep, 0..Len(lv) - 1)
    BY <1>1, <1>2 DEF ArePair
  <2> QED
    BY <2>1, ValuesGoRight
<1> HIDE DEF lvalues, rvalues, delimiter
<1>6. /\ lvalues \in Seq(Entry) /\ Len(lvalues) = keep
      /\ rvalues \in Seq(Entry) /\ Len(rvalues) = Len(lv) + Len(rv) - keep
      /\ delimiter \in Entry
      /\ lvalues \o <<delimiter>> \o rvalues = Around(t, l, r)
  BY <1>5 DEF Shifted, Around, lv, rv
<1>7. /\ Tree(t2) /\ Linked(t2) /\ DOMAIN t2.node = DOMAIN t.node
      /\ \A m \in DOMAIN t.node : Children(t2, m) = Children(t, m)
  BY <1>6, SetAroundSets DEF SameFrame
<1>8. CASE Leaf(t, l)
  <2>1. u = t2
    BY <1>3, <1>8
  <2>2. Len(Children(t, l)) = 0 /\ Len(Children(t, r)) = 0
    BY <1>1, <1>4, <1>8 DEF ChildPerGap
  <2>3. Rehung(t2, u, l, r) /\ Children(u, l) = Children(t, l) /\ Children(u, r) = Children(t, r)
    BY <1>1, <1>7, <2>1, NothingRehung
  <2> QED
    BY <1>1, <1>4, <1>6, <1>8, <2>2, <2>3, RebalancesWhen DEF u
<1>9. CASE ~Leaf(t, l)
  <2> DEFINE k == keep + 1
             rk == Children(t, r)
             kept == SubSeq(kids, 1, k)
             rest == SubSeq(kids, k + 1, Len(kids))
  <2>1. /\ Len(kids) = Len(lv) + 1 /\ Len(rk) = Len(rv) + 1
        /\ kids \in Seq(Nat) /\ rk \in Seq(Nat)
    BY <1>1, <1>4, <1>9, NodeFields DEF ChildPerGap, NodeCount, lv, rv
  <2>2. /\ k \in 0..Len(kids) /\ Children(t2, r) = rk /\ Children(t2, l) = kids
        /\ keep + 2 = k + 1
    BY <1>1, <1>2, <1>7, <2>1, SMTT(30)
  <2>3. kept \in Seq(Nat) /\ Len(kept) = k
    BY <2>1, <2>2, Prefix, ZenonT(30)
  <2>4. rest \in Seq(Nat) /\ Len(rest) = Len(kids) - k
    BY <2>1, <2>2, Suffix
  <2> HIDE DEF t2
  <2>5. Rehung(t2, u, l, r) /\ Children(u, l) = kept /\ Children(u, r) = rest \o rk
    <3> DEFINE lk == Children(t2, l)
               w == DropChildren(SetChildren(t2, r, 0, SubSeq(lk, k + 1, Len(lk)) \o Children(t2, r)), l, k)
    <3>1. u = w
      BY <1>3, <1>9, <2>1, <2>2
    <3> HIDE DEF k
    <3>2. /\ Rehung(t2, w, l, r) /\ Children(w, l) = SubSeq(lk, 1, k)
          /\ Children(w, r) = SubSeq(lk, k + 1, Len(lk)) \o Children(t2, r)
      <4>1. k \in 0..Len(Children(t2, l))
        BY <2>2
      <4> QED
        BY <1>1, <1>7, <4>1, ChildrenGoRight
    <3> HIDE DEF w
    <3> QED
      BY <2>2, <3>1, <3>2
  <2>6. Children(u, l) \o Children(u, r) = kids \o rk
    <3> HIDE DEF kids, rk, k
    <3>1. SubSeq(kids, 1, k) \o (SubSeq(kids, k + 1, Len(kids)) \o rk) = kids \o rk
      BY <2>1, <2>2, CutConcat, ZenonT(30)
    <3> QED
      BY <2>5, <3>1
  <2> HIDE DEF kept, rest
  <2>7. Len(Children(u, l)) = keep + 1 /\ Len(Children(u, r)) = Len(rest) + Len(rk)
    BY <2>1, <2>3, <2>4, <2>5, ConcatProperties, SMTT(30)
  <2>8. Len(Children(u, l)) = Len(lvalues) + 1 /\ Len(Children(u, r)) = Len(rvalues) + 1
    BY <1>2, <1>6, <2>1, <2>4, <2>7
  <2> QED
    BY <1>1, <1>4, <1>6, <1>9, <2>5, <2>6, <2>8, RebalancesWhen DEF t2, u
<1> QED
  BY <1>8, <1>9

-------------------------------------------------------------------------------
\* Inserting and removing a value of an internal node.

\* u is t but for the list of children of n, its children none the wiser.
Listed(t, u, n, kids) ==
  /\ Tree(u) /\ SameFrame(t, u) /\ u.asserts = t.asserts
  /\ \A m \in DOMAIN t.node : Children(u, m) = IF m = n THEN kids ELSE Children(t, m)
  /\ \A m \in DOMAIN t.node :
       /\ Values(u, m) = Values(t, m)
       /\ Parent(u, m) = Parent(t, m) /\ Position(u, m) = Position(t, m)

LEMMA ChildrenListed ==
  ASSUME NEW t, Tree(t), NEW n \in DOMAIN t.node, NEW kids \in Seq(Nat)
  PROVE  Listed(t, [t EXCEPT !.node[n].children = kids], n, kids)
<1> DEFINE new == [t.node[n] EXCEPT !.children = kids]
           u == [t EXCEPT !.node = [t.node EXCEPT ![n] = new]]
<1>1. /\ u.node = [t.node EXCEPT ![n] = new]
      /\ u.root = t.root /\ u.rightmost = t.rightmost /\ u.size = t.size /\ u.asserts = t.asserts
      /\ u = [node |-> u.node, root |-> u.root, rightmost |-> u.rightmost, size |-> u.size,
              asserts |-> u.asserts]
  <2>1. u = [t EXCEPT !.node = [t.node EXCEPT ![n] = new]]
    OBVIOUS
  <2> HIDE DEF u, new
  <2> QED
    BY <2>1 DEF Tree
<1>2. t.node \in [DOMAIN t.node -> Node] /\ t.node[n] \in Node
  BY DEF Tree
<1>3. /\ new \in Node
      /\ new.fields = t.node[n].fields /\ new.max_count = t.node[n].max_count
      /\ new.parent = t.node[n].parent /\ new.position = t.node[n].position
      /\ new.values = t.node[n].values /\ new.children = kids
  BY <1>2 DEF Node
<1> HIDE DEF u, new
<1>4. /\ DOMAIN u.node = DOMAIN t.node
      /\ \A m \in DOMAIN t.node : u.node[m] = IF m = n THEN new ELSE t.node[m]
      /\ u.node \in [DOMAIN t.node -> Node]
  BY <1>1, <1>2, <1>3
<1>5. Tree(u) /\ SameFrame(t, u)
  BY <1>1, <1>3, <1>4 DEF Tree, SameFrame, MaxCount
<1>6. \A m \in DOMAIN t.node : Children(u, m) = IF m = n THEN kids ELSE Children(t, m)
  BY <1>3, <1>4 DEF Children
<1>7. \A m \in DOMAIN t.node :
       /\ Values(u, m) = Values(t, m)
       /\ Parent(u, m) = Parent(t, m) /\ Position(u, m) = Position(t, m)
  BY <1>3, <1>4 DEF Values, Parent, Position
<1>8. Listed(t, u, n, kids)
  BY <1>1, <1>5, <1>6, <1>7 DEF Listed
<1> QED
  BY <1>8 DEF u, new

\* u is t after the children of n from index first on took their positions.
Renumbered(t, u, n, first) ==
  /\ Tree(u) /\ SameFrame(t, u) /\ u.asserts = t.asserts
  /\ \A m \in DOMAIN t.node :
       Values(u, m) = Values(t, m) /\ Children(u, m) = Children(t, m) /\ Parent(u, m) = Parent(t, m)
  /\ \A j \in first + 1..Len(Children(t, n)) :
       Children(t, n)[j] \in DOMAIN t.node => Position(u, Children(t, n)[j]) = j - 1
  /\ \A m \in DOMAIN t.node : (\A j \in first + 1..Len(Children(t, n)) : Children(t, n)[j] # m) =>
       Position(u, m) = Position(t, m)

LEMMA RenumberRenumbers ==
  ASSUME NEW t, Tree(t), NEW n \in DOMAIN t.node, NEW first \in 0..Len(Children(t, n)),
         \A i, j \in first + 1..Len(Children(t, n)) : Children(t, n)[i] = Children(t, n)[j] => i = j
  PROVE  Renumbered(t, Renumber(t, n, first), n, first)
<1> DEFINE kids == Children(t, n)
           moved == SubSeq(kids, first + 1, Len(kids))
           new(m) == IF Contains(moved, m)
                     THEN [t.node[m] EXCEPT !.position = first + IndexIn(moved, m) - 1]
                     ELSE t.node[m]
           u == Renumber(t, n, first)
<1>1. kids \in Seq(Nat) /\ Len(kids) \in Nat /\ first \in 0..Len(kids)
  BY NodeFields, LenProperties
<1>2. /\ moved \in Seq(Nat) /\ Len(moved) = Len(kids) - first
      /\ \A j \in 1..Len(kids) - first : moved[j] = kids[first + j]
  BY <1>1, Suffix, ZenonT(30)
<1>3. /\ u.node = [m \in DOMAIN t.node |-> new(m)]
      /\ u.root = t.root /\ u.rightmost = t.rightmost /\ u.size = t.size /\ u.asserts = t.asserts
      /\ u = [node |-> u.node, root |-> u.root, rightmost |-> u.rightmost, size |-> u.size,
              asserts |-> u.asserts]
  <2>1. u = [t EXCEPT !.node = [m \in DOMAIN t.node |-> new(m)]]
    BY DEF Renumber
  <2> HIDE DEF new, u
  <2> QED
    BY <2>1 DEF Tree
<1> HIDE DEF moved, u
<1>0. \A i, j \in first + 1..Len(kids) : kids[i] = kids[j] => i = j
  OBVIOUS
<1> HIDE DEF kids
<1>4. Distinct(moved)
  <2> SUFFICES ASSUME NEW i \in 1..Len(moved), NEW j \in 1..Len(moved), moved[i] = moved[j]
               PROVE  i = j
    BY DEF Distinct
  <2>1. first + i \in first + 1..Len(kids) /\ first + j \in first + 1..Len(kids)
    <3>1. i \in 1..Len(kids) - first /\ j \in 1..Len(kids) - first
      BY <1>2
    <3> QED
      BY <1>1, <3>1
  <2>2. kids[first + i] = kids[first + j]
    BY <1>2, Zenon
  <2>3. first + i = first + j
    BY <1>0, <2>1, <2>2, Zenon
  <2> QED
    BY <1>1, <1>2, <2>3
<1>5. \A m \in DOMAIN t.node : t.node[m] \in Node
  BY DEF Tree
<1>6. ASSUME NEW m \in DOMAIN t.node
      PROVE  /\ new(m) \in Node
             /\ new(m).fields = t.node[m].fields /\ new(m).max_count = t.node[m].max_count
             /\ new(m).values = t.node[m].values /\ new(m).children = t.node[m].children
             /\ new(m).parent = t.node[m].parent
             /\ \A j \in 1..Len(moved) : m = moved[j] => new(m).position = first + j - 1
             /\ ~Contains(moved, m) => new(m).position = t.node[m].position
  <2>1. CASE ~Contains(moved, m)
    BY <1>5, <2>1 DEF Contains, Node
  <2>2. CASE Contains(moved, m)
    <3>1. PICK j \in 1..Len(moved) : m = moved[j]
      BY <2>2 DEF Contains
    <3>2. IndexIn(moved, m) = j
      BY <1>2, <1>4, <3>1, IndexOfEach
    <3>3. new(m) = [t.node[m] EXCEPT !.position = first + j - 1]
      BY <2>2, <3>2
    <3>4. first + j - 1 \in Nat /\ t.node[m] \in Node
      BY <1>1, <1>2, <1>5
    <3>5. \A i \in 1..Len(moved) : m = moved[i] => i = j
      BY <1>4, <3>1 DEF Distinct
    <3> HIDE DEF new
    <3>6. new(m) \in Node
      BY <3>3, <3>4 DEF Node
    <3>7. /\ new(m).fields = t.node[m].fields /\ new(m).max_count = t.node[m].max_count
          /\ new(m).values = t.node[m].values /\ new(m).children = t.node[m].children
          /\ new(m).parent = t.node[m].parent /\ new(m).position = first + j - 1
      BY <3>3, <3>4 DEF Node
    <3> QED
      BY <2>2, <3>5, <3>6, <3>7
  <2> QED
    BY <2>1, <2>2
<1> HIDE DEF new
<1>7. Tree(u) /\ SameFrame(t, u)
  BY <1>3, <1>6 DEF Tree, SameFrame, MaxCount
<1>8. \A m \in DOMAIN t.node :
        Values(u, m) = Values(t, m) /\ Children(u, m) = Children(t, m) /\ Parent(u, m) = Parent(t, m)
  BY <1>3, <1>6 DEF Values, Children, Parent
<1>9. ASSUME NEW j \in first + 1..Len(kids), kids[j] \in DOMAIN t.node
      PROVE  Position(u, kids[j]) = j - 1
  <2>1. j - first \in 1..Len(kids) - first /\ first + (j - first) = j
    BY <1>1
  <2>2. moved[j - first] = kids[j] /\ j - first \in 1..Len(moved)
    BY <1>2, <2>1
  <2>3. new(kids[j]).position = first + (j - first) - 1
    BY <1>6, <1>9, <2>2
  <2> QED
    BY <1>3, <1>9, <2>1, <2>3 DEF Position
<1>10. ASSUME NEW m \in DOMAIN t.node, \A j \in first + 1..Len(kids) : kids[j] # m
       PROVE  Position(u, m) = Position(t, m)
  <2>1. ~Contains(moved, m)
    <3> SUFFICES ASSUME NEW j \in 1..Len(moved), moved[j] = m
                 PROVE  FALSE
      BY DEF Contains
    <3>1. first + j \in first + 1..Len(kids) /\ kids[first + j] = m
      BY <1>1, <1>2, SMTT(30)
    <3> QED
      BY <1>10, <3>1
  <2> QED
    BY <1>3, <1>6, <2>1 DEF Position
<1> QED
  BY <1>3, <1>7, <1>8, <1>9, <1>10 DEF Renumbered, u, kids

\* btree_node::remove_value on an internal node: value i and the empty child
\* after it are gone, and the children after that one have their new positions.
LEMMA RemoveValueRemoves ==
  ASSUME NEW t, Tree(t), Linked(t), NEW n \in DOMAIN t.node, ~Leaf(t, n),
         Len(Children(t, n)) = NodeCount(t, n) + 1, NEW i \in 0..NodeCount(t, n) - 1,
         NodeCount(t, Child(t, n, i + 1)) = 0
  PROVE  LET u == RemoveValue(t, n, i)
         IN /\ Tree(u) /\ Linked(u) /\ SameFrame(t, u) /\ u.asserts = t.asserts
            /\ \A m \in DOMAIN t.node :
                 /\ Values(u, m) = IF m = n THEN RemoveAt(Values(t, n), i + 1) ELSE Values(t, m)
                 /\ Children(u, m) = IF m = n THEN RemoveAt(Children(t, n), i + 2) ELSE Children(t, m)
                 /\ Parent(u, m) = Parent(t, m)
            /\ \A m \in DOMAIN t.node :
                 (\A j \in i + 3..Len(Children(t, n)) : Children(t, n)[j] # m) =>
                   Position(u, m) = Position(t, m)
<1> DEFINE values == RemoveAt(Values(t, n), i + 1)
           old == Children(t, n)
           kids == RemoveAt(old, i + 2)
           t1 == SetValues(t, n, values)
           t2 == [t1 EXCEPT !.node[n].children = kids]
           u == RemoveValue(t, n, i)
<1>1. /\ Values(t, n) \in Seq(Entry) /\ Len(Values(t, n)) \in Nat /\ i + 1 \in 1..Len(Values(t, n))
      /\ old \in Seq(Nat) /\ Len(old) \in Nat /\ i + 2 \in 1..Len(old)
      /\ (i + 1) + 1 = i + 2 /\ i \in Nat
  <2>1. Values(t, n) \in Seq(Entry) /\ old \in Seq(Nat) /\ NodeCount(t, n) \in Nat
    BY NodeFields
  <2>2. Len(old) = NodeCount(t, n) + 1
    OBVIOUS
  <2> HIDE DEF old
  <2> QED
    BY <2>1, <2>2 DEF NodeCount
<1>2. values \in Seq(Entry)
  BY <1>1, RemoveAtProperties
<1>3. /\ kids \in Seq(Nat) /\ Len(kids) = Len(old) - 1
      /\ \A j \in 1..Len(old) - 1 : kids[j] = IF j < i + 2 THEN old[j] ELSE old[j + 1]
  BY <1>1, RemoveAtProperties
<1>4. Revalued(t, t1, n, values)
  BY <1>2, SetValuesRevalues
<1>5. Tree(t1) /\ SameFrame(t, t1) /\ Children(t1, n) = old
  BY <1>4 DEF Revalued
<1>6. u = Renumber(t2, n, i + 1)
  <2>1. Check(t1, NodeCount(t, Child(t, n, i + 1)) = 0) = t1
    <3> HIDE DEF t1
    <3> QED
      BY <1>5, CheckPasses
  <2>2. u = Renumber([Check(t1, NodeCount(t, Child(t, n, i + 1)) = 0)
                        EXCEPT !.node[n].children = RemoveAt(@, i + 2)], n, i + 1)
    BY DEF RemoveValue
  <2>3. t1.node[n].children = old
    BY <1>5 DEF Children
  <2>4. t2 = [t1 EXCEPT !.node[n].children = RemoveAt(t1.node[n].children, i + 2)]
    BY <2>3
  <2> HIDE DEF t1, t2, u
  <2> QED
    BY <2>1, <2>2, <2>4
<1> HIDE DEF values, kids, t1
<1>7. Listed(t1, t2, n, kids)
  BY <1>3, <1>5, ChildrenListed DEF SameFrame
<1> HIDE DEF t2, u, old
<1>8. Tree(t2) /\ SameFrame(t, t2) /\ Children(t2, n) = kids /\ t2.asserts = t.asserts
  BY <1>4, <1>5, <1>7 DEF Listed, SameFrame, Revalued
<1>9. \A a, b \in 1..Len(old) : old[a] = old[b] => a = b
  BY LinkedApart DEF Distinct, old
<1>10. ASSUME NEW a \in (i + 1) + 1..Len(kids), NEW b \in (i + 1) + 1..Len(kids), kids[a] = kids[b]
       PROVE  a = b
  <2>1. /\ a + 1 \in 1..Len(old) /\ b + 1 \in 1..Len(old)
        /\ a \in 1..Len(old) - 1 /\ b \in 1..Len(old) - 1 /\ ~(a < i + 2) /\ ~(b < i + 2)
    BY <1>1, <1>3
  <2>2. old[a + 1] = old[b + 1]
    BY <1>3, <1>10, <2>1
  <2>3. a + 1 = b + 1
    BY <1>9, <2>1, <2>2
  <2> QED
    BY <1>1, <1>3, <2>3
<1>11. Renumbered(t2, u, n, i + 1)
  <2>1. i + 1 \in 0..Len(Children(t2, n))
    BY <1>1, <1>3, <1>8
  <2> QED
    BY <1>6, <1>8, <1>10, <2>1, RenumberRenumbers DEF SameFrame
<1>12. Tree(u) /\ SameFrame(t, u) /\ u.asserts = t.asserts
  BY <1>8, <1>11 DEF Renumbered, SameFrame
<1>13. \A m \in DOMAIN t.node :
         /\ Values(u, m) = IF m = n THEN values ELSE Values(t, m)
         /\ Children(u, m) = IF m = n THEN kids ELSE Children(t, m)
         /\ Parent(u, m) = Parent(t, m)
         /\ Position(t2, m) = Position(t, m)
  BY <1>4, <1>5, <1>7, <1>8, <1>11 DEF Renumbered, Listed, Revalued, SameFrame
<1>14. \A m \in DOMAIN t.node : (\A j \in (i + 1) + 1..Len(kids) : kids[j] # m) =>
         Position(u, m) = Position(t, m)
  BY <1>8, <1>11, <1>13 DEF Renumbered, SameFrame
<1>15. \A j \in (i + 1) + 1..Len(kids) : kids[j] \in DOMAIN t.node => Position(u, kids[j]) = j - 1
  BY <1>8, <1>11 DEF Renumbered, SameFrame
<1>16. ASSUME NEW j \in i + 2..Len(kids)
       PROVE  j + 1 \in i + 3..Len(old) /\ kids[j] = old[j + 1]
  <2>1. j \in 1..Len(old) - 1 /\ ~(j < i + 2) /\ j + 1 \in i + 3..Len(old)
    BY <1>1, <1>3
  <2> QED
    BY <1>3, <2>1
<1>17. ASSUME NEW m \in DOMAIN t.node, \A j \in i + 3..Len(old) : old[j] # m
       PROVE  Position(u, m) = Position(t, m)
  BY <1>1, <1>14, <1>16, <1>17
<1>18. ASSUME NEW m \in DOMAIN t.node PROVE Links(u, m)
  <2> SUFFICES ASSUME NEW j \in 1..Len(Children(u, m))
               PROVE  LET c == Children(u, m)[j]
                      IN c \in DOMAIN u.node /\ c # u.root /\ Parent(u, c) = m /\ Position(u, c) = j - 1
    BY DEF Links
  <2> DEFINE c == Children(u, m)[j]
  <2>a. Len(old) \in Nat /\ i \in Nat /\ Len(kids) = Len(old) - 1 /\ j \in Int
    BY <1>1, <1>3
  <2>0. DOMAIN u.node = DOMAIN t.node /\ u.root = t.root
    BY <1>12 DEF SameFrame
  <2>1. CASE m # n
    <3>1. Children(u, m) = Children(t, m)
      BY <1>13, <2>1
    <3>2. c \in DOMAIN t.node /\ c # t.root /\ Parent(t, c) = m /\ Position(t, c) = j - 1
      BY <3>1 DEF Linked, Links
    <3>3. \A k \in i + 3..Len(old) : old[k] # c
      <4>1. Contains(Children(t, m), c)
        BY <3>1 DEF Contains
      <4>2. ~Contains(old, c)
        BY <2>1, <4>1, LinkedApart DEF old
      <4>3. \A k \in i + 3..Len(old) : k \in 1..Len(old)
        BY <2>a
      <4> QED
        BY <4>2, <4>3 DEF Contains
    <3> QED
      BY <1>13, <1>17, <2>0, <3>2, <3>3
  <2>2. CASE m = n /\ j < i + 2
    <3>0. Children(u, m) = kids
      BY <1>13, <2>2
    <3>1. c = old[j] /\ j \in 1..Len(old)
      <4>1. j \in 1..Len(old) - 1 /\ j \in 1..Len(old) /\ j < i + 2
        BY <2>2, <2>a, <3>0
      <4> QED
        BY <1>3, <3>0, <4>1
    <3>2. c \in DOMAIN t.node /\ c # t.root /\ Parent(t, c) = m /\ Position(t, c) = j - 1
      BY <2>2, <3>1 DEF Linked, Links, old
    <3>3. \A k \in i + 3..Len(old) : old[k] # c
      <4>1. \A k \in i + 3..Len(old) : k \in 1..Len(old) /\ k # j
        BY <2>2, <2>a
      <4> QED
        BY <1>9, <3>1, <4>1
    <3> QED
      BY <1>13, <1>17, <2>0, <3>2, <3>3
  <2>3. CASE m = n /\ ~(j < i + 2)
    <3>0. Children(u, m) = kids
      BY <1>13, <2>3
    <3>1. c = kids[j] /\ j \in i + 2..Len(kids)
      BY <2>3, <2>a, <3>0
    <3>2. c = old[j + 1] /\ j + 1 \in 1..Len(old)
      BY <1>1, <1>16, <3>1
    <3>3. c \in DOMAIN t.node /\ c # t.root /\ Parent(t, c) = m
      BY <2>3, <3>2 DEF Linked, Links, old
    <3>4. Position(u, c) = j - 1
      BY <1>1, <1>15, <3>1, <3>3
    <3> QED
      BY <1>13, <2>0, <3>3, <3>4
  <2> QED
    BY <2>1, <2>2, <2>3
<1>19. Linked(u)
  BY <1>12, <1>18 DEF Linked, SameFrame
<1> QED
  BY <1>12, <1>13, <1>17, <1>19 DEF values, kids, old, u

-------------------------------------------------------------------------------
\* Merging.

\* The children of r, all of them, go to l.
LEMMA ChildrenMerge ==
  ASSUME NEW t, Tree(t), Linked(t), NEW l \in DOMAIN t.node, NEW r \in DOMAIN t.node, l # r
  PROVE  LET rk == Children(t, r)
             u == DropChildren(SetChildren(t, l, Len(Children(t, l)), rk), r, 0)
         IN Rehung(t, u, l, r) /\ Children(u, l) = Children(t, l) \o rk /\ Children(u, r) = <<>>
<1> DEFINE lk == Children(t, l)
           rk == Children(t, r)
           some == SubSeq(rk, 1, Len(rk))
           rest == SubSeq(rk, Len(rk) + 1, Len(rk))
           u == SetChildren(SetChildren(t, l, Len(lk), some), r, 0, rest)
<1>1. rk \in Seq(Nat) /\ Len(rk) \in 0..Len(rk)
  BY NodeFields, LenProperties
<1>2. some = rk /\ rest = <<>>
  <2> HIDE DEF rk
  <2> QED
    BY <1>1, SubSeqFull, EmptyPart
<1>3. Rehung(t, u, l, r) /\ Children(u, l) = lk \o some /\ Children(u, r) = rest
  BY <1>1, ChildrenGoLeft
<1>4. u = DropChildren(SetChildren(t, l, Len(lk), rk), r, 0)
  BY <1>2 DEF DropChildren
<1> HIDE DEF u, some, rest
<1> QED
  BY <1>2, <1>3, <1>4

(***************************************************************************)
(* btree_node::merge on neighbours, whatever they hold: as                 *)
(* try_merge_or_rebalance calls it, when the entries of both and the one   *)
(* between them have room in one node.  The right node is left empty and   *)
(* the child of none, ready to be deleted.                                 *)
(***************************************************************************)
THEOREM MergeMerges ==
  ASSUME NEW t, Tree(t), Linked(t), NEW l, NEW r, Neighbours(t, l, r)
  PROVE  Merged(t, Merge(t, l, r), l, r)
<1> DEFINE above == Parent(t, l)
           at == Position(t, l)
           lv == Values(t, l)
           rv == Values(t, r)
           lk == Children(t, l)
           rk == Children(t, r)
           old == Children(t, above)
           joined == Around(t, l, r)
           t0 == SetValues(t, r, <<>>)
           t1 == SetValues(t0, l, joined)
           t2 == IF Leaf(t, l) THEN t1
                 ELSE DropChildren(SetChildren(t1, l, Len(lv) + 1, rk), r, 0)
           u == RemoveValue(t2, above, at)
<1>1. /\ l \in DOMAIN t.node /\ r \in DOMAIN t.node /\ above \in DOMAIN t.node
      /\ l # r /\ above # l /\ above # r
      /\ Parent(t, r) = above
      /\ ~Leaf(t, above) /\ Len(old) = NodeCount(t, above) + 1
      /\ at \in Nat /\ at + 1 \in 1..NodeCount(t, above)
      /\ old[at + 1] = l /\ old[at + 2] = r
      /\ Delimiter(t, l) \in Entry
      /\ \A m \in {l, r} : ~Contains(lk, m) /\ ~Contains(rk, m)
  BY NeighboursApart
<1>2. Siblings(t, l, r) /\ Leaf(t, l) = Leaf(t, r) /\ ChildPerGap(t, l) /\ ChildPerGap(t, r)
  BY DEF Neighbours, IsChild
<1>3. Merge(t, l, r) = u
  <2>1. Check(t, Siblings(t, l, r)) = t
    BY <1>2, CheckPasses
  <2> QED
    BY <2>1 DEF Merge, Around
<1>4. /\ lv \in Seq(Entry) /\ rv \in Seq(Entry) /\ Len(lv) \in Nat /\ Len(rv) \in Nat
      /\ lk \in Seq(Nat) /\ rk \in Seq(Nat)
  BY <1>1, NodeFields, LenProperties
<1>5. joined \in Seq(Entry) /\ Len(joined) = Len(lv) + 1 + Len(rv)
  <2> DEFINE d == <<Delimiter(t, l)>>
  <2>1. d \in Seq(Entry) /\ Len(d) = 1
    BY <1>1
  <2> HIDE DEF d, lv, rv
  <2>2. lv \o d \o rv \in Seq(Entry) /\ Len(lv \o d \o rv) = Len(lv) + Len(d) + Len(rv)
    <3>1. lv \in Seq(Entry) /\ d \in Seq(Entry) /\ rv \in Seq(Entry) =>
            lv \o d \o rv \in Seq(Entry) /\ Len(lv \o d \o rv) = Len(lv) + Len(d) + Len(rv)
      BY Concat3
    <3> QED
      BY <1>4, <2>1, <3>1
  <2> QED
    BY <2>1, <2>2 DEF Around, d, lv, rv
<1> HIDE DEF above, at, joined, lv, rv, old
<1>6. Revalued(t, t0, r, <<>>)
  <2>1. <<>> \in Seq(Entry)
    BY EmptySeq
  <2> QED
    BY <1>1, <2>1, SetValuesRevalues
<1> HIDE DEF t0
<1>7. Revalued(t0, t1, l, joined)
  BY <1>1, <1>5, <1>6, SetValuesRevalues DEF Revalued, SameFrame
<1> HIDE DEF t1
<1>8. Tree(t1) /\ Linked(t1) /\ SameFrame(t, t1) /\ t1.asserts = t.asserts
  <2>1. Linked(t0)
    BY <1>6, RevaluedLinked
  <2>2. Linked(t1)
    BY <1>7, <2>1, RevaluedLinked
  <2> QED
    BY <1>6, <1>7, <2>2 DEF Revalued, SameFrame
<1>9. \A m \in DOMAIN t.node :
        /\ Values(t1, m) = IF m = l THEN joined ELSE IF m = r THEN <<>> ELSE Values(t, m)
        /\ Children(t1, m) = Children(t, m)
        /\ Parent(t1, m) = Parent(t, m) /\ Position(t1, m) = Position(t, m)
  BY <1>6, <1>7 DEF Revalued, SameFrame
<1>10. /\ Rehung(t1, t2, l, r) /\ Children(t2, l) = lk \o rk /\ Children(t2, r) = <<>>
       /\ Len(lk \o rk) = IF Leaf(t, l) THEN 0 ELSE Len(joined) + 1
  <2>1. CASE Leaf(t, l)
    <3>1. lk = <<>> /\ rk = <<>>
      BY <1>2, <1>4, <2>1, EmptySeq DEF ChildPerGap
    <3>2. lk \o rk = <<>> /\ Len(lk \o rk) = 0
      BY <3>1, ConcatEmptySeq, EmptySeq
    <3> HIDE DEF lk, rk
    <3>3. t2 = t1
      BY <2>1
    <3> QED
      BY <1>1, <1>8, <1>9, <2>1, <3>1, <3>2, <3>3, NothingRehung DEF lk, rk
  <2>2. CASE ~Leaf(t, l)
    <3>1. Len(lk) = Len(lv) + 1 /\ Len(rk) = Len(rv) + 1
      BY <1>2, <2>2 DEF ChildPerGap, NodeCount, lv, rv
    <3>2. Children(t1, l) = lk /\ Children(t1, r) = rk
      BY <1>1, <1>9
    <3>3. l \in DOMAIN t1.node /\ r \in DOMAIN t1.node
      BY <1>1, <1>8 DEF SameFrame
    <3> DEFINE w == DropChildren(SetChildren(t1, l, Len(Children(t1, l)), Children(t1, r)), r, 0)
    <3>4. /\ Rehung(t1, w, l, r) /\ Children(w, l) = Children(t1, l) \o Children(t1, r)
          /\ Children(w, r) = <<>>
      BY <1>1, <1>8, <3>3, ChildrenMerge
    <3>5. t2 = w
      BY <2>2, <3>1, <3>2
    <3>6. Len(lk \o rk) = Len(lk) + Len(rk)
      BY <1>4, ConcatProperties
    <3>7. Len(lk \o rk) = Len(joined) + 1
      BY <1>4, <1>5, <3>1, <3>6
    <3> HIDE DEF w, lk, rk, t2
    <3> QED
      BY <2>2, <3>2, <3>4, <3>5, <3>7
  <2> QED
    BY <2>1, <2>2
<1> HIDE DEF t2
<1>11. Tree(t2) /\ Linked(t2) /\ SameFrame(t, t2) /\ t2.asserts = t.asserts
  BY <1>8, <1>10 DEF Rehung, SameFrame
<1>12. /\ \A m \in DOMAIN t.node :
            Values(t2, m) = IF m = l THEN joined ELSE IF m = r THEN <<>> ELSE Values(t, m)
       /\ \A m \in DOMAIN t.node \ {l, r} : Children(t2, m) = Children(t, m)
       /\ \A m \in DOMAIN t.node : ~Contains(lk, m) /\ ~Contains(rk, m) =>
            Parent(t2, m) = Parent(t, m) /\ Position(t2, m) = Position(t, m)
  BY <1>1, <1>8, <1>9, <1>10 DEF Rehung, SameFrame
<1>13. \A m \in DOMAIN t.node : Leaf(t2, m) = Leaf(t, m)
  BY <1>11 DEF SameFrame, Leaf
<1>14. /\ Values(t2, above) = Values(t, above) /\ Children(t2, above) = old
       /\ NodeCount(t2, above) = NodeCount(t, above)
  BY <1>1, <1>12 DEF NodeCount, old
<1>15. NodeCount(t2, Child(t2, above, at + 1)) = 0
  <2>1. (at + 1) + 1 = at + 2
    BY <1>1
  <2>2. Child(t2, above, at + 1) = r
    BY <1>1, <1>14, <2>1 DEF Child
  <2> QED
    BY <1>1, <1>12, <2>2, EmptySeq DEF NodeCount
<1>16. /\ Tree(u) /\ Linked(u) /\ SameFrame(t2, u) /\ u.asserts = t2.asserts
       /\ \A m \in DOMAIN t2.node :
            /\ Values(u, m) = IF m = above THEN RemoveAt(Values(t2, above), at + 1) ELSE Values(t2, m)
            /\ Children(u, m) = IF m = above THEN RemoveAt(Children(t2, above), at + 2)
                                ELSE Children(t2, m)
            /\ Parent(u, m) = Parent(t2, m)
       /\ \A m \in DOMAIN t2.node :
            (\A j \in at + 3..Len(Children(t2, above)) : Children(t2, above)[j] # m) =>
               Position(u, m) = Position(t2, m)
  <2>1. above \in DOMAIN t2.node /\ ~Leaf(t2, above)
    BY <1>1, <1>11, <1>13 DEF SameFrame
  <2>2. Len(Children(t2, above)) = NodeCount(t2, above) + 1 /\ at \in 0..NodeCount(t2, above) - 1
    <3>1. NodeCount(t, above) \in Nat
      BY <1>1, NodeFields
    <3> QED
      BY <1>1, <1>14, <3>1
  <2> QED
    BY <1>11, <1>15, <2>1, <2>2, RemoveValueRemoves
<1> HIDE DEF u, lk, rk
<1>17. Tree(u) /\ Linked(u) /\ SameFrame(t, u) /\ u.asserts = t.asserts
  BY <1>11, <1>16 DEF SameFrame
<1>18. DOMAIN t2.node = DOMAIN t.node
  BY <1>11 DEF SameFrame
<1>19. /\ Values(u, l) = joined /\ Children(u, l) = lk \o rk
       /\ Values(u, r) = <<>> /\ Children(u, r) = <<>>
       /\ Values(u, above) = RemoveAt(Values(t, above), at + 1)
       /\ Children(u, above) = RemoveAt(old, at + 2)
  BY <1>1, <1>10, <1>12, <1>14, <1>16, <1>18
<1>20. SameElsewhere(t, u, {l, r, above})
  BY <1>12, <1>16, <1>18 DEF SameElsewhere
<1>21. /\ old \in Seq(Nat) /\ Len(old) \in Nat /\ at + 2 \in 1..Len(old) /\ at + 1 \in 1..Len(old)
       /\ \A a, b \in 1..Len(old) : old[a] = old[b] => a = b
  <2>1. old \in Seq(Nat) /\ Len(old) \in Nat /\ NodeCount(t, above) \in Nat
    BY <1>1, NodeFields, LenProperties DEF old
  <2>2. Distinct(old)
    BY <1>1, LinkedApart DEF old
  <2>3. at + 2 \in 1..Len(old) /\ at + 1 \in 1..Len(old)
    BY <1>1, <2>1
  <2> QED
    BY <2>1, <2>2, <2>3 DEF Distinct
<1>22. Parent(u, l) = above /\ Position(u, l) = at /\ Parent(u, r) = above
  <2>1. Parent(t2, l) = above /\ Position(t2, l) = at /\ Parent(t2, r) = above
    BY <1>1, <1>12 DEF above, at
  <2>2. \A j \in at + 3..Len(old) : j \in 1..Len(old) /\ j # at + 1
    BY <1>1, <1>21
  <2>3. \A j \in at + 3..Len(old) : old[j] # l
    BY <1>1, <1>21, <2>2
  <2> QED
    BY <1>1, <1>14, <1>16, <1>18, <2>1, <2>3
<1> DEFINE kids == RemoveAt(old, at + 2)
<1>23. /\ Len(kids) = Len(old) - 1
       /\ \A j \in 1..Len(old) - 1 : kids[j] = IF j < at + 2 THEN old[j] ELSE old[j + 1]
  BY <1>21, RemoveAtProperties
<1> HIDE DEF kids
<1>24. \A j \in 1..Len(kids) : kids[j] # r
  <2> SUFFICES ASSUME NEW j \in 1..Len(kids), kids[j] = r
               PROVE  FALSE
    OBVIOUS
  <2>1. CASE j < at + 2
    <3>1. kids[j] = old[j] /\ j \in 1..Len(old) /\ j # at + 2
      BY <1>1, <1>21, <1>23, <2>1
    <3> QED
      BY <1>1, <1>21, <3>1
  <2>2. CASE ~(j < at + 2)
    <3>1. kids[j] = old[j + 1] /\ j + 1 \in 1..Len(old) /\ j + 1 # at + 2
      BY <1>1, <1>21, <1>23, <2>2
    <3> QED
      BY <1>1, <1>21, <3>1
  <2> QED
    BY <2>1, <2>2
<1>25. \A m \in DOMAIN t.node : ~Contains(Children(u, m), r)
  <2> SUFFICES ASSUME NEW m \in DOMAIN t.node, NEW j \in 1..Len(Children(u, m)), Children(u, m)[j] = r
               PROVE  FALSE
    BY DEF Contains
  <2>1. Parent(u, r) = m
    BY <1>17 DEF Linked, Links, SameFrame
  <2>2. m = above
    BY <1>22, <2>1
  <2> QED
    BY <1>19, <1>24, <2>2 DEF kids
<1>26. ChildPerGap(u, l) /\ ChildPerGap(u, above)
  <2>1. Leaf(u, l) = Leaf(t, l) /\ Leaf(u, above) = Leaf(t, above)
    BY <1>1, <1>17 DEF SameFrame, Leaf
  <2>2. ChildPerGap(u, l)
    BY <1>10, <1>19, <2>1 DEF ChildPerGap, NodeCount
  <2>3. Values(t, above) \in Seq(Entry) /\ Len(Values(t, above)) \in Nat /\ at + 1 \in 1..Len(Values(t, above))
    BY <1>1, NodeFields, LenProperties DEF NodeCount
  <2>4. Len(RemoveAt(Values(t, above), at + 1)) = Len(Values(t, above)) - 1
    BY <2>3, RemoveAtProperties
  <2>5. Len(Children(u, above)) = Len(Values(u, above)) + 1
    BY <1>1, <1>19, <1>23, <2>3, <2>4 DEF NodeCount, kids
  <2> QED
    BY <1>1, <2>1, <2>2, <2>5 DEF ChildPerGap, NodeCount
<1>27. IsChild(u, l)
  <2>1. DOMAIN u.node = DOMAIN t.node /\ Children(u, above) = kids
    BY <1>17, <1>19 DEF SameFrame, kids
  <2>2. at < Len(kids) /\ kids[at + 1] = l
    BY <1>1, <1>21, <1>23
  <2> QED
    BY <1>1, <1>22, <1>26, <2>1, <2>2 DEF IsChild, Child
<1>28. Leftmost(u) = Leftmost(t)
  <2>1. t.root \in DOMAIN t.node => Parent(u, t.root) = Parent(t, t.root)
    BY <1>1, <1>12, <1>16, <1>18, LinkedApart DEF lk, rk
  <2> QED
    BY <1>17, <2>1 DEF Leftmost, Tree, SameFrame
<1> QED
  BY <1>3, <1>17, <1>19, <1>20, <1>22, <1>25, <1>27, <1>28
     DEF Merged, above, at, joined, lk, rk, old

-------------------------------------------------------------------------------
\* Splitting.

\* u is t after c took the place of child i of n.
Placed(t, u, n, i, c) ==
  /\ Tree(u) /\ SameFrame(t, u) /\ u.asserts = t.asserts
  /\ \A m \in DOMAIN t.node :
       /\ Values(u, m) = Values(t, m)
       /\ Children(u, m) = IF m = n THEN [Children(t, n) EXCEPT ![i + 1] = c] ELSE Children(t, m)
       /\ Parent(u, m) = IF m = c THEN n ELSE Parent(t, m)
       /\ Position(u, m) = IF m = c THEN i ELSE Position(t, m)

LEMMA SetChildPlaces ==
  ASSUME NEW t, Tree(t), NEW n \in DOMAIN t.node, NEW c \in DOMAIN t.node, c # n,
         NEW i \in 0..Len(Children(t, n)) - 1
  PROVE  Placed(t, SetChild(t, n, i, c), n, i, c)
<1> DEFINE kids == [Children(t, n) EXCEPT ![i + 1] = c]
           new == [t.node[n] EXCEPT !.children = kids]
           placed == [t.node[c] EXCEPT !.parent = n, !.position = i]
           node == [[t.node EXCEPT ![n] = new] EXCEPT ![c] = placed]
           u == SetChild(t, n, i, c)
<1>1. Children(t, n) \in Seq(Nat) /\ Len(Children(t, n)) \in Nat /\ c \in Nat /\ n \in Nat
  BY NodeFields, LenProperties
<1>2. /\ i < Len(Children(t, n)) /\ i \in Nat /\ i + 1 \in 1..Len(Children(t, n))
  BY <1>1
<1>3. kids \in Seq(Nat)
  BY <1>1, <1>2, ExceptSeq
<1>4. t.node \in [DOMAIN t.node -> Node] /\ t.node[n] \in Node /\ t.node[c] \in Node
  BY DEF Tree
<1>5. u = [t EXCEPT !.node = node]
  <2>1. u = [t EXCEPT !.node[n].children = IF i < Len(Children(t, n))
                                           THEN ReplaceAt(Children(t, n), i + 1, c)
                                           ELSE Append(Children(t, n), c),
                      !.node[c].parent = n,
                      !.node[c].position = i]
    BY DEF SetChild, Children
  <2>2. u = [t EXCEPT !.node[n].children = kids, !.node[c].parent = n, !.node[c].position = i]
    BY <1>2, <2>1 DEF ReplaceAt
  <2> HIDE DEF u, kids
  <2> QED
    BY <1>4, <2>2
<1> HIDE DEF kids, u
<1>6. /\ new \in Node
      /\ new.fields = t.node[n].fields /\ new.max_count = t.node[n].max_count
      /\ new.parent = t.node[n].parent /\ new.position = t.node[n].position
      /\ new.values = t.node[n].values /\ new.children = kids
  BY <1>3, <1>4 DEF Node
<1>7. /\ placed \in Node
      /\ placed.fields = t.node[c].fields /\ placed.max_count = t.node[c].max_count
      /\ placed.parent = n /\ placed.position = i
      /\ placed.values = t.node[c].values /\ placed.children = t.node[c].children
  BY <1>1, <1>2, <1>4 DEF Node
<1> HIDE DEF new, placed
<1>8. /\ node \in [DOMAIN t.node -> Node] /\ DOMAIN node = DOMAIN t.node
      /\ \A m \in DOMAIN t.node :
           node[m] = IF m = c THEN placed ELSE IF m = n THEN new ELSE t.node[m]
  BY <1>4, <1>6, <1>7
<1> HIDE DEF node
<1>9. /\ u.node = node
      /\ u.root = t.root /\ u.rightmost = t.rightmost /\ u.size = t.size /\ u.asserts = t.asserts
      /\ u = [node |-> u.node, root |-> u.root, rightmost |-> u.rightmost, size |-> u.size,
              asserts |-> u.asserts]
  BY <1>5 DEF Tree
<1>10. Tree(u) /\ SameFrame(t, u)
  BY <1>6, <1>7, <1>8, <1>9 DEF Tree, SameFrame, MaxCount
<1>11. \A m \in DOMAIN t.node : Values(u, m) = Values(t, m)
  BY <1>6, <1>7, <1>8, <1>9 DEF Values
<1>12. \A m \in DOMAIN t.node : Children(u, m) = IF m = n THEN kids ELSE Children(t, m)
  BY <1>6, <1>7, <1>8, <1>9 DEF Children
<1>13. \A m \in DOMAIN t.node : /\ Parent(u, m) = IF m = c THEN n ELSE Parent(t, m)
                                /\ Position(u, m) = IF m = c THEN i ELSE Position(t, m)
  BY <1>6, <1>7, <1>8, <1>9 DEF Parent, Position
<1> QED
  BY <1>9, <1>10, <1>11, <1>12, <1>13 DEF Placed, u, kids

\* A list with a hole made at i, filled.
LEMMA HoleFilled ==
  ASSUME NEW s \in Seq(Nat), NEW i \in 1..Len(s) + 1, NEW x \in Nat, NEW y \in Nat
  PROVE  [InsertAt(s, i, x) EXCEPT ![i] = y] = InsertAt(s, i, y)
<1> DEFINE a == InsertAt(s, i, x)
           b == InsertAt(s, i, y)
<1>1. /\ a \in Seq(Nat) /\ Len(a) = Len(s) + 1
      /\ \A j \in 1..Len(s) + 1 : a[j] = IF j < i THEN s[j] ELSE IF j = i THEN x ELSE s[j - 1]
  <2>1. HasPlace(Nat, s, i, x)
    BY DEF HasPlace
  <2> QED
    BY <2>1, InsertAtProperties
<1>2. /\ b \in Seq(Nat) /\ Len(b) = Len(s) + 1
      /\ \A j \in 1..Len(s) + 1 : b[j] = IF j < i THEN s[j] ELSE IF j = i THEN y ELSE s[j - 1]
  <2>1. HasPlace(Nat, s, i, y)
    BY DEF HasPlace
  <2> QED
    BY <2>1, InsertAtProperties
<1> HIDE DEF a, b
<1> DEFINE c == [a EXCEPT ![i] = y]
<1>3. /\ c \in Seq(Nat) /\ Len(c) = Len(a) /\ \A j \in 1..Len(a) : c[j] = IF j = i THEN y ELSE a[j]
  BY <1>1, ExceptSeq
<1> HIDE DEF c
<1>4. ASSUME NEW j \in 1..Len(c) PROVE c[j] = b[j]
  <2>1. j \in 1..Len(s) + 1 /\ j \in 1..Len(a) /\ Len(s) \in Nat
    BY <1>1, <1>3, LenProperties
  <2>2. CASE j = i
    BY <1>2, <1>3, <2>1, <2>2
  <2>3. CASE j # i
    BY <1>1, <1>2, <1>3, <2>1, <2>3
  <2> QED
    BY <2>2, <2>3
<1>5. c = b
  BY <1>1, <1>2, <1>3, <1>4, SeqEqual
<1> QED
  BY <1>5 DEF a, b, c

\* btree_node::insert_value on an internal node and the set_child that follows:
\* the value and the child after it are in, and the children after that one have
\* their new positions.
LEMMA InsertValueInserts ==
  ASSUME NEW t, Tree(t), Linked(t), NEW n \in DOMAIN t.node, ~Leaf(t, n),
         Len(Children(t, n)) = NodeCount(t, n) + 1, NEW i \in 0..NodeCount(t, n), NEW v \in Entry,
         NEW c \in DOMAIN t.node, c # n, c # t.root,
         \A m \in DOMAIN t.node : ~Contains(Children(t, m), c)
  PROVE  LET u == SetChild(InsertValue(t, n, i, v), n, i + 1, c)
         IN /\ Tree(u) /\ Linked(u) /\ SameFrame(t, u) /\ u.asserts = t.asserts
            /\ \A m \in DOMAIN t.node :
                 /\ Values(u, m) = IF m = n THEN InsertAt(Values(t, n), i + 1, v) ELSE Values(t, m)
                 /\ Children(u, m) = IF m = n THEN InsertAt(Children(t, n), i + 2, c)
                                     ELSE Children(t, m)
                 /\ Parent(u, m) = IF m = c THEN n ELSE Parent(t, m)
            /\ Position(u, c) = i + 1
            /\ \A m \in DOMAIN t.node \ {c} :
                 (\A j \in i + 2..Len(Children(t, n)) : Children(t, n)[j] # m) =>
                   Position(u, m) = Position(t, m)
<1> DEFINE values == InsertAt(Values(t, n), i + 1, v)
           old == Children(t, n)
           holed == InsertAt(old, i + 2, NoNode)
           kids == InsertAt(old, i + 2, c)
           t1 == SetValues(t, n, values)
           t2 == [t1 EXCEPT !.node[n].children = holed]
           t3 == InsertValue(t, n, i, v)
           u == SetChild(t3, n, i + 1, c)
<1>1. /\ Values(t, n) \in Seq(Entry) /\ Len(Values(t, n)) \in Nat /\ i + 1 \in 1..Len(Values(t, n)) + 1
      /\ i <= NodeCount(t, n)
      /\ old \in Seq(Nat) /\ Len(old) \in Nat /\ i + 2 \in 1..Len(old) + 1 /\ i + 2 <= Len(old) + 1
      /\ i \in Nat /\ c \in Nat /\ NoNode \in Nat /\ (i + 1) + 1 = i + 2
  <2>1. Values(t, n) \in Seq(Entry) /\ old \in Seq(Nat) /\ NodeCount(t, n) \in Nat /\ c \in Nat
    BY NodeFields
  <2>2. Len(old) = NodeCount(t, n) + 1
    OBVIOUS
  <2> HIDE DEF old
  <2> QED
    BY <2>1, <2>2 DEF NodeCount, NoNode
<1>2. values \in Seq(Entry)
  <2>1. HasPlace(Entry, Values(t, n), i + 1, v)
    BY <1>1 DEF HasPlace
  <2> QED
    BY <2>1, InsertAtProperties
<1>3. holed \in Seq(Nat) /\ Len(holed) = Len(old) + 1
      /\ \A j \in 1..Len(old) + 1 :
           holed[j] = IF j < i + 2 THEN old[j] ELSE IF j = i + 2 THEN NoNode ELSE old[j - 1]
  <2>1. HasPlace(Nat, old, i + 2, NoNode)
    BY <1>1 DEF HasPlace
  <2> QED
    BY <2>1, SMTT(30), InsertAtProperties
<1>4. kids \in Seq(Nat) /\ Len(kids) = Len(old) + 1
      /\ \A j \in 1..Len(old) + 1 :
           kids[j] = IF j < i + 2 THEN old[j] ELSE IF j = i + 2 THEN c ELSE old[j - 1]
  <2>1. HasPlace(Nat, old, i + 2, c)
    BY <1>1 DEF HasPlace
  <2> QED
    BY <2>1, InsertAtProperties, SMTT(30)
<1>5. [holed EXCEPT ![(i + 1) + 1] = c] = kids
  <2> HIDE DEF old
  <2>1. [holed EXCEPT ![i + 2] = c] = kids
    BY <1>1, HoleFilled
  <2> HIDE DEF holed, kids
  <2> QED
    BY <1>1, <2>1
<1>6. Revalued(t, t1, n, values)
  BY <1>2, SetValuesRevalues
<1>7. Tree(t1) /\ SameFrame(t, t1) /\ Children(t1, n) = old /\ DOMAIN t1.node = DOMAIN t.node
  BY <1>6 DEF Revalued, SameFrame
<1>8. t3 = Renumber(t2, n, i + 2)
  <2>1. Check(t, i <= NodeCount(t, n)) = t
    BY <1>1, CheckPasses
  <2>2. t3 = Renumber([t1 EXCEPT !.node[n].children = InsertAt(@, i + 2, NoNode)], n, i + 2)
    BY <2>1 DEF InsertValue
  <2>3. t1.node[n].children = old
    BY <1>7 DEF Children
  <2>4. t2 = [t1 EXCEPT !.node[n].children = InsertAt(t1.node[n].children, i + 2, NoNode)]
    BY <2>3
  <2> HIDE DEF t1, t2, t3
  <2> QED
    BY <2>2, <2>4
<1> HIDE DEF values, holed, kids, t1
<1>9. Listed(t1, t2, n, holed)
  BY <1>3, <1>7, ChildrenListed
<1> HIDE DEF t2, t3, old
<1>10. Tree(t2) /\ SameFrame(t, t2) /\ Children(t2, n) = holed /\ t2.asserts = t.asserts
  BY <1>6, <1>7, <1>9 DEF Listed, SameFrame, Revalued
<1>11. \A a, b \in 1..Len(old) : old[a] = old[b] => a = b
  BY LinkedApart DEF Distinct, old
<1>12. ASSUME NEW a \in (i + 2) + 1..Len(holed), NEW b \in (i + 2) + 1..Len(holed), holed[a] = holed[b]
       PROVE  a = b
  <2>1. /\ a - 1 \in 1..Len(old) /\ b - 1 \in 1..Len(old) /\ a \in 1..Len(old) + 1 /\ b \in 1..Len(old) + 1
        /\ ~(a < i + 2) /\ ~(b < i + 2) /\ a # i + 2 /\ b # i + 2
    BY <1>1, <1>3
  <2>2. old[a - 1] = old[b - 1]
    BY <1>3, <1>12, <2>1
  <2>3. a - 1 = b - 1 /\ a \in Int /\ b \in Int
    BY <1>11, <2>1, <2>2, SMTT(30)
  <2> QED
    BY <2>3
<1>13. Renumbered(t2, t3, n, i + 2)
  <2>1. i + 2 \in 0..Len(Children(t2, n))
    BY <1>1, <1>3, <1>10, SMTT(30)
  <2> QED
    BY <1>8, <1>10, <1>12, <2>1, RenumberRenumbers DEF SameFrame
<1>14. Placed(t3, u, n, i + 1, c)
  <2>1. Tree(t3) /\ Children(t3, n) = holed /\ DOMAIN t3.node = DOMAIN t.node
    BY <1>10, <1>13 DEF Renumbered, SameFrame
  <2>2. i + 1 \in 0..Len(Children(t3, n)) - 1
    BY <1>1, <1>3, <2>1
  <2> QED
    BY <2>1, <2>2, SetChildPlaces
<1> HIDE DEF u
<1>15. Tree(u) /\ SameFrame(t, u) /\ u.asserts = t.asserts
  BY <1>10, <1>13, <1>14 DEF Placed, Renumbered, SameFrame
<1>16. \A m \in DOMAIN t.node :
         /\ Values(u, m) = IF m = n THEN values ELSE Values(t, m)
         /\ Children(u, m) = IF m = n THEN kids ELSE Children(t, m)
         /\ Parent(u, m) = IF m = c THEN n ELSE Parent(t, m)
         /\ Position(t2, m) = Position(t, m)
         /\ Position(u, m) = IF m = c THEN i + 1 ELSE Position(t3, m)
  BY <1>5, <1>6, <1>7, <1>9, <1>10, <1>13, <1>14 DEF Placed, Renumbered, Listed, Revalued, SameFrame
<1>17. \A m \in DOMAIN t.node : (\A j \in (i + 2) + 1..Len(holed) : holed[j] # m) =>
         Position(t3, m) = Position(t, m)
  BY <1>10, <1>13, <1>16 DEF Renumbered, SameFrame
<1>18. \A j \in (i + 2) + 1..Len(holed) : holed[j] \in DOMAIN t.node => Position(t3, holed[j]) = j - 1
  BY <1>10, <1>13 DEF Renumbered, SameFrame
<1>19. ASSUME NEW j \in i + 3..Len(holed)
       PROVE  j - 1 \in i + 2..Len(old) /\ holed[j] = old[j - 1]
  <2>1. j \in 1..Len(old) + 1 /\ ~(j < i + 2) /\ j # i + 2 /\ j - 1 \in i + 2..Len(old)
    BY <1>1, <1>3
  <2> QED
    BY <1>3, <2>1
<1>20. ASSUME NEW m \in DOMAIN t.node, \A j \in i + 2..Len(old) : old[j] # m
       PROVE  Position(t3, m) = Position(t, m)
  <2>0. (i + 2) + 1 = i + 3
    BY <1>1, SMTT(30)
  <2>1. \A j \in (i + 2) + 1..Len(holed) : holed[j] # m
    BY <1>19, <1>20, <2>0
  <2> QED
    BY <1>17, <2>1
<1>21. \A j \in 1..Len(old) : old[j] # c
  BY DEF Contains, old
<1>22. ASSUME NEW m \in DOMAIN t.node PROVE Links(u, m)
  <2> SUFFICES ASSUME NEW j \in 1..Len(Children(u, m))
               PROVE  LET x == Children(u, m)[j]
                      IN x \in DOMAIN u.node /\ x # u.root /\ Parent(u, x) = m /\ Position(u, x) = j - 1
    BY DEF Links
  <2> DEFINE x == Children(u, m)[j]
  <2>a. Len(old) \in Nat /\ i \in Nat /\ Len(kids) = Len(old) + 1 /\ Len(holed) = Len(old) + 1 /\ j \in Int
    BY <1>1, <1>3, <1>4
  <2>0. DOMAIN u.node = DOMAIN t.node /\ u.root = t.root
    BY <1>15 DEF SameFrame
  <2>1. CASE m # n
    <3>1. Children(u, m) = Children(t, m)
      BY <1>16, <2>1
    <3>2. x \in DOMAIN t.node /\ x # t.root /\ Parent(t, x) = m /\ Position(t, x) = j - 1
      BY <3>1 DEF Linked, Links
    <3>3. Contains(Children(t, m), x)
      BY <3>1 DEF Contains
    <3>4. x # c
      BY <3>3
    <3>5. \A k \in i + 2..Len(old) : old[k] # x
      <4>1. ~Contains(old, x)
        BY <2>1, <3>3, LinkedApart DEF old
      <4>2. \A k \in i + 2..Len(old) : k \in 1..Len(old)
        BY <2>a
      <4> QED
        BY <4>1, <4>2 DEF Contains
    <3> QED
      BY <1>16, <1>20, <2>0, <3>2, <3>4, <3>5
  <2>2. CASE m = n
    <3>0. Children(u, m) = kids
      BY <1>16, <2>2
    <3>1. CASE j < i + 2
      <4>1. j \in 1..Len(old) + 1 /\ j \in 1..Len(old)
        BY <2>a, <3>0, <3>1, <1>1
      <4>2. x = old[j]
        BY <1>4, <3>0, <3>1, <4>1
      <4>3. x \in DOMAIN t.node /\ x # t.root /\ Parent(t, x) = m /\ Position(t, x) = j - 1
        BY <2>2, <4>1, <4>2 DEF Linked, Links, old
      <4>4. x # c
        BY <1>21, <4>1, <4>2
      <4>5. \A k \in i + 2..Len(old) : k \in 1..Len(old) /\ k # j
        BY <2>a, <3>1
      <4>6. \A k \in i + 2..Len(old) : old[k] # x
        BY <1>11, <4>1, <4>2, <4>5
      <4> QED
        BY <1>16, <1>20, <2>0, <4>3, <4>4, <4>6
    <3>2. CASE j = i + 2
      <4>1. j \in 1..Len(old) + 1 /\ ~(j < i + 2) /\ j - 1 = i + 1
        BY <2>a, <3>0, <3>2, <1>1
      <4>2. x = c
        BY <1>4, <3>0, <3>2, <4>1
      <4> QED
        BY <1>16, <2>0, <2>2, <4>1, <4>2
    <3>3. CASE j > i + 2
      <4>1. /\ j \in 1..Len(old) + 1 /\ ~(j < i + 2) /\ j # i + 2 /\ j \in (i + 2) + 1..Len(holed)
            /\ j - 1 \in 1..Len(old)
        BY <2>a, <3>0, <3>3, <1>1
      <4>2. x = old[j - 1] /\ x = holed[j]
        BY <1>3, <1>4, <3>0, <4>1
      <4>3. x \in DOMAIN t.node /\ x # t.root /\ Parent(t, x) = m
        BY <2>2, <4>1, <4>2, ZenonT(30) DEF Linked, Links, old
      <4>4. x # c
        BY <1>21, <4>1, <4>2
      <4>5. Position(t3, x) = j - 1
        BY <1>18, <4>1, <4>2, <4>3
      <4> QED
        BY <1>16, <2>0, <4>3, <4>4, <4>5
    <3> QED
      BY <2>a, <3>1, <3>2, <3>3
  <2> QED
    BY <2>1, <2>2
<1>23. Linked(u)
  BY <1>15, <1>22 DEF Linked, SameFrame
<1>24. /\ Position(u, c) = i + 1
       /\ \A m \in DOMAIN t.node \ {c} :
            (\A j \in i + 2..Len(old) : old[j] # m) => Position(u, m) = Position(t, m)
  BY <1>16, <1>20
<1> QED
  BY <1>15, <1>16, <1>23, <1>24 DEF values, kids, old, t3, u

LEMMA ChildApart ==
  ASSUME NEW t, Tree(t), Linked(t), NEW n, IsChild(t, n)
  PROVE  LET above == Parent(t, n)
             at == Position(t, n)
         IN /\ n \in DOMAIN t.node /\ above \in DOMAIN t.node /\ above # n
            /\ ~Leaf(t, above) /\ Len(Children(t, above)) = NodeCount(t, above) + 1
            /\ at \in Nat /\ at \in 0..NodeCount(t, above) /\ NodeCount(t, above) \in Nat
            /\ Children(t, above)[at + 1] = n
            /\ n # t.root /\ ~Contains(Children(t, n), n)
<1> DEFINE above == Parent(t, n)
           at == Position(t, n)
<1>1. /\ n \in DOMAIN t.node /\ above \in DOMAIN t.node /\ above # n
      /\ at < Len(Children(t, above)) /\ Children(t, above)[at + 1] = n /\ ChildPerGap(t, above)
  BY DEF IsChild, Child
<1>2. at \in Nat /\ NodeCount(t, above) \in Nat /\ Len(Children(t, above)) \in Nat
  BY <1>1, NodeFields, LenProperties
<1>3. ~Leaf(t, above) /\ Len(Children(t, above)) = NodeCount(t, above) + 1
  BY <1>1, <1>2 DEF ChildPerGap
<1>4. Contains(Children(t, above), n)
  BY <1>1, <1>2 DEF Contains
<1> HIDE DEF above, at
<1>5. n # t.root /\ ~Contains(Children(t, n), n)
  BY <1>1, <1>4, LinkedApart
<1> QED
  BY <1>1, <1>2, <1>3, <1>5 DEF above, at

\* How many values stay in n, whichever way the split is biased.
LEMMA SplitKeeps ==
  ASSUME NEW t, Tree(t), NEW n \in DOMAIN t.node, NodeCount(t, n) >= 1, NEW insert_position
  PROVE  NodeCount(t, n) - SplitCount(t, n, insert_position) - 1 \in 0..NodeCount(t, n) - 1
<1>1. NodeCount(t, n) \in Nat
  BY NodeFields
<1> DEFINE count == NodeCount(t, n)
<1> HIDE DEF count
<1>2. count \in Nat /\ count >= 1
  BY <1>1 DEF count
<1>3. count \div 2 \in 0..count - 1
  BY <1>2
<1>4. SplitCount(t, n, insert_position) \in {count - 1, 0, count \div 2}
  BY DEF SplitCount, count
<1> QED
  BY <1>2, <1>3, <1>4 DEF count

(***************************************************************************)
(* btree_node::split of a child into an empty node, wherever the insertion *)
(* that calls for it is, as rebalance_or_split calls it on a full node     *)
(* whose parent has room.                                                  *)
(***************************************************************************)
THEOREM SplitSplits ==
  ASSUME NEW t, Tree(t), Linked(t), NEW n, NEW dest, CanSplit(t, n, dest), NEW insert_position
  PROVE  LET u == Split(t, n, dest, insert_position)
         IN /\ HasSplit(t, u, n, dest)
            /\ NodeCount(u, n) = NodeCount(t, n) - SplitCount(t, n, insert_position) - 1
<1> DEFINE above == Parent(t, n)
           at == Position(t, n)
           v == Values(t, n)
           keep == Len(v) - SplitCount(t, n, insert_position) - 1
           left == SubSeq(v, 1, keep)
           right == SubSeq(v, keep + 2, Len(v))
           delimiter == v[keep + 1]
           kids == Children(t, n)
           some == SubSeq(kids, keep + 2, Len(kids))
           old == Children(t, above)
           t0 == SetValues(t, dest, right)
           t2 == SetValues(t0, n, left)
           t4 == SetChild(InsertValue(t2, above, at, delimiter), above, at + 1, dest)
           u == IF Leaf(t, n) THEN t4
                ELSE DropChildren(SetChildren(t4, dest, 0, SubSeq(kids, keep + 2, Len(kids))),
                                  n, keep + 1)
<1>1. /\ n \in DOMAIN t.node /\ above \in DOMAIN t.node /\ above # n
      /\ ~Leaf(t, above) /\ Len(old) = NodeCount(t, above) + 1
      /\ at \in Nat /\ at \in 0..NodeCount(t, above) /\ NodeCount(t, above) \in Nat
      /\ old[at + 1] = n /\ n # t.root /\ ~Contains(kids, n)
  BY ChildApart DEF CanSplit
<1>2. /\ dest \in DOMAIN t.node /\ dest # n /\ dest # above /\ dest # t.root
      /\ \A m \in DOMAIN t.node : ~Contains(Children(t, m), dest)
      /\ Leaf(t, dest) = Leaf(t, n) /\ Values(t, dest) = <<>> /\ Children(t, dest) = <<>>
      /\ ChildPerGap(t, n) /\ ChildPerGap(t, above) /\ NodeCount(t, n) >= 1
  BY DEF CanSplit, IsChild
<1>3. v \in Seq(Entry) /\ Len(v) \in Nat /\ kids \in Seq(Nat) /\ old \in Seq(Nat)
  BY <1>1, NodeFields, LenProperties
<1>4. /\ keep \in 0..Len(v) - 1 /\ keep \in 0..Len(v) /\ keep + 1 \in 1..Len(v)
      /\ keep + 1 \in 0..Len(v) /\ (keep + 1) + 1 = keep + 2 /\ (keep + 1) - 1 = keep
      /\ keep \in Nat /\ keep >= 0
  <2>1. keep \in 0..Len(v) - 1
    BY <1>1, <1>2, SplitKeeps DEF NodeCount
  <2> HIDE DEF keep
  <2> QED
    BY <1>3, <2>1
<1>5. Split(t, n, dest, insert_position) = u
  <2>1. NodeCount(t, dest) = 0
    BY <1>2, EmptySeq DEF NodeCount
  <2>2. Leaf(t, n) \/ ~Contains(some, NoNode)
    <3>1. SUFFICES ASSUME ~Leaf(t, n) PROVE ~Contains(some, NoNode)
      OBVIOUS
    <3>2. NoNode \notin DOMAIN t.node /\ Links(t, n) /\ Len(kids) = Len(v) + 1
      BY <1>1, <1>2, <3>1 DEF CanSplit, Linked, ChildPerGap, NodeCount
    <3>3. \A i \in 1..Len(kids) : kids[i] # NoNode
      BY <3>2 DEF Links
    <3> HIDE DEF keep, kids, v
    <3>4. /\ keep + 1 \in 0..Len(kids)
          /\ some = SubSeq(kids, (keep + 1) + 1, Len(kids))
      BY <1>3, <1>4, <3>2
    <3>5. \A i \in 1..Len(some) : some[i] = kids[keep + 1 + i] /\ keep + 1 + i \in 1..Len(kids)
      BY <1>3, <1>4, <3>2, <3>4
    <3> QED
      BY <3>3, <3>5 DEF Contains
  <2>3. Check(t, /\ NodeCount(t, dest) = 0 /\ keep >= 0
                 /\ Leaf(t, n) \/ ~Contains(some, NoNode)) = t
    <3> HIDE DEF keep, some
    <3> QED
      BY <1>4, <2>1, <2>2, CheckPasses
  <2> QED
    BY <2>3 DEF Split
<1> HIDE DEF keep, v
<1>6. left \in Seq(Entry) /\ Len(left) = keep
  BY <1>3, <1>4, Prefix
<1>7. right \in Seq(Entry) /\ Len(right) = Len(v) - (keep + 1)
  <2>1. /\ SubSeq(v, (keep + 1) + 1, Len(v)) \in Seq(Entry)
        /\ Len(SubSeq(v, (keep + 1) + 1, Len(v))) = Len(v) - (keep + 1)
    BY <1>3, <1>4, Suffix
  <2> QED
    BY <1>4, <2>1
<1>8. delimiter \in Entry /\ left \o <<delimiter>> \o right = v
  <2>1. delimiter \in Entry
    BY <1>3, <1>4, ElementOfSeq
  <2>2. SubSeq(v, 1, (keep + 1) - 1) \o <<v[keep + 1]>> \o SubSeq(v, (keep + 1) + 1, Len(v)) = v
    BY <1>3, <1>4, CutAt
  <2> QED
    BY <1>4, <2>1, <2>2
<1> HIDE DEF left, right, delimiter, above, at, old
<1>9. Revalued(t, t0, dest, right)
  BY <1>2, <1>7, SetValuesRevalues
<1> HIDE DEF t0
<1>10. Revalued(t0, t2, n, left)
  BY <1>1, <1>6, <1>9, SetValuesRevalues DEF Revalued, SameFrame
<1> HIDE DEF t2
<1>11. Tree(t2) /\ Linked(t2) /\ SameFrame(t, t2) /\ t2.asserts = t.asserts
  <2>1. Linked(t0)
    BY <1>9, RevaluedLinked
  <2>2. Linked(t2)
    BY <1>10, <2>1, RevaluedLinked
  <2> QED
    BY <1>9, <1>10, <2>2 DEF Revalued, SameFrame
<1>12. \A m \in DOMAIN t.node :
         /\ Values(t2, m) = IF m = n THEN left ELSE IF m = dest THEN right ELSE Values(t, m)
         /\ Children(t2, m) = Children(t, m)
         /\ Parent(t2, m) = Parent(t, m) /\ Position(t2, m) = Position(t, m)
  BY <1>9, <1>10 DEF Revalued, SameFrame
<1>13. DOMAIN t2.node = DOMAIN t.node /\ t2.root = t.root /\ Leaf(t2, above) = Leaf(t, above)
  BY <1>1, <1>11 DEF SameFrame, Leaf
<1>14. /\ Values(t2, above) = Values(t, above) /\ Children(t2, above) = old
       /\ NodeCount(t2, above) = NodeCount(t, above)
  BY <1>1, <1>2, <1>12 DEF NodeCount, old
<1>15. /\ Tree(t4) /\ Linked(t4) /\ SameFrame(t2, t4) /\ t4.asserts = t2.asserts
       /\ \A m \in DOMAIN t2.node :
            /\ Values(t4, m) = IF m = above THEN InsertAt(Values(t2, above), at + 1, delimiter)
                               ELSE Values(t2, m)
            /\ Children(t4, m) = IF m = above THEN InsertAt(Children(t2, above), at + 2, dest)
                                 ELSE Children(t2, m)
            /\ Parent(t4, m) = IF m = dest THEN above ELSE Parent(t2, m)
       /\ Position(t4, dest) = at + 1
       /\ \A m \in DOMAIN t2.node \ {dest} :
            (\A j \in at + 2..Len(Children(t2, above)) : Children(t2, above)[j] # m) =>
               Position(t4, m) = Position(t2, m)
  <2>1. /\ above \in DOMAIN t2.node /\ ~Leaf(t2, above) /\ dest \in DOMAIN t2.node
        /\ dest # above /\ dest # t2.root /\ delimiter \in Entry
    BY <1>1, <1>2, <1>8, <1>13
  <2>2. Len(Children(t2, above)) = NodeCount(t2, above) + 1 /\ at \in 0..NodeCount(t2, above)
    BY <1>1, <1>14
  <2>3. \A m \in DOMAIN t2.node : ~Contains(Children(t2, m), dest)
    BY <1>2, <1>12, <1>13
  <2> QED
    BY <1>11, <2>1, <2>2, <2>3, InsertValueInserts
<1> HIDE DEF t4
<1>16. Tree(t4) /\ Linked(t4) /\ SameFrame(t, t4) /\ t4.asserts = t.asserts
  BY <1>11, <1>15 DEF SameFrame
<1>17. /\ Values(t4, n) = left /\ Values(t4, dest) = right
       /\ Values(t4, above) = InsertAt(Values(t, above), at + 1, delimiter)
       /\ Children(t4, n) = kids /\ Children(t4, dest) = <<>>
       /\ Children(t4, above) = InsertAt(old, at + 2, dest)
       /\ \A m \in DOMAIN t.node \ {n, dest, above} :
            Values(t4, m) = Values(t, m) /\ Children(t4, m) = Children(t, m)
       /\ \A m \in DOMAIN t.node : Parent(t4, m) = IF m = dest THEN above ELSE Parent(t, m)
  BY <1>1, <1>2, <1>12, <1>13, <1>14, <1>15
<1>18. Position(t4, n) = at
  <2>1. \A a, b \in 1..Len(old) : old[a] = old[b] => a = b
    BY <1>1, LinkedApart DEF old, Distinct
  <2>2. at + 1 \in 1..Len(old) /\ \A j \in at + 2..Len(old) : j \in 1..Len(old) /\ j # at + 1
    BY <1>1
  <2>3. \A j \in at + 2..Len(old) : old[j] # n
    BY <1>1, <2>1, <2>2
  <2>4. Position(t2, n) = at
    BY <1>1, <1>12 DEF at
  <2> QED
    BY <1>1, <1>2, <1>13, <1>14, <1>15, <2>3, <2>4
<1>19. /\ Rehung(t4, u, n, dest)
       /\ Children(u, n) \o Children(u, dest) = kids
       /\ Len(Children(u, n)) = IF Leaf(t, n) THEN 0 ELSE Len(left) + 1
       /\ Len(Children(u, dest)) = IF Leaf(t, n) THEN 0 ELSE Len(right) + 1
  <2>1. CASE Leaf(t, n)
    <3>1. kids = <<>>
      BY <1>2, <1>3, <2>1, EmptySeq DEF ChildPerGap
    <3>2. kids \o <<>> = kids /\ Len(kids) = 0
      BY <1>3, <3>1, ConcatEmptySeq, EmptySeq
    <3> HIDE DEF kids
    <3>3. u = t4
      BY <2>1
    <3> QED
      BY <1>16, <1>17, <2>1, <3>1, <3>2, <3>3, NothingRehung
  <2>2. CASE ~Leaf(t, n)
    <3> DEFINE k == keep + 1
               lk == Children(t4, n)
               kept == SubSeq(kids, 1, k)
               rest == SubSeq(kids, k + 1, Len(kids))
               w == DropChildren(SetChildren(t4, dest, 0, SubSeq(lk, k + 1, Len(lk)) \o Children(t4, dest)),
                                 n, k)
    <3>1. Len(kids) = Len(v) + 1
      BY <1>2, <2>2 DEF ChildPerGap, NodeCount, v
    <3>2. k \in 0..Len(kids) /\ k + 1 = keep + 2
      BY <1>3, <1>4, <3>1
    <3>3. kept \in Seq(Nat) /\ Len(kept) = k
      BY <1>3, <3>2, Prefix
    <3>4. rest \in Seq(Nat) /\ Len(rest) = Len(kids) - k
      BY <1>3, <3>2, Suffix
    <3>5. kept \o rest = kids
      BY <1>3, <3>2, CutAfter
    <3>6. rest \o <<>> = rest
      <4> HIDE DEF rest
      <4> QED
        BY <3>4, ConcatEmptySeq
    <3>7. u = w
      <4>1. SubSeq(lk, k + 1, Len(lk)) \o Children(t4, dest) = rest
        BY <1>17, <3>6
      <4>2. w = DropChildren(SetChildren(t4, dest, 0, rest), n, k)
        BY <4>1
      <4>3. rest = SubSeq(kids, keep + 2, Len(kids))
        BY <3>2
      <4> HIDE DEF w, rest, kids
      <4> QED
        BY <2>2, <4>2, <4>3
    <3>8. /\ Rehung(t4, w, n, dest) /\ Children(w, n) = SubSeq(lk, 1, k)
          /\ Children(w, dest) = SubSeq(lk, k + 1, Len(lk)) \o Children(t4, dest)
      <4>1. /\ k \in 0..Len(Children(t4, n))
            /\ n \in DOMAIN t4.node /\ dest \in DOMAIN t4.node /\ n # dest
        BY <1>1, <1>2, <1>16, <1>17, <3>2 DEF SameFrame
      <4> HIDE DEF k
      <4> QED
        BY <1>16, <4>1, ChildrenGoRight
    <3>9. Children(w, n) = kept /\ Children(w, dest) = rest
      BY <1>17, <3>6, <3>8
    <3>10. Len(kept) = Len(left) + 1 /\ Len(rest) = Len(right) + 1
      BY <1>3, <1>4, <1>6, <1>7, <3>1, <3>3, <3>4
    <3> HIDE DEF w, u, kept, rest, kids
    <3> QED
      BY <2>2, <3>5, <3>7, <3>8, <3>9, <3>10
  <2> QED
    BY <2>1, <2>2
<1> HIDE DEF u
<1>20. Tree(u) /\ Linked(u) /\ SameFrame(t, u) /\ u.asserts = t.asserts
  BY <1>16, <1>19 DEF Rehung, SameFrame
<1>21. DOMAIN t4.node = DOMAIN t.node
  BY <1>16 DEF SameFrame
<1>22. /\ \A m \in DOMAIN t.node : Values(u, m) = Values(t4, m)
       /\ \A m \in DOMAIN t.node \ {n, dest} : Children(u, m) = Children(t4, m)
       /\ \A m \in DOMAIN t.node : ~Contains(kids, m) =>
            Parent(u, m) = Parent(t4, m) /\ Position(u, m) = Position(t4, m)
  <2>1. \A m : ~Contains(Children(t4, dest), m)
    BY <1>17, EmptySeq DEF Contains
  <2> QED
    BY <1>17, <1>19, <1>21, <2>1 DEF Rehung
<1>23. /\ Values(u, n) = left /\ Values(u, dest) = right
       /\ Values(u, above) = InsertAt(Values(t, above), at + 1, delimiter)
       /\ Children(u, above) = InsertAt(old, at + 2, dest)
  BY <1>1, <1>2, <1>17, <1>22
<1>24. /\ Parent(u, n) = above /\ Position(u, n) = at
       /\ Parent(u, dest) = above /\ Position(u, dest) = at + 1
  <2>1. ~Contains(kids, n) /\ ~Contains(kids, dest)
    BY <1>1, <1>2
  <2>2. Parent(t4, n) = above /\ Parent(t4, dest) = above
    BY <1>1, <1>2, <1>17 DEF above
  <2> QED
    BY <1>1, <1>2, <1>15, <1>18, <1>22, <2>1, <2>2
<1>25. /\ Len(Children(u, above)) = Len(old) + 1
       /\ Children(u, above)[at + 1] = n /\ Children(u, above)[(at + 1) + 1] = dest
  <2>1. HasPlace(Nat, old, at + 2, dest)
    <3>1. at + 2 \in 1..Len(old) + 1 /\ dest \in Nat
      BY <1>1, <1>2, NodeFields
    <3> QED
      BY <1>3, <3>1 DEF HasPlace
  <2>2. /\ Len(Children(u, above)) = Len(old) + 1
        /\ \A j \in 1..Len(old) + 1 :
             Children(u, above)[j] = IF j < at + 2 THEN old[j] ELSE IF j = at + 2 THEN dest ELSE old[j - 1]
    BY <1>23, <2>1, InsertAtProperties
  <2>3. /\ at + 1 \in 1..Len(old) + 1 /\ at + 1 < at + 2
        /\ (at + 1) + 1 = at + 2 /\ at + 2 \in 1..Len(old) + 1 /\ ~(at + 2 < at + 2)
    BY <1>1
  <2> QED
    BY <1>1, <2>2, <2>3
<1>26. /\ NodeCount(u, above) = NodeCount(t, above) + 1
       /\ Values(u, above)[at + 1] = delimiter
  <2> DEFINE up == Values(t, above)
  <2>1. up \in Seq(Entry) /\ Len(up) \in Nat /\ at + 1 \in 1..Len(up) + 1
    BY <1>1, NodeFields, LenProperties DEF NodeCount
  <2> HIDE DEF up
  <2>2. HasPlace(Entry, up, at + 1, delimiter)
    BY <1>8, <2>1 DEF HasPlace
  <2>3. /\ Len(InsertAt(up, at + 1, delimiter)) = Len(up) + 1
        /\ \A j \in 1..Len(up) + 1 :
             InsertAt(up, at + 1, delimiter)[j]
               = IF j < at + 1 THEN up[j] ELSE IF j = at + 1 THEN delimiter ELSE up[j - 1]
    BY <2>2, InsertAtProperties
  <2>4. InsertAt(up, at + 1, delimiter)[at + 1] = delimiter
    BY <1>1, <2>1, <2>3
  <2> QED
    BY <1>23, <2>3, <2>4 DEF NodeCount, up
<1>27. Delimiter(u, n) = delimiter
  BY <1>24, <1>26 DEF Delimiter
<1>28. ChildPerGap(u, n) /\ ChildPerGap(u, dest) /\ ChildPerGap(u, above)
  <2>1. /\ Leaf(u, n) = Leaf(t, n) /\ Leaf(u, dest) = Leaf(t, n) /\ Leaf(u, above) = Leaf(t, above)
    BY <1>1, <1>2, <1>20 DEF SameFrame, Leaf
  <2>2. ChildPerGap(u, n) /\ ChildPerGap(u, dest)
    BY <1>19, <1>23, <2>1 DEF ChildPerGap, NodeCount
  <2> QED
    BY <1>1, <1>25, <1>26, <2>1, <2>2 DEF ChildPerGap
<1>29. Neighbours(u, n, dest)
  <2>1. DOMAIN u.node = DOMAIN t.node /\ Leaf(u, n) = Leaf(u, dest)
    BY <1>1, <1>2, <1>20 DEF SameFrame, Leaf
  <2>2. at < Len(Children(u, above)) /\ at + 1 < Len(Children(u, above))
    BY <1>1, <1>25
  <2>3. IsChild(u, n) /\ IsChild(u, dest)
    BY <1>1, <1>2, <1>24, <1>25, <1>28, <2>1, <2>2 DEF IsChild, Child
  <2> QED
    BY <1>24, <2>1, <2>3 DEF Neighbours, Siblings
<1>30. Around(u, n, dest) = v
  BY <1>8, <1>23, <1>27 DEF Around
<1>31. NodeCount(u, n) < NodeCount(t, n) /\ NodeCount(u, dest) < NodeCount(t, n)
  <2>1. NodeCount(u, n) = keep /\ NodeCount(u, dest) = Len(v) - (keep + 1) /\ NodeCount(t, n) = Len(v)
    BY <1>6, <1>7, <1>23 DEF NodeCount, v
  <2> QED
    BY <1>3, <1>4, <2>1
<1>32. Leftmost(u) = Leftmost(t)
  <2>1. t.root \in DOMAIN t.node => Parent(u, t.root) = Parent(t, t.root)
    BY <1>1, <1>2, <1>17, <1>22, LinkedApart
  <2> QED
    BY <1>20, <2>1 DEF Leftmost, Tree, SameFrame
<1>33. SameElsewhere(t, u, {n, dest, above})
  BY <1>17, <1>22 DEF SameElsewhere
<1>34. HasSplit(t, u, n, dest)
  BY <1>19, <1>20, <1>23, <1>24, <1>27, <1>29, <1>30, <1>31, <1>32, <1>33
     DEF HasSplit, above, at, old, v
<1>35. NodeCount(u, n) = NodeCount(t, n) - SplitCount(t, n, insert_position) - 1
  BY <1>6, <1>23 DEF NodeCount, keep, v
<1> QED
  BY <1>5, <1>34, <1>35

-------------------------------------------------------------------------------
\* Swapping.

(***************************************************************************)
(* btree_node::swap of two nodes of one level, whatever they hold: as the  *)
(* code swaps the old root with its new left child, and an only child with *)
(* the root above it.  The nodes stay where they are in the tree.          *)
(***************************************************************************)
THEOREM SwapSwaps ==
  ASSUME NEW t, Tree(t), Linked(t), NEW x \in DOMAIN t.node, NEW y \in DOMAIN t.node, x # y,
         Leaf(t, x) = Leaf(t, y)
  PROVE  Swapped(t, Swap(t, x, y), x, y)
<1> DEFINE xk == Children(t, x)
           yk == Children(t, y)
           newx == [t.node[x] EXCEPT !.values = Values(t, y), !.children = yk]
           newy == [t.node[y] EXCEPT !.values = Values(t, x), !.children = xk]
           node == [[t.node EXCEPT ![x] = newx] EXCEPT ![y] = newy]
           final(m) == IF m \in {xk[i] : i \in DOMAIN xk} THEN [node[m] EXCEPT !.parent = y]
                       ELSE IF m \in {yk[i] : i \in DOMAIN yk} THEN [node[m] EXCEPT !.parent = x]
                       ELSE node[m]
           t1 == [t EXCEPT !.node = node]
           u == Swap(t, x, y)
<1>1. /\ xk \in Seq(Nat) /\ yk \in Seq(Nat) /\ Values(t, x) \in Seq(Entry) /\ Values(t, y) \in Seq(Entry)
      /\ x \in Nat /\ y \in Nat
  BY NodeFields
<1>2. t.node \in [DOMAIN t.node -> Node] /\ t.node[x] \in Node /\ t.node[y] \in Node
  BY DEF Tree
<1>3. \A m : /\ m \in {xk[i] : i \in DOMAIN xk} <=> Contains(xk, m)
             /\ m \in {yk[i] : i \in DOMAIN yk} <=> Contains(yk, m)
  <2>1. DOMAIN xk = 1..Len(xk) /\ DOMAIN yk = 1..Len(yk)
    BY <1>1, LenProperties
  <2> HIDE DEF xk, yk
  <2> QED
    BY <2>1 DEF Contains
<1>4. u = [t1 EXCEPT !.node = [m \in DOMAIN t.node |-> final(m)]]
  <2>1. Check(t, Leaf(t, x) = Leaf(t, y)) = t
    BY CheckPasses
  <2>2. [t EXCEPT !.node[x].values = Values(t, y), !.node[x].children = yk,
                  !.node[y].values = Values(t, x), !.node[y].children = xk] = t1
    <3> DEFINE xv == Values(t, x)
               yv == Values(t, y)
    <3> HIDE DEF xv, yv, xk, yk
    <3>1. [t EXCEPT !.node[x].values = yv, !.node[x].children = yk,
                    !.node[y].values = xv, !.node[y].children = xk]
            = [t EXCEPT !.node = [[t.node EXCEPT ![x] = [t.node[x] EXCEPT !.values = yv, !.children = yk]]
                                    EXCEPT ![y] = [t.node[y] EXCEPT !.values = xv, !.children = xk]]]
      BY <1>2, ZenonT(30)
    <3> QED
      BY <3>1 DEF xv, yv
  <2>3. t1.node = node
    <3> HIDE DEF node
    <3> QED
      BY DEF Tree
  <2>4. u = [t1 EXCEPT !.node = [m \in DOMAIN t.node |->
               IF m \in {xk[i] : i \in DOMAIN xk} THEN [t1.node[m] EXCEPT !.parent = y]
               ELSE IF m \in {yk[i] : i \in DOMAIN yk} THEN [t1.node[m] EXCEPT !.parent = x]
               ELSE t1.node[m]]]
    <3> DEFINE checked == Check(t, Leaf(t, x) = Leaf(t, y))
               exchanged == [checked EXCEPT !.node[x].values = Values(t, y), !.node[x].children = yk,
                                            !.node[y].values = Values(t, x), !.node[y].children = xk]
    <3>1. u = [exchanged EXCEPT !.node = [m \in DOMAIN t.node |->
                 IF m \in {xk[i] : i \in DOMAIN xk} THEN [exchanged.node[m] EXCEPT !.parent = y]
                 ELSE IF m \in {yk[i] : i \in DOMAIN yk} THEN [exchanged.node[m] EXCEPT !.parent = x]
                 ELSE exchanged.node[m]]]
      BY DEF Swap
    <3>2. exchanged = t1
      BY <2>1, <2>2
    <3> HIDE DEF u, t1, exchanged
    <3> QED
      BY <3>1, <3>2
  <2> HIDE DEF u, t1, node
  <2> QED
    BY <2>3, <2>4
<1>5. /\ u.node = [m \in DOMAIN t.node |-> final(m)]
      /\ u.root = t.root /\ u.rightmost = t.rightmost /\ u.size = t.size /\ u.asserts = t.asserts
      /\ u = [node |-> u.node, root |-> u.root, rightmost |-> u.rightmost, size |-> u.size,
              asserts |-> u.asserts]
  <2> HIDE DEF u, final, node
  <2> QED
    BY <1>4 DEF Tree
<1> HIDE DEF u, xk, yk
<1>6. /\ newx \in Node
      /\ newx.fields = t.node[x].fields /\ newx.max_count = t.node[x].max_count
      /\ newx.parent = t.node[x].parent /\ newx.position = t.node[x].position
      /\ newx.values = Values(t, y) /\ newx.children = yk
  BY <1>1, <1>2 DEF Node
<1>7. /\ newy \in Node
      /\ newy.fields = t.node[y].fields /\ newy.max_count = t.node[y].max_count
      /\ newy.parent = t.node[y].parent /\ newy.position = t.node[y].position
      /\ newy.values = Values(t, x) /\ newy.children = xk
  BY <1>1, <1>2 DEF Node
<1> HIDE DEF newx, newy
<1>8. /\ node \in [DOMAIN t.node -> Node]
      /\ \A m \in DOMAIN t.node :
           node[m] = IF m = y THEN newy ELSE IF m = x THEN newx ELSE t.node[m]
  BY <1>2, <1>6, <1>7
<1> HIDE DEF node
<1>9. ASSUME NEW m \in DOMAIN t.node
      PROVE  /\ final(m) \in Node
             /\ final(m).fields = t.node[m].fields /\ final(m).max_count = t.node[m].max_count
             /\ final(m).position = t.node[m].position
             /\ final(m).values = IF m = y THEN Values(t, x) ELSE IF m = x THEN Values(t, y)
                                  ELSE t.node[m].values
             /\ final(m).children = IF m = y THEN xk ELSE IF m = x THEN yk ELSE t.node[m].children
             /\ final(m).parent = IF Contains(xk, m) THEN y ELSE IF Contains(yk, m) THEN x
                                  ELSE t.node[m].parent
  <2>1. /\ node[m] \in Node
        /\ node[m].fields = t.node[m].fields /\ node[m].max_count = t.node[m].max_count
        /\ node[m].position = t.node[m].position /\ node[m].parent = t.node[m].parent
        /\ node[m].values = IF m = y THEN Values(t, x) ELSE IF m = x THEN Values(t, y)
                            ELSE t.node[m].values
        /\ node[m].children = IF m = y THEN xk ELSE IF m = x THEN yk ELSE t.node[m].children
    BY <1>6, <1>7, <1>8
  <2>2. final(m) = IF Contains(xk, m) THEN [node[m] EXCEPT !.parent = y]
                   ELSE IF Contains(yk, m) THEN [node[m] EXCEPT !.parent = x] ELSE node[m]
    BY <1>3
  <2> HIDE DEF final
  <2>3. CASE Contains(xk, m)
    <3>1. final(m) = [node[m] EXCEPT !.parent = y]
      BY <2>2, <2>3
    <3>2. /\ final(m) \in Node /\ final(m).parent = y
          /\ final(m).fields = node[m].fields /\ final(m).max_count = node[m].max_count
          /\ final(m).position = node[m].position /\ final(m).values = node[m].values
          /\ final(m).children = node[m].children
      BY <1>1, <2>1, <3>1 DEF Node
    <3> QED
      BY <2>1, <2>3, <3>2
  <2>4. CASE ~Contains(xk, m) /\ Contains(yk, m)
    <3>1. final(m) = [node[m] EXCEPT !.parent = x]
      BY <2>2, <2>4
    <3>2. /\ final(m) \in Node /\ final(m).parent = x
          /\ final(m).fields = node[m].fields /\ final(m).max_count = node[m].max_count
          /\ final(m).position = node[m].position /\ final(m).values = node[m].values
          /\ final(m).children = node[m].children
      BY <1>1, <2>1, <3>1 DEF Node
    <3> QED
      BY <2>1, <2>4, <3>2
  <2>5. CASE ~Contains(xk, m) /\ ~Contains(yk, m)
    BY <2>1, <2>2, <2>5
  <2> QED
    BY <2>3, <2>4, <2>5
<1> HIDE DEF final
<1>10. Tree(u) /\ SameFrame(t, u)
  BY <1>5, <1>9 DEF Tree, SameFrame, MaxCount
<1>11. \A m \in DOMAIN t.node :
         Values(u, m) = IF m = y THEN Values(t, x) ELSE IF m = x THEN Values(t, y) ELSE Values(t, m)
  BY <1>5, <1>9 DEF Values
<1>12. \A m \in DOMAIN t.node :
         Children(u, m) = IF m = y THEN xk ELSE IF m = x THEN yk ELSE Children(t, m)
  BY <1>5, <1>9 DEF Children
<1>13. \A m \in DOMAIN t.node :
         /\ Parent(u, m) = IF Contains(xk, m) THEN y ELSE IF Contains(yk, m) THEN x ELSE Parent(t, m)
         /\ Position(u, m) = Position(t, m)
  BY <1>5, <1>9 DEF Parent, Position
<1>14. ASSUME NEW m \in DOMAIN t.node PROVE Links(u, m)
  <2> SUFFICES ASSUME NEW j \in 1..Len(Children(u, m))
               PROVE  LET c == Children(u, m)[j]
                      IN c \in DOMAIN u.node /\ c # u.root /\ Parent(u, c) = m /\ Position(u, c) = j - 1
    BY DEF Links
  <2> DEFINE c == Children(u, m)[j]
             from == IF m = y THEN x ELSE IF m = x THEN y ELSE m
  <2>1. DOMAIN u.node = DOMAIN t.node /\ u.root = t.root
    BY <1>10 DEF SameFrame
  <2>2. from \in DOMAIN t.node /\ Children(u, m) = Children(t, from)
    BY <1>12 DEF xk, yk
  <2>3. /\ Contains(xk, c) => from = x
        /\ Contains(yk, c) => from = y
        /\ from = x => Contains(xk, c)
        /\ from = y => Contains(yk, c)
    <3>1. Contains(Children(t, from), c)
      BY <2>2 DEF Contains
    <3> HIDE DEF from, c
    <3>2. Contains(Children(t, x), c) => from = x
      BY <2>2, <3>1, LinkedApart
    <3>3. Contains(Children(t, y), c) => from = y
      BY <2>2, <3>1, LinkedApart
    <3> QED
      BY <3>1, <3>2, <3>3 DEF xk, yk
  <2>4. c \in DOMAIN t.node /\ c # t.root /\ Parent(t, c) = from /\ Position(t, c) = j - 1
    BY <2>2 DEF Linked, Links
  <2> QED
    BY <1>13, <2>1, <2>3, <2>4
<1>15. Linked(u)
  BY <1>10, <1>14 DEF Linked, SameFrame
<1>16. Leftmost(u) = Leftmost(t)
  <2>1. t.root \in DOMAIN t.node => Parent(u, t.root) = Parent(t, t.root)
    BY <1>13, LinkedApart DEF xk, yk
  <2> QED
    BY <1>10, <2>1 DEF Leftmost, Tree, SameFrame
<1>17. SameElsewhere(t, u, {x, y})
  BY <1>11, <1>12 DEF SameElsewhere
<1> QED
  BY <1>5, <1>10, <1>11, <1>12, <1>13, <1>15, <1>16, <1>17 DEF Swapped, u, xk, yk

-------------------------------------------------------------------------------
\* Every call.

LEMMA LeastOf ==
  ASSUME NEW T \in SUBSET Nat, T # {}
  PROVE  \E x \in T : \A y \in T : x <= y
<1> DEFINE R == OpToRel(<, Nat)
<1>1. IsWellFoundedOn(R, Nat)
  BY NatLessThanWellFounded
<1>2. \A x, y \in Nat : x < y => <<x, y>> \in R
  BY DEF OpToRel
<1> HIDE DEF R
<1>3. PICK z \in T : \A y \in T : ~(<<y, z>> \in R)
  BY <1>1, WFMin
<1>4. ASSUME NEW y \in T PROVE z <= y
  <2>1. y \in Nat /\ z \in Nat
    OBVIOUS
  <2>2. ~(<<y, z>> \in R)
    BY <1>3
  <2>3. ~(y < z)
    BY <1>2, <2>1, <2>2
  <2> QED
    BY <2>1, <2>3
<1> QED
  BY <1>4

\* The allocator has an address that is not in use.
LEMMA FreshAddressIsFresh ==
  ASSUME NEW t, Tree(t), IsFiniteSet(DOMAIN t.node)
  PROVE  FreshAddress(t) \in Nat /\ FreshAddress(t) # NoNode /\ FreshAddress(t) \notin DOMAIN t.node
<1> DEFINE used == DOMAIN t.node
           bound == Cardinality(used) + 1
           free == (1..bound) \ used
<1>1. bound \in Nat
  BY FS_CardinalityType
<1>2. free # {}
  <2> SUFFICES ASSUME 1..bound \subseteq used
               PROVE  FALSE
    OBVIOUS
  <2>1. Cardinality(1..bound) <= Cardinality(used)
    BY FS_Subset
  <2>2. Cardinality(1..bound) = bound
    <3> HIDE DEF bound
    <3>1. 1 \in Int /\ bound \in Int
      BY <1>1
    <3>2. Cardinality(1..bound) = IF 1 > bound THEN 0 ELSE bound - 1 + 1
      BY <3>1, FS_Interval
    <3>3. bound >= 1
      <4>1. Cardinality(used) \in Nat
        BY FS_CardinalityType
      <4> QED
        BY <4>1 DEF bound
    <3> QED
      BY <1>1, <3>2, <3>3
  <2> QED
    BY <1>1, <2>1, <2>2, FS_CardinalityType
<1>3. free \in SUBSET Nat
  BY <1>1
<1> HIDE DEF free
<1>4. PICK n \in free : \A y \in free : n <= y
  BY <1>2, <1>3, LeastOf
<1>5. n \in 1..bound /\ n \notin used /\ \A m \in 1..(n - 1) : m \in used
  <2>1. n \in 1..bound /\ n \notin used /\ n \in Nat
    BY <1>3, <1>4 DEF free
  <2>2. \A m \in 1..(n - 1) : m \in 1..bound /\ ~(n <= m)
    BY <1>1, <2>1
  <2>3. \A m \in 1..(n - 1) : m \notin free
    BY <1>4, <2>2
  <2> QED
    BY <2>1, <2>2, <2>3 DEF free
<1>6. \E a \in 1..bound : a \notin used /\ \A m \in 1..(a - 1) : m \in used
  BY <1>5
<1>7. FreshAddress(t) \in 1..bound /\ FreshAddress(t) \notin used
  <2>1. FreshAddress(t) = CHOOSE a \in 1..bound : a \notin used /\ \A m \in 1..(a - 1) : m \in used
    BY DEF FreshAddress
  <2> HIDE DEF bound, used
  <2> QED
    BY <1>6, <2>1
<1> QED
  BY <1>1, <1>7 DEF NoNode

\* Allocating a node adds it to the tree and leaves the others as they are.
Added(t, u, a, node) ==
  /\ Tree(u) /\ IsFiniteSet(DOMAIN u.node)
  /\ a \in Nat /\ a # NoNode /\ a \notin DOMAIN t.node /\ a # t.root
  /\ DOMAIN u.node = DOMAIN t.node \cup {a}
  /\ u.node[a] = node /\ \A m \in DOMAIN t.node : u.node[m] = t.node[m]
  /\ u.root = t.root /\ u.rightmost = t.rightmost /\ u.size = t.size /\ u.asserts = t.asserts

LEMMA AllocateAdds ==
  ASSUME NEW t, Tree(t), IsFiniteSet(DOMAIN t.node), NEW node \in Node
  PROVE  Added(t, Allocate(t, node), FreshAddress(t), node)
<1> DEFINE a == FreshAddress(t)
           u == Allocate(t, node)
<1>1. a \in Nat /\ a # NoNode /\ a \notin DOMAIN t.node
  BY FreshAddressIsFresh
<1>2. t.node \in [DOMAIN t.node -> Node]
  BY DEF Tree
<1> HIDE DEF a
<1>3. /\ u.node = [m \in DOMAIN t.node \cup {a} |-> IF m = a THEN node ELSE t.node[m]]
      /\ u.root = t.root /\ u.rightmost = t.rightmost /\ u.size = t.size /\ u.asserts = t.asserts
      /\ u = [node |-> u.node, root |-> u.root, rightmost |-> u.rightmost, size |-> u.size,
              asserts |-> u.asserts]
  <2>1. u = [t EXCEPT !.node = [m \in DOMAIN t.node \cup {a} |-> IF m = a THEN node ELSE t.node[m]]]
    BY DEF Allocate, a
  <2> HIDE DEF u
  <2> QED
    BY <2>1 DEF Tree
<1> HIDE DEF u
<1>4. /\ DOMAIN u.node = DOMAIN t.node \cup {a}
      /\ u.node[a] = node
      /\ \A m \in DOMAIN t.node : u.node[m] = t.node[m]
      /\ u.node = [m \in DOMAIN u.node |-> u.node[m]]
  BY <1>1, <1>3
<1>5. Tree(u)
  <2>1. \A m \in DOMAIN u.node : u.node[m] \in Node
    BY <1>2, <1>4
  <2>2. u.node \in [DOMAIN u.node -> Node]
    BY <1>4, <2>1
  <2> QED
    BY <1>1, <1>3, <1>4, <2>2 DEF Tree
<1>6. IsFiniteSet(DOMAIN u.node)
  BY <1>4, FS_AddElement
<1>7. a # t.root
  BY <1>1 DEF Tree
<1> QED
  BY <1>1, <1>3, <1>4, <1>5, <1>6, <1>7 DEF Added, u, a

\* The new node's fields, and that the fields of the others stay.
LEMMA AddedFields ==
  ASSUME NEW t, NEW u, NEW a, NEW node, Added(t, u, a, node)
  PROVE  /\ \A m \in DOMAIN t.node :
              /\ m \in DOMAIN u.node /\ m # a /\ u.node[m].fields = t.node[m].fields
              /\ Values(u, m) = Values(t, m) /\ Children(u, m) = Children(t, m)
              /\ Parent(u, m) = Parent(t, m) /\ Position(u, m) = Position(t, m)
              /\ Leaf(u, m) = Leaf(t, m) /\ MaxCount(u, m) = MaxCount(t, m)
              /\ NodeCount(u, m) = NodeCount(t, m)
         /\ a \in DOMAIN u.node
         /\ Values(u, a) = node.values /\ Children(u, a) = node.children
         /\ Parent(u, a) = node.parent /\ Position(u, a) = node.position
         /\ Leaf(u, a) = (node.fields = "leaf") /\ MaxCount(u, a) = node.max_count
  BY DEF Added, Values, Children, Parent, Position, Leaf, MaxCount, NodeCount

\* An added node without children is nobody's child and leaves the links right.
LEMMA AddedApart ==
  ASSUME NEW t, NEW u, NEW a, NEW node, Added(t, u, a, node), Linked(t), node.children = <<>>
  PROVE  Linked(u) /\ \A m \in DOMAIN u.node : ~Contains(Children(u, m), a)
<1>1. /\ DOMAIN u.node = DOMAIN t.node \cup {a} /\ u.root = t.root /\ a \notin DOMAIN t.node
      /\ Children(u, a) = <<>>
      /\ \A m \in DOMAIN t.node :
           /\ Children(u, m) = Children(t, m)
           /\ Parent(u, m) = Parent(t, m) /\ Position(u, m) = Position(t, m)
  <2>1. DOMAIN u.node = DOMAIN t.node \cup {a} /\ u.root = t.root /\ a \notin DOMAIN t.node
    BY DEF Added
  <2> QED
    BY <2>1, AddedFields
<1>2. ASSUME NEW m \in DOMAIN u.node, NEW i \in 1..Len(Children(u, m))
      PROVE  LET c == Children(u, m)[i]
             IN c \in DOMAIN t.node /\ c # t.root /\ Parent(u, c) = m /\ Position(u, c) = i - 1
  <2>1. m \in DOMAIN t.node
    BY <1>1, <1>2, EmptySeq
  <2> QED
    BY <1>1, <2>1 DEF Linked, Links
<1>3. Linked(u)
  BY <1>1, <1>2 DEF Linked, Links
<1> QED
  BY <1>1, <1>2, <1>3 DEF Contains

\* A child can be split into an empty node of its level just allocated.
LEMMA AllocatedCanSplit ==
  ASSUME NEW t, Tree(t), Linked(t), IsFiniteSet(DOMAIN t.node),
         NEW n, IsChild(t, n), NodeCount(t, n) >= 1,
         NEW empty \in Node, empty.values = <<>>, empty.children = <<>>,
         Leaf(t, n) = (empty.fields = "leaf"), NoNode \notin DOMAIN t.node
  PROVE  LET u == Allocate(t, empty)
         IN Tree(u) /\ Linked(u) /\ CanSplit(u, n, FreshAddress(t))
<1> DEFINE dest == FreshAddress(t)
           u == Allocate(t, empty)
<1>1. Added(t, u, dest, empty)
  BY AllocateAdds
<1> HIDE DEF dest, u
<1>2. Linked(u) /\ \A m \in DOMAIN u.node : ~Contains(Children(u, m), dest)
  BY <1>1, AddedApart
<1>3. n \in DOMAIN t.node /\ Parent(t, n) \in DOMAIN t.node
  BY DEF IsChild
<1>4. /\ \A m \in {n, Parent(t, n)} :
           /\ m \in DOMAIN u.node /\ m # dest /\ Children(u, m) = Children(t, m)
           /\ NodeCount(u, m) = NodeCount(t, m) /\ Leaf(u, m) = Leaf(t, m)
      /\ Parent(u, n) = Parent(t, n) /\ Position(u, n) = Position(t, n)
      /\ dest \in DOMAIN u.node /\ dest # u.root
      /\ Values(u, dest) = <<>> /\ Children(u, dest) = <<>> /\ Leaf(u, dest) = Leaf(t, n)
  <2>1. dest # u.root
    BY <1>1 DEF Added
  <2> QED
    BY <1>1, <1>3, <2>1, AddedFields
<1>5. IsChild(u, n)
  BY <1>3, <1>4 DEF IsChild, Child, ChildPerGap
<1>6. CanSplit(u, n, dest)
  <2>1. NoNode \notin DOMAIN u.node
    BY <1>1 DEF Added
  <2> QED
    BY <1>2, <1>4, <1>5, <2>1 DEF CanSplit
<1> QED
  BY <1>1, <1>2, <1>6 DEF u, dest, Added

(***************************************************************************)
(* Whatever the shape of a tree whose links are right, each of the methods *)
(* that move values and children between its nodes does to it what it      *)
(* promises: what the run of BTreeShapes checks on the trees that calls    *)
(* make, for every tree, every width of node and every key.                *)
(***************************************************************************)
THEOREM MethodsKeepTrees ==
  ASSUME NEW t, Tree(t), Linked(t), IsFiniteSet(DOMAIN t.node), NoNode \notin DOMAIN t.node
  PROVE  MethodsKeep(t)
<1>1. ASSUME NEW l \in DOMAIN t.node, NEW r \in DOMAIN t.node, Neighbours(t, l, r)
      PROVE  /\ Merged(t, Merge(t, l, r), l, r)
             /\ NodeCount(t, r) >= NodeCount(t, l) /\ NodeCount(t, r) <= MaxCount(t, r) =>
                  \A to_move \in 1..NodeCount(t, r) :
                    Rebalanced(t, RebalanceRightToLeft(t, l, r, to_move), l, r, to_move)
             /\ NodeCount(t, l) >= NodeCount(t, r) =>
                  \A to_move \in 1..NodeCount(t, l) :
                    Rebalanced(t, RebalanceLeftToRight(t, l, r, to_move), l, r, 0 - to_move)
  BY <1>1, MergeMerges, RightToLeftRebalances, LeftToRightRebalances
<1>2. ASSUME NEW n \in DOMAIN t.node, IsChild(t, n), NodeCount(t, n) >= 1,
             NEW insert_position \in 0..NodeCount(t, n)
      PROVE  LET dest == FreshAddress(t)
                 u == Allocate(t, EmptyLike(t, n))
             IN HasSplit(u, Split(u, n, dest, insert_position), n, dest)
  <2> DEFINE dest == FreshAddress(t)
             u == Allocate(t, EmptyLike(t, n))
  <2>1. Tree(u) /\ Linked(u) /\ CanSplit(u, n, dest)
    <3> DEFINE empty == EmptyLike(t, n)
    <3>1. t.node[n] \in Node
      BY DEF Tree
    <3>2. /\ empty \in Node /\ empty.values = <<>> /\ empty.children = <<>>
          /\ Leaf(t, n) = (empty.fields = "leaf")
      BY <3>1, EmptySeq DEF Node, EmptyLike, Leaf
    <3> HIDE DEF empty
    <3>3. LET w == Allocate(t, empty)
          IN Tree(w) /\ Linked(w) /\ CanSplit(w, n, FreshAddress(t))
      BY <1>2, <3>2, AllocatedCanSplit
    <3> QED
      BY <3>3 DEF empty
  <2> HIDE DEF u, dest
  <2>2. HasSplit(u, Split(u, n, dest, insert_position), n, dest)
    BY <2>1, SplitSplits
  <2> QED
    BY <2>2 DEF u, dest
<1>3. ASSUME NEW x \in DOMAIN t.node, NEW y \in DOMAIN t.node, x # y, Leaf(t, x) = Leaf(t, y)
      PROVE  Swapped(t, Swap(t, x, y), x, y)
  BY <1>3, SwapSwaps
<1> QED
  BY <1>1, <1>2, <1>3 DEF MethodsKeep
===============================================================================
