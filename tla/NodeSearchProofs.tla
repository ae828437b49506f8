--------------------------- MODULE NodeSearchProofs ---------------------------
(***************************************************************************)
(* Proofs that the searches within a node find the bound they are asked    *)
(* for, in a node of any size with any keys in order.                      *)
(***************************************************************************)
EXTENDS NodeSearch, SequenceTheorems, TLAPS

\* The keys of a node are integers in order.
LEMMA KeysOfNode ==
  ASSUME keys \in NodeKeys, k \in Keys
  PROVE  /\ count \in Nat /\ k \in Int
         /\ \A i \in 0..count - 1 : Key(i) \in Int
         /\ \A i, j \in 0..count - 1 : i <= j => Key(i) <= Key(j)
<1>1. keys \in Seq(Keys)
  BY SeqDef, kNodeValuesAssumption DEF NodeKeys
<1>2. count \in Nat /\ k \in Int
  BY <1>1, KeysAssumption DEF count
<1>3. ASSUME NEW i \in 0..count - 1 PROVE i + 1 \in 1..Len(keys) /\ Key(i) \in Int
  <2>1. i + 1 \in 1..Len(keys)
    BY <1>2 DEF count
  <2>2. keys[i + 1] \in Keys
    BY <1>1, <2>1
  <2>3. QED
    BY <2>1, <2>2, KeysAssumption DEF Key
<1>4. ASSUME NEW i \in 0..count - 1, NEW j \in 0..count - 1, i <= j
      PROVE  Key(i) <= Key(j)
  <2>1. CASE i = j
    BY <1>3, <2>1
  <2>2. CASE i < j
    <3>1. i + 1 \in 1..Len(keys) /\ j + 1 \in 1..Len(keys) /\ i + 1 < j + 1
      BY <1>2, <1>3, <2>2
    <3>2. QED
      BY <3>1 DEF NodeKeys, InOrder, Key
  <2>3. QED
    BY <1>4, <2>1, <2>2
<1>5. QED
  BY <1>2, <1>3, <1>4

\* A compare-to function compares as the less-than it is made into does.
LEMMA ComparesAlike ==
  ASSUME NEW x \in Int, NEW y \in Int
  PROVE  /\ Less(x, y) <=> x < y
         /\ Compared(x, y) = 0 <=> x = y
<1>1. Compared(x, y) < 0 <=> x < y
  BY DEF Compared
<1>2. Compared(x, y) = 0 <=> x = y
  BY DEF Compared
<1>3. Less(x, y) <=> x < y
  BY <1>1, Zenon DEF Less
<1>4. QED
  BY <1>2, <1>3

\* What the loops ask of a key, in terms of the order of the keys.
LEMMA BeforeInOrder ==
  ASSUME k \in Int, NEW x \in Int
  PROVE  Before(x) <=> IF bound = "upper" THEN ~(k < x) ELSE x < k
BY ComparesAlike DEF Before

LEMMA FoundInOrder ==
  ASSUME k \in Int, NEW i, Key(i) \in Int
  PROVE  Found(i) = IF ThreeWay /\ Key(i) = k THEN kExactMatch ELSE 0
BY ComparesAlike DEF Found

\* What comes before the bound is a prefix of the node.
LEMMA BeforeIsPrefix ==
  ASSUME keys \in NodeKeys, k \in Keys,
         NEW i \in 0..count - 1, NEW j \in 0..count - 1, i <= j
  PROVE  /\ Before(Key(j)) => Before(Key(i))
         /\ ~Before(Key(i)) => ~Before(Key(j))
<1>1. k \in Int /\ Key(i) \in Int /\ Key(j) \in Int /\ Key(i) <= Key(j)
  BY KeysOfNode
<1>2. /\ Before(Key(i)) <=> IF bound = "upper" THEN ~(k < Key(i)) ELSE Key(i) < k
      /\ Before(Key(j)) <=> IF bound = "upper" THEN ~(k < Key(j)) ELSE Key(j) < k
  BY <1>1, BeforeInOrder
<1>3. QED
  BY <1>1, <1>2

LEMMA KExactMatchIsNot0 == kExactMatch # 0
PROOF BY DEF kExactMatch

LEMMA InitLoopInv == Init => LoopInv
<1> SUFFICES ASSUME Init PROVE LoopInv
  OBVIOUS
<1>1. count \in Nat
  BY KeysOfNode DEF Init
<1>2. Bounds
  <2>1. s = 0 /\ e = count
    BY DEF Init
  <2>2. s \in 0..count /\ e \in s..count
    BY <1>1, <2>1
  <2>3. QED
    BY <2>1, <2>2, Zenon DEF Init, Bounds
<1>3. limit = count /\ s = 0 /\ match = 0
  BY DEF Init, limit
<1>4. LeftDecided /\ RightDecided /\ MatchAtLimit /\ NoMatchMissed
  BY <1>1, <1>3, KExactMatchIsNot0 DEF LeftDecided, RightDecided, MatchAtLimit, NoMatchMissed
<1>5. QED
  BY <1>2, <1>4 DEF LoopInv

\* The middle of what is left is within it.
LEMMA Middle ==
  ASSUME NEW a \in Int, NEW b \in Int, a < b
  PROVE  (a + b) \div 2 \in a..b - 1
OBVIOUS

\* Only s, e, match and pc change, and with them only limit.
LEMMA Unchanged ==
  ASSUME UNCHANGED parameters
  PROVE  /\ keys' = keys /\ k' = k /\ bound' = bound /\ count' = count
         /\ Linear' = Linear /\ ThreeWay' = ThreeWay
         /\ \A i : Key(i)' = Key(i)
         /\ \A x : Before(x)' = Before(x)
BY DEF parameters, count, Key, Linear, ThreeWay, Before, Less, Compared

-------------------------------------------------------------------------------
\* A turn of a linear search.
LEMMA LinearStepLoopInv == LoopInv /\ LinearStep => LoopInv'
<1> SUFFICES ASSUME LoopInv, LinearStep PROVE LoopInv'
  OBVIOUS
<1>1. /\ count \in Nat /\ k \in Int
      /\ \A i \in 0..count - 1 : Key(i) \in Int
      /\ Bounds /\ LeftDecided /\ RightDecided /\ MatchAtLimit /\ NoMatchMissed
      /\ keys \in NodeKeys /\ k \in Keys
  BY KeysOfNode DEF LoopInv, Bounds
<1>2. /\ pc = "loop" /\ Linear /\ e = count /\ s \in 0..count - 1 /\ limit = count
      /\ match = 0
  <2>1. pc = "loop" /\ Linear /\ s < e /\ e = count
    BY <1>1 DEF LinearStep, Bounds
  <2>2. s \in 0..count - 1 /\ limit = count
    BY <1>1, <2>1 DEF limit, Bounds
  <2>3. match = 0
    BY <1>1, <2>2 DEF MatchAtLimit, Bounds
  <2>4. QED
    BY <2>1, <2>2, <2>3
<1>3. UNCHANGED parameters
  BY DEF LinearStep, Advance, Return
<1>4. CASE Before(Key(s))
  <2>1. s' = s + 1 /\ e' = e /\ match' = match /\ pc' = pc /\ limit' = limit
    BY <1>4 DEF LinearStep, Advance, limit
  <2>2. Bounds'
    BY <1>1, <1>2, <1>3, <2>1, Unchanged DEF Bounds
  <2>3. LeftDecided'
    <3>1. SUFFICES ASSUME NEW j \in 0..count - 1, j < s + 1 PROVE Before(Key(j))
      BY <1>3, <2>1, Unchanged DEF LeftDecided
    <3>2. CASE j < s
      BY <1>1, <3>2 DEF LeftDecided
    <3>3. CASE j = s
      BY <1>4, <3>3
    <3>4. QED
      BY <1>2, <3>1, <3>2, <3>3
  <2>4. RightDecided' /\ MatchAtLimit' /\ NoMatchMissed'
    BY <1>1, <1>3, <2>1, Unchanged DEF RightDecided, MatchAtLimit, NoMatchMissed
  <2>5. QED
    BY <2>2, <2>3, <2>4 DEF LoopInv
<1>5. CASE ~Before(Key(s))
  <2>1. s' = s /\ e' = e /\ pc' = "done" /\ limit' = s
    BY <1>5 DEF LinearStep, Return, limit
  <2>2. match' = IF ThreeWay /\ Key(s) = k THEN kExactMatch ELSE 0
    <3>1. match' = Set(Found(s))
      BY <1>5 DEF LinearStep, Return
    <3>2. Found(s) = IF ThreeWay /\ Key(s) = k THEN kExactMatch ELSE 0
      BY <1>1, <1>2, FoundInOrder
    <3>3. QED
      BY <1>2, <3>1, <3>2, KExactMatchIsNot0 DEF Set
  <2>3. Bounds'
    BY <1>1, <1>2, <1>3, <2>1, <2>2, Unchanged DEF Bounds
  <2>4. LeftDecided'
    BY <1>1, <1>3, <2>1, Unchanged DEF LeftDecided
  <2>5. RightDecided'
    <3>1. ASSUME NEW j \in 0..count - 1, s <= j PROVE ~Before(Key(j))
      BY <1>1, <1>2, <1>5, <3>1, BeforeIsPrefix
    <3>2. QED
      BY <1>3, <2>1, <3>1, Unchanged DEF RightDecided
  <2>6. MatchAtLimit'
    BY <1>1, <1>2, <1>3, <2>1, <2>2, Unchanged, KExactMatchIsNot0 DEF MatchAtLimit
  <2>7. NoMatchMissed'
    <3>1. ASSUME ThreeWay, match' = 0, NEW j \in 0..count - 1, s <= j PROVE Key(j) # k
      <4>1. Key(s) # k /\ ~(Key(s) < k)
        <5>1. Before(Key(s)) <=> IF bound = "upper" THEN ~(k < Key(s)) ELSE Key(s) < k
          BY <1>1, <1>2, BeforeInOrder
        <5>2. QED
          BY <1>5, <2>2, <3>1, <5>1, KExactMatchIsNot0 DEF ThreeWay
      <4>2. Key(s) <= Key(j)
        BY <1>1, <1>2, <3>1, KeysOfNode
      <4>3. QED
        BY <1>1, <1>2, <3>1, <4>1, <4>2
    <3>2. QED
      BY <1>3, <2>1, <3>1, Unchanged DEF NoMatchMissed
  <2>8. QED
    BY <2>3, <2>4, <2>5, <2>6, <2>7 DEF LoopInv
<1>6. QED
  BY <1>4, <1>5
\* A turn of a binary search.
LEMMA BinaryStepLoopInv == LoopInv /\ BinaryStep => LoopInv'
<1> SUFFICES ASSUME LoopInv, BinaryStep PROVE LoopInv'
  OBVIOUS
<1>1. /\ count \in Nat /\ k \in Int
      /\ \A i \in 0..count - 1 : Key(i) \in Int
      /\ Bounds /\ LeftDecided /\ RightDecided /\ MatchAtLimit /\ NoMatchMissed
      /\ keys \in NodeKeys /\ k \in Keys
  BY KeysOfNode DEF LoopInv, Bounds
<1>2. pc = "loop" /\ ~Linear /\ s # e /\ limit = e
  BY DEF BinaryStep, limit
<1>3. s \in Int /\ e \in Int /\ s < e /\ e <= count /\ s >= 0
  BY <1>1, <1>2 DEF Bounds
<1>4. mid \in s..e - 1
  BY <1>3, Middle DEF mid
<1> HIDE DEF mid
<1>5. mid \in 0..count - 1 /\ mid \in Int
  BY <1>1, <1>3, <1>4
<1>6. UNCHANGED parameters
  BY DEF BinaryStep, Advance, Narrow
<1>7. CASE Before(Key(mid))
  <2>1. s' = mid + 1 /\ e' = e /\ match' = match /\ pc' = pc /\ limit' = limit
    BY <1>7 DEF BinaryStep, Advance, limit
  <2>2. mid + 1 \in 0..count /\ e \in mid + 1..count
    BY <1>1, <1>3, <1>4
  <2>3. Bounds'
    BY <1>1, <1>2, <1>6, <2>1, <2>2, Unchanged DEF Bounds
  <2>4. LeftDecided'
    <3>1. ASSUME NEW j \in 0..count - 1, j < mid + 1 PROVE Before(Key(j))
      BY <1>1, <1>5, <1>7, <3>1, BeforeIsPrefix
    <3>2. QED
      BY <1>6, <2>1, <3>1, Unchanged DEF LeftDecided
  <2>5. RightDecided' /\ MatchAtLimit' /\ NoMatchMissed'
    BY <1>1, <1>6, <2>1, Unchanged DEF RightDecided, MatchAtLimit, NoMatchMissed
  <2>6. QED
    BY <2>3, <2>4, <2>5 DEF LoopInv
<1>8. CASE ~Before(Key(mid))
  <2>1. s' = s /\ e' = mid /\ pc' = pc /\ limit' = mid
    BY <1>2, <1>8 DEF BinaryStep, Narrow, limit
  <2>2. /\ match' = IF ThreeWay /\ Key(mid) = k THEN kExactMatch ELSE match
        /\ match' \in {0, kExactMatch}
    <3>1. match' = Set(Found(mid))
      BY <1>8 DEF BinaryStep, Narrow
    <3>2. Found(mid) = IF ThreeWay /\ Key(mid) = k THEN kExactMatch ELSE 0
      BY <1>1, <1>5, FoundInOrder
    <3>3. QED
      BY <1>1, <3>1, <3>2, KExactMatchIsNot0 DEF Set, Bounds
  <2>3. Bounds'
    BY <1>1, <1>2, <1>4, <1>5, <1>6, <2>1, <2>2, Unchanged DEF Bounds
  <2>4. LeftDecided'
    BY <1>1, <1>6, <2>1, Unchanged DEF LeftDecided
  <2>5. RightDecided'
    <3>1. ASSUME NEW j \in 0..count - 1, mid <= j PROVE ~Before(Key(j))
      BY <1>1, <1>5, <1>8, <3>1, BeforeIsPrefix
    <3>2. QED
      BY <1>6, <2>1, <3>1, Unchanged DEF RightDecided
  <2>6. ThreeWay => ~(Key(mid) < k)
    <3>1. Before(Key(mid)) <=> IF bound = "upper" THEN ~(k < Key(mid)) ELSE Key(mid) < k
      BY <1>1, <1>5, BeforeInOrder
    <3>2. QED
      BY <1>8, <3>1 DEF ThreeWay
  \* A match seen at e lies beyond a key that is not less: mid has it too.
  <2>7. ThreeWay /\ match = kExactMatch => Key(mid) = k
    <3>1. SUFFICES ASSUME ThreeWay, match = kExactMatch PROVE Key(mid) = k
      OBVIOUS
    <3>2. e < count /\ Key(e) = k
      BY <1>1, <1>2, <3>1 DEF MatchAtLimit
    <3>3. e \in 0..count - 1 /\ mid <= e
      BY <1>1, <1>3, <1>4, <3>2
    <3>4. Key(mid) <= Key(e)
      BY <1>1, <1>5, <3>3, KeysOfNode
    <3>5. QED
      BY <1>1, <1>5, <2>6, <3>1, <3>2, <3>4
  <2>8. MatchAtLimit'
    <3>1. ASSUME match' = kExactMatch PROVE ThreeWay /\ mid < count /\ Key(mid) = k
      <4>1. ThreeWay
        BY <1>1, <2>2, <3>1, KExactMatchIsNot0 DEF MatchAtLimit
      <4>2. Key(mid) = k
        BY <2>2, <2>7, <3>1, <4>1, KExactMatchIsNot0
      <4>3. QED
        BY <1>1, <1>5, <4>1, <4>2
    <3>2. QED
      BY <1>6, <2>1, <3>1, Unchanged DEF MatchAtLimit
  <2>9. NoMatchMissed'
    <3>1. ASSUME ThreeWay, match' = 0, NEW j \in 0..count - 1, mid <= j PROVE Key(j) # k
      <4>1. Key(mid) # k
        BY <2>2, <3>1, KExactMatchIsNot0
      <4>2. Key(mid) <= Key(j)
        BY <1>1, <1>5, <3>1, KeysOfNode
      <4>3. QED
        BY <1>1, <1>5, <2>6, <3>1, <4>1, <4>2
    <3>2. QED
      BY <1>6, <2>1, <3>1, Unchanged DEF NoMatchMissed
  <2>10. QED
    BY <2>3, <2>4, <2>5, <2>8, <2>9 DEF LoopInv
<1>9. QED
  BY <1>7, <1>8

\* The end of a loop.
LEMMA ExhaustedLoopInv == LoopInv /\ Exhausted => LoopInv'
<1> SUFFICES ASSUME LoopInv, Exhausted PROVE LoopInv'
  OBVIOUS
<1>1. Bounds /\ LeftDecided /\ RightDecided /\ MatchAtLimit /\ NoMatchMissed /\ count \in Nat
  BY KeysOfNode DEF LoopInv, Bounds
<1>2. /\ s = e /\ pc = "loop" /\ pc' = "done" /\ s' = s /\ e' = e
      /\ UNCHANGED parameters
  BY <1>1 DEF Exhausted, Return, Bounds
<1>3. match' = match
  BY DEF Exhausted, Return, Set
<1>4. limit' = limit
  BY <1>2 DEF limit
<1>5. Bounds'
  BY <1>1, <1>2, <1>3, Unchanged DEF Bounds
<1>6. LeftDecided' /\ RightDecided' /\ MatchAtLimit' /\ NoMatchMissed'
  BY <1>1, <1>2, <1>3, <1>4, Unchanged
  DEF LeftDecided, RightDecided, MatchAtLimit, NoMatchMissed
<1>7. QED
  BY <1>5, <1>6 DEF LoopInv

-------------------------------------------------------------------------------
(***************************************************************************)
(* In every state of every search, what lies left of s and from the limit  *)
(* on is decided and a match that was seen is kept at the limit.           *)
(***************************************************************************)
THEOREM LoopInvariant == Spec => []LoopInv
<1>1. LoopInv /\ [Next]_vars => LoopInv'
  <2>1. ASSUME LoopInv, UNCHANGED vars PROVE LoopInv'
    BY <2>1, Unchanged
    DEF vars, LoopInv, Bounds, limit, LeftDecided, RightDecided, MatchAtLimit, NoMatchMissed
  <2>2. QED
    BY <2>1, LinearStepLoopInv, BinaryStepLoopInv, ExhaustedLoopInv DEF Next
<1>2. QED
  BY <1>1, InitLoopInv, PTL DEF Spec

(***************************************************************************)
(* Each search of a node returns the bound it is asked for, for every node *)
(* whose keys are in order and every key.                                  *)
(***************************************************************************)
THEOREM SearchFindsBound == Spec => []FindsBound
<1>1. LoopInv => FindsBound
  <2>1. SUFFICES ASSUME LoopInv, pc = "done" PROVE FindsBound
    BY DEF FindsBound
  <2>3. s \in 0..count /\ limit = s
    BY <2>1 DEF LoopInv, Bounds, limit
  <2>4. \A j \in 0..count - 1 : j < s <=> Before(Key(j))
    BY <2>1, <2>3, KeysOfNode DEF LoopInv, LeftDecided, RightDecided, Bounds
  <2>5. /\ count \in Nat /\ k \in Int /\ bound \in {"lower", "upper"}
        /\ \A j \in 0..count - 1 : Key(j) \in Int
    BY <2>1, KeysOfNode DEF LoopInv, Bounds
  <2>6. \A j \in 0..count - 1 :
          j < s <=> IF bound = "upper" THEN ~(k < Key(j)) ELSE Key(j) < k
    BY <2>4, <2>5, BeforeInOrder
  <2>7. CASE bound = "lower"
    BY <2>3, <2>5, <2>6, <2>7 DEF FindsBound
  <2>8. CASE bound = "upper"
    BY <2>3, <2>5, <2>6, <2>8 DEF FindsBound
  <2>9. QED
    BY <2>5, <2>7, <2>8
<1>2. QED
  BY <1>1, LoopInvariant, PTL

(***************************************************************************)
(* kExactMatch is set exactly if the key at the position returned is the   *)
(* one looked for: internal_locate_compare_to may return it unverified.    *)
(***************************************************************************)
THEOREM ExactMatchIsExact == Spec => []ExactIfFound
<1>1. LoopInv => ExactIfFound
  <2>1. SUFFICES ASSUME LoopInv, pc = "done"
                 PROVE  match = kExactMatch <=> ThreeWay /\ s < count /\ Key(s) = k
    BY DEF ExactIfFound
  <2>2. limit = s /\ s \in 0..count /\ match \in {0, kExactMatch} /\ count \in Nat
    BY <2>1, KeysOfNode DEF LoopInv, Bounds, limit
  <2>3. QED
    BY <2>1, <2>2 DEF LoopInv, MatchAtLimit, NoMatchMissed
<1>2. QED
  BY <1>1, LoopInvariant, PTL
===============================================================================
