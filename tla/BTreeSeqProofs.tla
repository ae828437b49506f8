---------------------------- MODULE BTreeSeqProofs ----------------------------
(***************************************************************************)
(* Proofs, for every set of keys and data and either kind of container,    *)
(* that the operations of BTreeSeq keep the contents in order and without  *)
(* duplicates, and that BTreeSeq implements OrderedEntries.                *)
(***************************************************************************)
EXTENDS BTreeSeq, SequenceTheorems, TLAPS

-------------------------------------------------------------------------------
\* Sequences.

(***************************************************************************)
(* What inserting x at rank p does: ranks before p stay, those from p on   *)
(* move up by one (internal_insert).                                       *)
(***************************************************************************)
LEMMA InsertAtProperties ==
  ASSUME NEW s \in Seq(Entry), NEW x \in Entry, NEW p \in 1..Len(s) + 1
  PROVE  /\ InsertAt(s, p, x) \in Seq(Entry)
         /\ Len(InsertAt(s, p, x)) = Len(s) + 1
         /\ \A j \in 1..Len(s) + 1 :
              InsertAt(s, p, x)[j] = IF j < p THEN s[j] ELSE IF j = p THEN x ELSE s[j - 1]
<1> DEFINE a == SubSeq(s, 1, p - 1)
           b == SubSeq(s, p, Len(s))
<1>1. /\ a \in Seq(Entry) /\ Len(a) = p - 1
      /\ \A j \in 1..p - 1 : a[j] = s[j]
  BY SubSeqProperties
<1>2. /\ b \in Seq(Entry) /\ Len(b) = Len(s) - p + 1
      /\ \A j \in 1..Len(s) - p + 1 : b[j] = s[p + j - 1]
  BY SubSeqProperties
<1>3. <<x>> \in Seq(Entry) /\ Len(<<x>>) = 1 /\ <<x>>[1] = x
  OBVIOUS
<1> DEFINE ax == a \o <<x>>
<1>4. /\ ax \in Seq(Entry) /\ Len(ax) = p
      /\ \A j \in 1..p : ax[j] = IF j < p THEN s[j] ELSE x
  BY <1>1, <1>3, ConcatProperties
<1> HIDE DEF a, b, ax
<1>5. /\ ax \o b \in Seq(Entry) /\ Len(ax \o b) = Len(s) + 1
      /\ \A j \in 1..Len(s) + 1 :
           (ax \o b)[j] = IF j < p THEN s[j] ELSE IF j = p THEN x ELSE s[j - 1]
  BY <1>2, <1>4, ConcatProperties
<1>6. QED
  BY <1>5 DEF InsertAt, ax, a, b

(***************************************************************************)
(* What removing the ranks p .. q-1 does: ranks before p stay, those from  *)
(* q on move down (erase).                                                 *)
(***************************************************************************)
LEMMA RemoveRangeProperties ==
  ASSUME NEW s \in Seq(Entry),
         NEW p \in 1..Len(s) + 1, NEW q \in 1..Len(s) + 1, p <= q
  PROVE  /\ RemoveRange(s, p, q) \in Seq(Entry)
         /\ Len(RemoveRange(s, p, q)) = Len(s) - (q - p)
         /\ \A j \in 1..Len(s) - (q - p) :
              RemoveRange(s, p, q)[j] = IF j < p THEN s[j] ELSE s[j + (q - p)]
<1> DEFINE a == SubSeq(s, 1, p - 1)
           b == SubSeq(s, q, Len(s))
<1>1. /\ a \in Seq(Entry) /\ Len(a) = p - 1
      /\ \A j \in 1..p - 1 : a[j] = s[j]
  BY SubSeqProperties
<1>2. /\ b \in Seq(Entry) /\ Len(b) = Len(s) - q + 1
      /\ \A j \in 1..Len(s) - q + 1 : b[j] = s[q + j - 1]
  BY SubSeqProperties
<1> HIDE DEF a, b
<1>3. /\ a \o b \in Seq(Entry) /\ Len(a \o b) = Len(a) + Len(b)
      /\ \A j \in 1..Len(a) + Len(b) : (a \o b)[j] = IF j <= Len(a) THEN a[j] ELSE b[j - Len(a)]
  BY <1>1, <1>2, ConcatProperties
<1>4. Len(a) + Len(b) = Len(s) - (q - p)
  BY <1>1, <1>2
<1>5. ASSUME NEW j \in 1..Len(s) - (q - p)
      PROVE  (a \o b)[j] = IF j < p THEN s[j] ELSE s[j + (q - p)]
  <2>1. CASE j < p
    BY <1>1, <1>3, <1>4, <2>1
  <2>2. CASE ~(j < p)
    <3>1. j - (p - 1) \in 1..Len(s) - q + 1 /\ q + (j - (p - 1)) - 1 = j + (q - p)
      BY <2>2
    <3>2. b[j - (p - 1)] = s[j + (q - p)]
      BY <1>2, <3>1
    <3>3. QED
      BY <1>1, <1>3, <1>4, <2>2, <3>2
  <2>3. QED
    BY <2>1, <2>2
<1>6. QED
  BY <1>3, <1>4, <1>5 DEF RemoveRange, a, b

-------------------------------------------------------------------------------
\* Order.

\* Keys are integers, so that < and <= on them are total.
LEMMA KeysAreIntegers ==
  ASSUME NEW s \in Seq(Entry)
  PROVE  \A j \in 1..Len(s) : s[j] \in Entry /\ s[j].key \in Keys /\ s[j].key \in Int
<1>1. ASSUME NEW j \in 1..Len(s) PROVE s[j] \in Entry
  OBVIOUS
<1>2. QED
  BY <1>1, KeysAssumption DEF Entry

(***************************************************************************)
(* An entry put at a rank where it fits leaves the contents in order, and  *)
(* strictly so if its key was not there.                                   *)
(***************************************************************************)
LEMMA InsertingKeepsOrder ==
  ASSUME NEW s \in Seq(Entry), NEW e \in Entry, NEW p \in Ranks(s),
         Fits(s, e.key, p), Sorted(s)
  PROVE  /\ InsertAt(s, p, e) \in Seq(Entry)
         /\ Len(InsertAt(s, p, e)) = Len(s) + 1
         /\ Sorted(InsertAt(s, p, e))
         /\ StrictlySorted(s) /\ ~HasKey(s, e.key) => StrictlySorted(InsertAt(s, p, e))
<1> DEFINE t == InsertAt(s, p, e)
<1>1. p \in 1..Len(s) + 1
  BY DEF Ranks, EndRank
<1>2. /\ t \in Seq(Entry) /\ Len(t) = Len(s) + 1
      /\ \A j \in 1..Len(s) + 1 : t[j] = IF j < p THEN s[j] ELSE IF j = p THEN e ELSE s[j - 1]
  BY <1>1, InsertAtProperties
<1>3. e.key \in Int /\ \A j \in 1..Len(s) : s[j].key \in Int
  BY KeysAreIntegers, KeysAssumption DEF Entry
<1> HIDE DEF t
<1>4. \A j \in 1..Len(s) : IF j < p THEN s[j].key <= e.key ELSE e.key <= s[j].key
  BY DEF Fits
<1>5. ASSUME NEW i \in 1..Len(t), NEW j \in 1..Len(t), i < j
      PROVE  /\ t[i].key <= t[j].key
             /\ StrictlySorted(s) /\ ~HasKey(s, e.key) => t[i].key < t[j].key
  <2>1. CASE j < p
    BY <1>1, <1>2, <1>3, <1>5, <2>1 DEF Sorted, StrictlySorted
  <2>2. CASE j = p
    <3>1. i \in 1..Len(s) /\ i < p /\ t[i] = s[i] /\ t[j] = e
      BY <1>1, <1>2, <1>5, <2>2
    <3>2. QED
      BY <1>3, <1>4, <3>1 DEF HasKey
  <2>3. CASE i = p
    <3>1. j - 1 \in 1..Len(s) /\ ~(j - 1 < p) /\ t[i] = e /\ t[j] = s[j - 1]
      BY <1>1, <1>2, <1>5, <2>3
    <3>2. QED
      BY <1>3, <1>4, <3>1 DEF HasKey
  <2>4. CASE i < p /\ j > p
    <3>1. /\ i \in 1..Len(s) /\ j - 1 \in 1..Len(s) /\ i < j - 1
          /\ t[i] = s[i] /\ t[j] = s[j - 1]
      BY <1>1, <1>2, <1>5, <2>4
    <3>2. QED
      BY <3>1 DEF Sorted, StrictlySorted
  <2>5. CASE i > p
    <3>1. /\ i - 1 \in 1..Len(s) /\ j - 1 \in 1..Len(s) /\ i - 1 < j - 1
          /\ t[i] = s[i - 1] /\ t[j] = s[j - 1]
      BY <1>1, <1>2, <1>5, <2>5
    <3>2. QED
      BY <3>1 DEF Sorted, StrictlySorted
  <2>6. QED
    BY <1>1, <1>2, <1>5, <2>1, <2>2, <2>3, <2>4, <2>5
<1>6. Sorted(t)
  BY <1>5 DEF Sorted
<1>7. StrictlySorted(s) /\ ~HasKey(s, e.key) => StrictlySorted(t)
  <2>1. SUFFICES ASSUME StrictlySorted(s), ~HasKey(s, e.key) PROVE StrictlySorted(t)
    OBVIOUS
  <2>2. \A i, j \in 1..Len(t) : i < j => t[i].key < t[j].key
    BY <1>5, <2>1
  <2>3. QED
    BY <2>2 DEF StrictlySorted
<1>8. QED
  BY <1>2, <1>6, <1>7 DEF t

\* Erasing ranks leaves what remains in order.
LEMMA RemovingKeepsOrder ==
  ASSUME NEW s \in Seq(Entry), NEW p \in Ranks(s), NEW q \in Ranks(s), p <= q
  PROVE  /\ RemoveRange(s, p, q) \in Seq(Entry)
         /\ Len(RemoveRange(s, p, q)) = Len(s) - (q - p)
         /\ Sorted(s) => Sorted(RemoveRange(s, p, q))
         /\ StrictlySorted(s) => StrictlySorted(RemoveRange(s, p, q))
<1> DEFINE t == RemoveRange(s, p, q)
<1>1. p \in 1..Len(s) + 1 /\ q \in 1..Len(s) + 1
  BY DEF Ranks, EndRank
<1>2. /\ t \in Seq(Entry) /\ Len(t) = Len(s) - (q - p)
      /\ \A j \in 1..Len(s) - (q - p) : t[j] = IF j < p THEN s[j] ELSE s[j + (q - p)]
  BY <1>1, RemoveRangeProperties
<1> HIDE DEF t
\* Where each entry that remains came from.
<1> DEFINE from(j) == IF j < p THEN j ELSE j + (q - p)
<1>3. ASSUME NEW i \in 1..Len(t), NEW j \in 1..Len(t), i < j
      PROVE  /\ from(i) \in 1..Len(s) /\ from(j) \in 1..Len(s) /\ from(i) < from(j)
             /\ t[i] = s[from(i)] /\ t[j] = s[from(j)]
  BY <1>1, <1>2, <1>3
<1> HIDE DEF from
<1>4. Sorted(s) => Sorted(t)
  BY <1>3 DEF Sorted
<1>5. StrictlySorted(s) => StrictlySorted(t)
  BY <1>3 DEF StrictlySorted
<1>6. QED
  BY <1>2, <1>4, <1>5 DEF t

-------------------------------------------------------------------------------
\* Finding a place.

\* A lower bound is a place for the key, and shows whether the key is there.
LEMMA LowerBoundFits ==
  ASSUME NEW s \in Seq(Entry), NEW k \in Keys, NEW p \in Ranks(s),
         IsLowerBound(s, k, p), Sorted(s)
  PROVE  /\ Fits(s, k, p)
         /\ HasKey(s, k) <=> p # EndRank(s) /\ s[p].key = k
<1>1. k \in Int /\ p \in 1..Len(s) + 1 /\ \A j \in 1..Len(s) : s[j].key \in Int
  BY KeysAreIntegers, KeysAssumption DEF Ranks, EndRank
<1>2. \A j \in 1..Len(s) : j < p <=> s[j].key < k
  BY DEF IsLowerBound
<1>3. Fits(s, k, p)
  BY <1>1, <1>2 DEF Fits
<1>4. ASSUME HasKey(s, k) PROVE p # EndRank(s) /\ s[p].key = k
  <2>1. PICK j \in 1..Len(s) : s[j].key = k
    BY <1>4 DEF HasKey
  <2>2. ~(j < p) /\ p \in 1..Len(s)
    BY <1>1, <1>2, <2>1
  <2>3. ~(s[p].key < k)
    BY <1>1, <1>2, <2>2
  <2>4. s[p].key <= s[j].key
    BY <1>1, <2>2, <2>1 DEF Sorted
  <2>5. QED
    BY <1>1, <2>1, <2>2, <2>3, <2>4 DEF EndRank
<1>5. ASSUME p # EndRank(s), s[p].key = k PROVE HasKey(s, k)
  BY <1>1, <1>5 DEF HasKey, EndRank
<1>6. QED
  BY <1>3, <1>4, <1>5

\* An upper bound is a place for the key.
LEMMA UpperBoundFits ==
  ASSUME NEW s \in Seq(Entry), NEW k \in Keys, NEW p \in Ranks(s), IsUpperBound(s, k, p)
  PROVE  Fits(s, k, p)
<1>1. k \in Int /\ p \in 1..Len(s) + 1 /\ \A j \in 1..Len(s) : s[j].key \in Int
  BY KeysAreIntegers, KeysAssumption DEF Ranks, EndRank
<1>2. QED
  BY <1>1 DEF Fits, IsUpperBound

(***************************************************************************)
(* A rank between a smaller (or equal) entry and a larger (or equal) one   *)
(* is a place for the key: what a hint is compared with is enough.         *)
(***************************************************************************)
LEMMA BetweenFits ==
  ASSUME NEW s \in Seq(Entry), NEW k \in Keys, NEW p \in Ranks(s), Sorted(s),
         p # 1 => s[p - 1].key <= k,
         p # EndRank(s) => k <= s[p].key
  PROVE  Fits(s, k, p)
<1>1. k \in Int /\ p \in 1..Len(s) + 1 /\ \A j \in 1..Len(s) : s[j].key \in Int
  BY KeysAreIntegers, KeysAssumption DEF Ranks, EndRank
<1>2. ASSUME NEW j \in 1..Len(s), j < p PROVE s[j].key <= k
  <2>1. p - 1 \in 1..Len(s) /\ s[p - 1].key <= k
    BY <1>1, <1>2
  <2>2. s[j].key <= s[p - 1].key
    BY <1>1, <1>2, <2>1 DEF Sorted
  <2>3. QED
    BY <1>1, <2>1, <2>2
<1>3. ASSUME NEW j \in 1..Len(s), ~(j < p) PROVE k <= s[j].key
  <2>1. p \in 1..Len(s) /\ k <= s[p].key
    BY <1>1, <1>3 DEF EndRank
  <2>2. s[p].key <= s[j].key
    BY <1>1, <1>3, <2>1 DEF Sorted
  <2>3. QED
    BY <1>1, <2>1, <2>2
<1>4. QED
  BY <1>2, <1>3 DEF Fits

\* If both comparisons are strict the key is not there.
LEMMA BetweenIsNew ==
  ASSUME NEW s \in Seq(Entry), NEW k \in Keys, NEW p \in Ranks(s), Sorted(s),
         p # 1 => s[p - 1].key < k,
         p # EndRank(s) => k < s[p].key
  PROVE  Fits(s, k, p) /\ ~HasKey(s, k)
<1>1. k \in Int /\ p \in 1..Len(s) + 1 /\ \A j \in 1..Len(s) : s[j].key \in Int
  BY KeysAreIntegers, KeysAssumption DEF Ranks, EndRank
<1>2. p # 1 => p - 1 \in 1..Len(s) /\ s[p - 1].key <= k
  BY <1>1
<1>3. p # EndRank(s) => p \in 1..Len(s) /\ k <= s[p].key
  BY <1>1 DEF EndRank
<1>4. Fits(s, k, p)
  BY <1>2, <1>3, BetweenFits
<1>5. ASSUME NEW j \in 1..Len(s), s[j].key = k PROVE FALSE
  <2>1. CASE j < p
    <3>1. p # 1 /\ s[j].key <= s[p - 1].key
      BY <1>1, <1>2, <1>5, <2>1 DEF Sorted
    <3>2. QED
      BY <1>1, <1>2, <1>5, <3>1
  <2>2. CASE ~(j < p)
    <3>1. p # EndRank(s) /\ s[p].key <= s[j].key
      BY <1>1, <1>5, <2>2 DEF Sorted, EndRank
    <3>2. QED
      BY <1>1, <1>3, <1>5, <3>1
  <2>3. QED
    BY <2>1, <2>2
<1>6. QED
  BY <1>4, <1>5 DEF HasKey

\* In a unique container a key is at its lower bound or nowhere.
LEMMA AtOneRankAtMost ==
  ASSUME NEW s \in Seq(Entry), NEW k \in Keys, NEW p \in Ranks(s),
         IsLowerBound(s, k, p), Sorted(s), StrictlySorted(s)
  PROVE  IsUpperBound(s, k, IF p # EndRank(s) /\ s[p].key = k THEN p + 1 ELSE p)
<1>1. k \in Int /\ p \in 1..Len(s) + 1 /\ \A j \in 1..Len(s) : s[j].key \in Int
  BY KeysAreIntegers, KeysAssumption DEF Ranks, EndRank
<1>2. \A j \in 1..Len(s) : j < p <=> s[j].key < k
  BY DEF IsLowerBound
<1>3. CASE p # EndRank(s) /\ s[p].key = k
  <2>1. p \in 1..Len(s) /\ p + 1 \in 1..Len(s) + 1
    BY <1>1, <1>3 DEF EndRank
  <2>2. ASSUME NEW j \in 1..Len(s) PROVE j < p + 1 <=> s[j].key <= k
    BY <1>1, <1>2, <1>3, <2>1 DEF StrictlySorted
  <2>3. QED
    BY <1>3, <2>1, <2>2 DEF IsUpperBound, Ranks, EndRank
<1>4. CASE ~(p # EndRank(s) /\ s[p].key = k)
  <2>1. ASSUME NEW j \in 1..Len(s) PROVE j < p <=> s[j].key <= k
    <3>1. CASE j < p
      BY <1>1, <1>2, <3>1
    <3>2. CASE ~(j < p)
      <4>1. p \in 1..Len(s) /\ s[p].key # k /\ ~(s[p].key < k)
        BY <1>1, <1>2, <1>4, <3>2 DEF EndRank
      <4>2. s[p].key <= s[j].key
        BY <1>1, <3>2, <4>1 DEF Sorted
      <4>3. QED
        BY <1>1, <3>2, <4>1, <4>2
    <3>3. QED
      BY <3>1, <3>2
  <2>2. QED
    BY <1>1, <1>4, <2>1 DEF IsUpperBound, Ranks, EndRank
<1>5. QED
  BY <1>3, <1>4

-------------------------------------------------------------------------------
\* Every step is a step OrderedEntries allows.

USE DEF Promise!Fits, Promise!HasKey, Promise!IsLowerBound, Promise!IsUpperBound,
        Promise!Ranks, Promise!EndRank, Promise!Return, Promise!NoRank,
        Promise!RemoveRange, Promise!Entry, Promise!DefaultEntry

\* A new entry where it fits, with a new key if the container is unique.
LEMMA InsertionPromised ==
  ASSUME NEW e \in Entry, NEW p \in Ranks(entries), Fits(entries, e.key, p),
         Multi \/ ~HasKey(entries, e.key), InternalInsert(p, e)
  PROVE  Promise!InsertNew(e)
<1>1. /\ p \in Promise!Ranks(entries) /\ Promise!Fits(entries, e.key, p)
      /\ Multi \/ ~Promise!HasKey(entries, e.key)
  BY DEF Fits, HasKey, Ranks, EndRank
<1>2. /\ Len(entries) < MaxSize
      /\ entries' = Promise!InsertAt(entries, p, e)
      /\ ret' = Promise!Return(p, 1)
  BY DEF InternalInsert, Return, InsertAt, Promise!InsertAt
<1> HIDE DEF Promise!Fits, Promise!Ranks, Promise!HasKey, Promise!Return
<1>3. QED
  BY <1>1, <1>2 DEF Promise!InsertNew

LEMMA InsertUniquePromised ==
  ASSUME IInv, ~Multi, NEW e \in Entry, InsertUnique(e)
  PROVE  Promise!InsertNew(e) \/ Promise!InsertExisting(e)
<1>1. entries \in Seq(Entry) /\ Sorted(entries) /\ e.key \in Keys
  BY DEF IInv, TypeOK, InOrder, Entry
<1>2. PICK p \in Ranks(entries) :
        /\ IsLowerBound(entries, e.key, p)
        /\ IF p # EndRank(entries) /\ entries[p].key = e.key
           THEN AlreadyAt(p)
           ELSE InternalInsert(p, e)
  BY DEF InsertUnique
<1>3. /\ Fits(entries, e.key, p)
      /\ HasKey(entries, e.key) <=> p # EndRank(entries) /\ entries[p].key = e.key
  BY <1>1, <1>2, LowerBoundFits
<1>4. CASE p # EndRank(entries) /\ entries[p].key = e.key
  <2>1. p \in 1..Len(entries)
    BY <1>1, <1>4 DEF Ranks, EndRank
  <2>2. QED
    BY <1>2, <1>4, <2>1 DEF AlreadyAt, Promise!InsertExisting, Return
<1>5. CASE ~(p # EndRank(entries) /\ entries[p].key = e.key)
  BY <1>2, <1>3, <1>5, InsertionPromised
<1>6. QED
  BY <1>4, <1>5

LEMMA InsertMultiPromised ==
  ASSUME IInv, Multi, NEW e \in Entry, InsertMulti(e)
  PROVE  Promise!InsertNew(e)
<1>1. entries \in Seq(Entry) /\ e.key \in Keys
  BY DEF IInv, TypeOK, Entry
<1>2. PICK p \in Ranks(entries) : IsUpperBound(entries, e.key, p) /\ InternalInsert(p, e)
  BY DEF InsertMulti
<1>3. Fits(entries, e.key, p)
  BY <1>1, <1>2, UpperBoundFits
<1>4. QED
  BY <1>2, <1>3, InsertionPromised

(***************************************************************************)
(* insert_unique(position, v): what it compares the hint and one neighbour *)
(* with is enough to insert beside the hint without a search.              *)
(***************************************************************************)
LEMMA InsertUniqueHintPromised ==
  ASSUME IInv, ~Multi, NEW e \in Entry, NEW h \in Ranks(entries), InsertUniqueHint(h, e)
  PROVE  Promise!InsertNew(e) \/ Promise!InsertExisting(e)
<1>1. /\ entries \in Seq(Entry) /\ Sorted(entries) /\ e.key \in Keys /\ e.key \in Int
      /\ h \in 1..Len(entries) + 1
      /\ \A j \in 1..Len(entries) : entries[j].key \in Int
  BY KeysAreIntegers, KeysAssumption DEF IInv, TypeOK, InOrder, Entry, Ranks, EndRank
<1>2. CASE InsertUnique(e)
  BY <1>2, InsertUniquePromised
<1>3. CASE UniqueFitsBefore(h, e.key) /\ InternalInsert(h, e)
  <2>1. /\ h # 1 => entries[h - 1].key < e.key
        /\ h # EndRank(entries) => e.key < entries[h].key
    BY <1>3 DEF UniqueFitsBefore, UniqueBefore
  <2>2. Fits(entries, e.key, h) /\ ~HasKey(entries, e.key)
    BY <1>1, <2>1, BetweenIsNew
  <2>3. QED
    BY <1>3, <2>2, InsertionPromised
<1>4. CASE UniqueFitsAfter(h, e.key) /\ InternalInsert(h + 1, e)
  <2>1. /\ h # EndRank(entries) /\ entries[h].key < e.key
        /\ h + 1 # EndRank(entries) => e.key < entries[h + 1].key
    BY <1>4 DEF UniqueFitsAfter, UniqueAfter, UniqueBefore
  <2>2. h + 1 \in Ranks(entries) /\ (h + 1) - 1 = h
    BY <1>1, <2>1 DEF Ranks, EndRank
  <2>3. Fits(entries, e.key, h + 1) /\ ~HasKey(entries, e.key)
    BY <1>1, <2>1, <2>2, BetweenIsNew
  <2>4. QED
    BY <1>4, <2>2, <2>3, InsertionPromised
<1>5. CASE UniqueAt(h, e.key) /\ AlreadyAt(h)
  <2>1. h # EndRank(entries) /\ ~(e.key < entries[h].key) /\ ~(entries[h].key < e.key)
    BY <1>5 DEF UniqueAt, UniqueBefore, UniqueAfter
  <2>2. h \in 1..Len(entries) /\ entries[h].key = e.key
    BY <1>1, <2>1 DEF EndRank
  <2>3. QED
    BY <1>5, <2>2 DEF AlreadyAt, Promise!InsertExisting, Return
<1>6. QED
  BY <1>2, <1>3, <1>4, <1>5 DEF InsertUniqueHint

\* insert_multi(position, v), likewise.
LEMMA InsertMultiHintPromised ==
  ASSUME IInv, Multi, NEW e \in Entry, NEW h \in Ranks(entries), InsertMultiHint(h, e)
  PROVE  Promise!InsertNew(e)
<1>1. /\ entries \in Seq(Entry) /\ Sorted(entries) /\ e.key \in Keys /\ e.key \in Int
      /\ h \in 1..Len(entries) + 1
      /\ \A j \in 1..Len(entries) : entries[j].key \in Int
  BY KeysAreIntegers, KeysAssumption DEF IInv, TypeOK, InOrder, Entry, Ranks, EndRank
<1>2. CASE InsertMulti(e)
  BY <1>2, InsertMultiPromised
<1>3. CASE MultiFitsBefore(h, e.key) /\ InternalInsert(h, e)
  <2>1. /\ h # 1 => entries[h - 1].key <= e.key
        /\ h # EndRank(entries) => e.key <= entries[h].key
    BY <1>3 DEF MultiFitsBefore, MultiBefore
  <2>2. Fits(entries, e.key, h)
    BY <1>1, <2>1, BetweenFits
  <2>3. QED
    BY <1>3, <2>2, InsertionPromised
<1>4. CASE MultiFitsAfter(h, e.key) /\ InternalInsert(h + 1, e)
  <2>1. /\ h # EndRank(entries) /\ ~(e.key <= entries[h].key)
        /\ h + 1 # EndRank(entries) => e.key <= entries[h + 1].key
    BY <1>4 DEF MultiFitsAfter, MultiBefore
  <2>2. h + 1 \in Ranks(entries) /\ (h + 1) - 1 = h /\ entries[h].key <= e.key
    BY <1>1, <2>1 DEF Ranks, EndRank
  <2>3. Fits(entries, e.key, h + 1)
    BY <1>1, <2>1, <2>2, BetweenFits
  <2>4. QED
    BY <1>4, <2>2, <2>3, InsertionPromised
<1>5. QED
  BY <1>2, <1>3, <1>4 DEF InsertMultiHint

\* The ranks a call found between are those OrderedEntries means.
LEMMA SameBounds ==
  ASSUME NEW k, NEW p, NEW q
  PROVE  /\ Ranks(entries) = Promise!Ranks(entries)
         /\ IsLowerBound(entries, k, p) => Promise!IsLowerBound(entries, k, p)
         /\ IsUpperBound(entries, k, q) => Promise!IsUpperBound(entries, k, q)
         /\ EraseRange(p, q) => Promise!EraseRange(p, q)
BY DEF Ranks, EndRank, IsLowerBound, IsUpperBound, EraseRange, Promise!EraseRange,
       RemoveRange, Return, NoRank

\* No lower bound of a key comes after its upper bound.
LEMMA BoundsOrdered ==
  ASSUME NEW s \in Seq(Entry), NEW k \in Keys,
         NEW p \in Promise!Ranks(s), NEW q \in Promise!Ranks(s),
         Promise!IsLowerBound(s, k, p), Promise!IsUpperBound(s, k, q)
  PROVE  p <= q
<1>1. k \in Int /\ \A j \in 1..Len(s) : s[j].key \in Int
  BY KeysAreIntegers, KeysAssumption
<1>2. ASSUME q < p PROVE FALSE
  <2>1. q \in 1..Len(s) /\ s[q].key < k
    BY <1>1, <1>2
  <2>2. QED
    BY <1>1, <2>1
<1>3. QED
  BY <1>2

\* erase_unique(key) and count_unique(key): the key is at one rank at most.
LEMMA UniqueByKeyPromised ==
  ASSUME IInv, ~Multi, NEW k \in Keys
  PROVE  /\ EraseUnique(k) => Promise!EraseKey(k)
         /\ CountUnique(k) => Promise!Count(k)
<1> DEFINE after(p) == IF p # EndRank(entries) /\ entries[p].key = k THEN p + 1 ELSE p
<1>1. entries \in Seq(Entry) /\ Sorted(entries) /\ StrictlySorted(entries)
  BY DEF IInv, TypeOK, InOrder, NoDuplicateKeys
<1>2. ASSUME NEW p \in Ranks(entries), IsLowerBound(entries, k, p)
      PROVE  after(p) \in Ranks(entries) /\ IsUpperBound(entries, k, after(p))
  <2>1. IsUpperBound(entries, k, after(p))
    BY <1>1, <1>2, AtOneRankAtMost
  <2>2. QED
    BY <2>1 DEF IsUpperBound
<1> HIDE DEF after
<1>3. ASSUME EraseUnique(k) PROVE Promise!EraseKey(k)
  <2>1. PICK p \in Ranks(entries) : IsLowerBound(entries, k, p) /\ EraseRange(p, after(p))
    BY <1>3 DEF EraseUnique, after
  <2>2. QED
    BY <1>2, <2>1, SameBounds DEF Promise!EraseKey
<1>4. ASSUME CountUnique(k) PROVE Promise!Count(k)
  <2>1. PICK p \in Ranks(entries) :
          /\ IsLowerBound(entries, k, p)
          /\ UNCHANGED entries
          /\ ret' = Return(NoRank, IF p # EndRank(entries) /\ entries[p].key = k THEN 1 ELSE 0)
    BY <1>4 DEF CountUnique
  <2>2. ret' = Promise!Return(Promise!NoRank, after(p) - p)
    BY <1>1, <2>1 DEF after, Return, NoRank, Ranks, EndRank
  <2>3. QED
    BY <1>2, <2>1, <2>2, SameBounds DEF Promise!Count
<1>5. QED
  BY <1>3, <1>4

\* erase_multi(key) and count_multi(key): from one bound of the key to the other.
LEMMA MultiByKeyPromised ==
  ASSUME NEW k \in Keys
  PROVE  /\ EraseMulti(k) => Promise!EraseKey(k)
         /\ CountMulti(k) => Promise!Count(k)
<1>1. ASSUME EraseMulti(k) PROVE Promise!EraseKey(k)
  BY <1>1, SameBounds DEF EraseMulti, Promise!EraseKey
<1>2. ASSUME CountMulti(k) PROVE Promise!Count(k)
  <2>1. PICK p \in Ranks(entries), q \in Ranks(entries) :
          /\ IsLowerBound(entries, k, p)
          /\ IsUpperBound(entries, k, q)
          /\ UNCHANGED entries
          /\ ret' = Return(NoRank, q - p)
    BY <1>2 DEF CountMulti
  <2>2. ret' = Promise!Return(Promise!NoRank, q - p)
    BY <2>1 DEF Return, NoRank
  <2>3. QED
    BY <2>1, <2>2, SameBounds DEF Promise!Count
<1>3. QED
  BY <1>1, <1>2

\* find: the lower bound has the key if any entry has.
LEMMA SearchPromised ==
  ASSUME IInv, NEW k \in Keys
  PROVE  /\ LowerBound(k) => Promise!LowerBound(k)
         /\ UpperBound(k) => Promise!UpperBound(k)
         /\ Find(k) => Promise!Find(k)
<1>1. entries \in Seq(Entry) /\ Sorted(entries)
  BY DEF IInv, TypeOK, InOrder
<1>2. LowerBound(k) => Promise!LowerBound(k)
  BY SameBounds DEF LowerBound, AlreadyAt, Return, Promise!LowerBound
<1>3. UpperBound(k) => Promise!UpperBound(k)
  BY SameBounds DEF UpperBound, AlreadyAt, Return, Promise!UpperBound
<1>4. ASSUME Find(k) PROVE Promise!Find(k)
  <2>1. PICK p \in Ranks(entries) :
          /\ IsLowerBound(entries, k, p)
          /\ AlreadyAt(IF p # EndRank(entries) /\ entries[p].key = k THEN p ELSE EndRank(entries))
    BY <1>4 DEF Find
  <2>2. HasKey(entries, k) <=> p # EndRank(entries) /\ entries[p].key = k
    BY <1>1, <2>1, LowerBoundFits
  <2>3. CASE HasKey(entries, k)
    <3>1. UNCHANGED entries /\ ret' = Promise!Return(p, 0)
      BY <2>1, <2>2, <2>3 DEF AlreadyAt, Return
    <3>2. Promise!HasKey(entries, k)
      BY <2>3 DEF HasKey
    <3>3. QED
      BY <2>1, <3>1, <3>2, SameBounds DEF Promise!Find
  <2>4. CASE ~HasKey(entries, k)
    <3>1. UNCHANGED entries /\ ret' = Promise!Return(EndRank(entries), 0)
      BY <2>1, <2>2, <2>4 DEF AlreadyAt, Return
    <3>2. ~Promise!HasKey(entries, k)
      BY <2>4 DEF HasKey
    <3>3. /\ EndRank(entries) = Promise!EndRank(entries)
          /\ EndRank(entries) \in Promise!Ranks(entries)
      BY <1>1 DEF EndRank
    <3>4. QED
      BY <3>1, <3>2, <3>3 DEF Promise!Find
  <2>5. QED
    BY <2>3, <2>4
<1>5. QED
  BY <1>2, <1>3, <1>4

\* Both modules name a call and its arguments alike.
LEMMA SameCalls ==
  ASSUME NEW name, NEW arguments, Calls(name, arguments)
  PROVE  Promise!Calls(name, arguments)
BY DEF Calls, Promise!Calls

\* An insertion, with a hint or without, is one OrderedEntries allows.
LEMMA InsertionCallPromised ==
  ASSUME IInv, NEW e \in Entry, NEW hint \in Ranks(entries) \cup {NoRank},
         Promise!Insert(e), Calls("insert", <<hint, e>>)
  PROVE  Promise!Next
<1>1. e \in Promise!Entry /\ hint \in Promise!Ranks(entries) \cup {Promise!NoRank}
  BY DEF Entry, NoRank, Ranks, EndRank
<1>2. Promise!Calls("insert", <<hint, e>>)
  BY SameCalls
<1>3. QED
  BY <1>1, <1>2 DEF Promise!Next

\* One step of BTreeSeq is a step of OrderedEntries.
LEMMA StepPromised == ASSUME IInv, Next PROVE Promise!Next
<1>1. CASE UniqueNext
  <2>0. ~Multi
    BY <1>1 DEF UniqueNext
  <2>1. ASSUME NEW e \in Entry, InsertUnique(e), Calls("insert", <<NoRank, e>>)
        PROVE  Promise!Next
    BY <2>0, <2>1, InsertUniquePromised, InsertionCallPromised DEF Promise!Insert
  <2>2. ASSUME NEW e \in Entry, NEW h \in Ranks(entries),
               InsertUniqueHint(h, e), Calls("insert", <<h, e>>)
        PROVE  Promise!Next
    BY <2>0, <2>2, InsertUniqueHintPromised, InsertionCallPromised DEF Promise!Insert
  <2>3. ASSUME NEW k \in Keys, Subscript(k), Calls("subscript", <<k>>) PROVE Promise!Next
    <3>1. DefaultEntry(k) \in Entry /\ DefaultEntry(k) = Promise!DefaultEntry(k)
      BY DefaultDataAssumption DEF DefaultEntry, Entry
    <3>2. Promise!Insert(Promise!DefaultEntry(k))
      BY <2>0, <2>3, <3>1, InsertUniquePromised DEF Subscript, Promise!Insert
    <3>3. QED
      BY <2>0, <2>3, <3>2, SameCalls DEF Promise!Next
  <2>4. ASSUME NEW k \in Keys, EraseUnique(k), Calls("erase key", <<k>>) PROVE Promise!Next
    BY <2>0, <2>4, UniqueByKeyPromised, SameCalls DEF Promise!Next
  <2>5. ASSUME NEW k \in Keys, CountUnique(k), Calls("count", <<k>>) PROVE Promise!Next
    BY <2>0, <2>5, UniqueByKeyPromised, SameCalls DEF Promise!Next
  <2>6. QED
    BY <1>1, <2>1, <2>2, <2>3, <2>4, <2>5 DEF UniqueNext
<1>2. CASE MultiNext
  <2>0. Multi
    BY <1>2 DEF MultiNext
  <2>1. ASSUME NEW e \in Entry, InsertMulti(e), Calls("insert", <<NoRank, e>>)
        PROVE  Promise!Next
    BY <2>0, <2>1, InsertMultiPromised, InsertionCallPromised DEF Promise!Insert
  <2>2. ASSUME NEW e \in Entry, NEW h \in Ranks(entries),
               InsertMultiHint(h, e), Calls("insert", <<h, e>>)
        PROVE  Promise!Next
    BY <2>0, <2>2, InsertMultiHintPromised, InsertionCallPromised DEF Promise!Insert
  <2>3. ASSUME NEW k \in Keys, EraseMulti(k), Calls("erase key", <<k>>) PROVE Promise!Next
    BY <2>3, MultiByKeyPromised, SameCalls DEF Promise!Next
  <2>4. ASSUME NEW k \in Keys, CountMulti(k), Calls("count", <<k>>) PROVE Promise!Next
    BY <2>4, MultiByKeyPromised, SameCalls DEF Promise!Next
  <2>5. QED
    BY <1>2, <2>1, <2>2, <2>3, <2>4 DEF MultiNext
<1>3. CASE CommonNext
  <2>1. ASSUME NEW p \in 1..Len(entries), Erase(p), Calls("erase", <<p>>) PROVE Promise!Next
    <3>1. Promise!EraseAt(p)
      BY <2>1 DEF Erase, Promise!EraseAt, RemoveRange, Return
    <3>2. QED
      BY <2>1, <3>1, SameCalls DEF Promise!Next
  <2>2. ASSUME NEW p \in Ranks(entries), NEW q \in Ranks(entries), p <= q,
               EraseRange(p, q), Calls("erase range", <<p, q>>)
        PROVE  Promise!Next
    BY <2>2, SameBounds, SameCalls DEF Promise!Next
  <2>3. ASSUME NEW k \in Keys, LowerBound(k), Calls("lower bound", <<k>>) PROVE Promise!Next
    BY <2>3, SearchPromised, SameCalls DEF Promise!Next
  <2>4. ASSUME NEW k \in Keys, UpperBound(k), Calls("upper bound", <<k>>) PROVE Promise!Next
    BY <2>4, SearchPromised, SameCalls DEF Promise!Next
  <2>5. ASSUME NEW k \in Keys, Find(k), Calls("find", <<k>>) PROVE Promise!Next
    BY <2>5, SearchPromised, SameCalls DEF Promise!Next
  <2>6. ASSUME Clear, Calls("clear", <<>>) PROVE Promise!Next
    BY <2>6, SameCalls DEF Clear, Promise!Next, Promise!Clear, Return, NoRank
  <2>7. ASSUME Copy, Calls("copy", <<>>) PROVE Promise!Next
    BY <2>7, SameCalls DEF Copy, Promise!Next, Promise!Copy, Return, NoRank
  <2>8. QED
    BY <1>3, <2>1, <2>2, <2>3, <2>4, <2>5, <2>6, <2>7 DEF CommonNext
<1>4. QED
  BY <1>1, <1>2, <1>3 DEF Next

-------------------------------------------------------------------------------
\* The invariant, and what follows from it.

\* The contents after a step OrderedEntries allows satisfy the invariant.
LEMMA PromiseKeepsInvariant == ASSUME IInv, Promise!Next PROVE IInv'
<1>1. /\ entries \in Seq(Entry) /\ Len(entries) <= MaxSize /\ Len(entries) \in Nat
      /\ ret \in [at : Nat, n : Nat]
      /\ Sorted(entries) /\ (~Multi => StrictlySorted(entries))
  BY DEF IInv, TypeOK, InOrder, NoDuplicateKeys
<1> DEFINE Kept == /\ entries' \in Seq(Entry) /\ Len(entries') <= MaxSize
                   /\ Sorted(entries') /\ (~Multi => StrictlySorted(entries'))
           Returned == ret' \in [at : Nat, n : Nat]
<1>2. SUFFICES Kept /\ Returned
  BY DEF IInv, TypeOK, InOrder, NoDuplicateKeys, Sorted, StrictlySorted
<1>3. ASSUME NEW e \in Entry, Promise!InsertNew(e) PROVE Kept /\ Returned
  <2>1. PICK p \in Ranks(entries) :
          /\ Fits(entries, e.key, p)
          /\ entries' = InsertAt(entries, p, e)
          /\ ret' = Return(p, 1)
    BY <1>3 DEF Promise!InsertNew, Fits, Ranks, EndRank, InsertAt, Promise!InsertAt, Return
  <2>2. Len(entries) < MaxSize /\ (Multi \/ ~HasKey(entries, e.key))
    BY <1>3 DEF Promise!InsertNew, HasKey
  <2>3. Kept
    BY <1>1, <2>1, <2>2, InsertingKeepsOrder, MaxSizeAssumption
  <2>4. Returned
    BY <1>1, <2>1 DEF Return, Ranks, EndRank
  <2>5. QED
    BY <2>3, <2>4
<1>4. ASSUME NEW p \in Ranks(entries), NEW q \in Ranks(entries), p <= q,
             entries' = RemoveRange(entries, p, q)
      PROVE  Kept
  <2>1. p \in Nat /\ q \in Nat /\ q - p \in Nat
    BY <1>1, <1>4 DEF Ranks, EndRank
  <2>2. QED
    BY <1>1, <1>4, <2>1, RemovingKeepsOrder, MaxSizeAssumption
<1>5. ASSUME NEW p \in Promise!Ranks(entries), NEW q \in Promise!Ranks(entries), p <= q,
             Promise!EraseRange(p, q)
      PROVE  Kept /\ Returned
  <2>1. p \in Ranks(entries) /\ q \in Ranks(entries) /\ q - p \in Nat
    BY <1>1, <1>5, SameBounds
  <2>2. entries' = RemoveRange(entries, p, q)
    BY <1>5 DEF Promise!EraseRange, RemoveRange
  <2>3. Returned
    BY <1>5, <2>1 DEF Promise!EraseRange
  <2>4. QED
    BY <1>4, <1>5, <2>1, <2>2, <2>3
<1>6. ASSUME NEW p \in 1..Len(entries), Promise!EraseAt(p) PROVE Kept /\ Returned
  <2>1. p \in Ranks(entries) /\ p + 1 \in Ranks(entries) /\ p <= p + 1
    BY <1>1 DEF Ranks, EndRank
  <2>2. entries' = RemoveRange(entries, p, p + 1)
    BY <1>6 DEF Promise!EraseAt, RemoveRange
  <2>3. Returned
    BY <1>6 DEF Promise!EraseAt
  <2>4. QED
    BY <1>4, <2>1, <2>2, <2>3
<1>7. ASSUME NEW k \in Keys, Promise!EraseKey(k) PROVE Kept /\ Returned
  <2>1. PICK p \in Promise!Ranks(entries), q \in Promise!Ranks(entries) :
          /\ Promise!IsLowerBound(entries, k, p)
          /\ Promise!IsUpperBound(entries, k, q)
          /\ Promise!EraseRange(p, q)
    BY <1>7 DEF Promise!EraseKey
  <2>2. p <= q
    BY <1>1, <2>1, BoundsOrdered
  <2>3. QED
    BY <1>5, <2>1, <2>2
<1>8. ASSUME NEW k \in Keys,
             Promise!LowerBound(k) \/ Promise!UpperBound(k) \/ Promise!Find(k) \/ Promise!Count(k)
      PROVE  Kept /\ Returned
  <2>1. UNCHANGED entries
    BY <1>8 DEF Promise!LowerBound, Promise!UpperBound, Promise!Find, Promise!Count
  <2>2. CASE Promise!Count(k)
    <3>1. PICK p \in Promise!Ranks(entries), q \in Promise!Ranks(entries) :
            /\ Promise!IsLowerBound(entries, k, p)
            /\ Promise!IsUpperBound(entries, k, q)
            /\ ret' = Promise!Return(Promise!NoRank, q - p)
      BY <2>2 DEF Promise!Count
    <3>2. p <= q
      BY <1>1, <3>1, BoundsOrdered
    <3>3. q - p \in Nat
      BY <1>1, <3>2
    <3>4. QED
      BY <1>1, <2>1, <3>1, <3>3
  <2>3. CASE Promise!LowerBound(k) \/ Promise!UpperBound(k) \/ Promise!Find(k)
    BY <1>1, <2>1, <2>3 DEF Promise!LowerBound, Promise!UpperBound, Promise!Find
  <2>4. QED
    BY <1>8, <2>2, <2>3
<1>9. ASSUME Promise!Clear PROVE Kept /\ Returned
  BY <1>9, MaxSizeAssumption DEF Promise!Clear, Sorted, StrictlySorted
<1>10. ASSUME NEW e \in Entry, Promise!InsertExisting(e) PROVE Kept /\ Returned
  BY <1>1, <1>10 DEF Promise!InsertExisting
<1>11. ASSUME Promise!Copy PROVE Kept /\ Returned
  BY <1>1, <1>11 DEF Promise!Copy
<1>12. ASSUME NEW e \in Entry, Promise!Insert(e) PROVE Kept /\ Returned
  BY <1>3, <1>10, <1>12 DEF Promise!Insert
<1>13. Promise!Entry = Entry /\ \A k \in Keys : Promise!DefaultEntry(k) \in Entry
  BY DefaultDataAssumption DEF Entry
<1> HIDE DEF Kept, Returned
<1>14. QED
  BY <1>5, <1>6, <1>7, <1>8, <1>9, <1>11, <1>12, <1>13 DEF Promise!Next

(***************************************************************************)
(* The invariant of the containers: for every set of keys and every        *)
(* sequence of calls, hinted or not, the contents are entries in key       *)
(* order, and no key is there twice in a unique container.                 *)
(***************************************************************************)
THEOREM Invariant == Spec => []IInv
<1>1. Init => IInv
  BY MaxSizeAssumption
  DEF Init, IInv, TypeOK, InOrder, NoDuplicateKeys, Sorted, StrictlySorted, Return, NoRank
<1>2. IInv /\ [Next]_vars => IInv'
  <2>1. ASSUME IInv, Next PROVE IInv'
    BY <2>1, StepPromised, PromiseKeepsInvariant
  <2>2. ASSUME IInv, UNCHANGED vars PROVE IInv'
    BY <2>2 DEF IInv, TypeOK, InOrder, NoDuplicateKeys, vars
  <2>3. QED
    BY <2>1, <2>2
<1>3. QED
  BY <1>1, <1>2, PTL DEF Spec

\* The variables hold entries, and calls return iterators and counts.
THEOREM TypeCorrect == Spec => []TypeOK
<1>1. IInv => TypeOK
  BY DEF IInv
<1>2. QED
  BY <1>1, Invariant, PTL

\* The contents are in key order whatever hints the callers give.
THEOREM AlwaysInOrder == Spec => []InOrder
<1>1. IInv => InOrder
  BY DEF IInv
<1>2. QED
  BY <1>1, Invariant, PTL

\* A unique container never holds a key twice.
THEOREM NeverTwice == Spec => []NoDuplicateKeys
<1>1. IInv => NoDuplicateKeys
  BY DEF IInv
<1>2. QED
  BY <1>1, Invariant, PTL

(***************************************************************************)
(* The operations of btree.tcc, at the level of ranks, keep the containers'*)
(* promise: each of their steps is one OrderedEntries allows.              *)
(***************************************************************************)
THEOREM KeepsPromise == Spec => ImplementsPromise
<1>1. Init => Promise!Init
  BY DEF Init, Promise!Init, Return, NoRank
<1>2. IInv /\ [Next]_vars => [Promise!Next]_(Promise!vars)
  BY StepPromised DEF vars, Promise!vars
<1>3. QED
  BY <1>1, <1>2, Invariant, PTL DEF Spec, ImplementsPromise, Promise!Spec
===============================================================================
