------------------------------ MODULE NodeSearch ------------------------------
(***************************************************************************)
(* The search for a key within one node (btree.h): linear or binary, with  *)
(* a less-than or a compare-to function, for the lower or the upper bound. *)
(* One step is one turn of the loop.  BTreeOps uses only what is shown     *)
(* here of the result.                                                     *)
(***************************************************************************)
EXTENDS Integers, Sequences

CONSTANTS
  Keys,        \* the keys, ordered by <
  kNodeValues  \* how many values fit in a node

ASSUME KeysAssumption == Keys \subseteq Int
ASSUME kNodeValuesAssumption == kNodeValues \in Nat

VARIABLES
  keys,      \* the keys of the node, in order
  k,         \* the key looked for
  bound,     \* which bound is looked for: "lower" or "upper"
  search,    \* search_type of the node: "linear" or "binary"
  compare,   \* key_compare: "less than" or "compare to"
  s, e,      \* the result is in s..e, positions counted from 0
  match,     \* kExactMatch if it is to be set in the result, else 0
  pc         \* "loop" or, with s the result, "done"

parameters == <<keys, k, bound, search, compare>>
vars == <<parameters, s, e, match, pc>>

kExactMatch == 2^30

count == Len(keys)
Key(i) == keys[i + 1]

InOrder(q) == \A i, j \in 1..Len(q) : i < j => q[i] <= q[j]
NodeKeys == {q \in UNION {[1..n -> Keys] : n \in 0..kNodeValues} : InOrder(q)}

Init ==
  /\ keys \in NodeKeys
  /\ k \in Keys
  /\ bound \in {"lower", "upper"}
  /\ search \in {"linear", "binary"}
  /\ compare \in {"less than", "compare to"}
  /\ s = 0 /\ e = count
  /\ match = 0
  /\ pc = "loop"

-------------------------------------------------------------------------------
\* The dispatch helpers: an upper bound by a compare-to function is searched
\* for linearly, with the function made into a less-than.
Linear == search = "linear" \/ (compare = "compare to" /\ bound = "upper")
ThreeWay == compare = "compare to" /\ bound = "lower"

\* What a compare-to function returns, of which only the sign is looked at.
Compared(x, y) == IF x < y THEN -1 ELSE IF x = y THEN 0 ELSE 1

\* btree_compare_keys, which makes a less-than of a compare-to function.
Less(x, y) == IF compare = "compare to" THEN Compared(x, y) < 0 ELSE x < y

\* Mutant: the adapter for an upper bound compares without exchanging.
BeforeUnswapped(x) == IF bound = "upper" THEN ~Less(x, k) ELSE Less(x, k)

\* The comparison the loops make; the adapter for an upper bound exchanges
\* the arguments and negates.
Before(x) == IF bound = "upper" THEN ~Less(k, x) ELSE Less(x, k)

Found(i) == IF ThreeWay /\ Compared(Key(i), k) = 0 THEN kExactMatch ELSE 0

Set(flag) == IF flag = 0 THEN match ELSE flag   \* match | flag

Advance(to) == s' = to /\ UNCHANGED <<e, match, pc, parameters>>
Narrow(to, found) ==
  /\ e' = to
  /\ match' = Set(found)
  /\ UNCHANGED <<s, pc, parameters>>
Return(found) ==
  /\ pc' = "done"
  /\ match' = Set(found)
  /\ UNCHANGED <<s, e, parameters>>

\* Mutant: a match is not reported.
LinearStepInexact ==
  /\ pc = "loop" /\ Linear /\ s < e
  /\ IF Before(Key(s)) THEN Advance(s + 1) ELSE Return(0)

\* linear_search_plain_compare and linear_search_compare_to
LinearStep ==
  /\ pc = "loop" /\ Linear /\ s < e
  /\ IF Before(Key(s)) THEN Advance(s + 1) ELSE Return(Found(s))

mid == (s + e) \div 2

\* Mutant: the left half is kept from mid on.
BinaryStepStuck ==
  /\ pc = "loop" /\ ~Linear /\ s # e
  /\ IF Before(Key(mid)) THEN Advance(mid) ELSE Narrow(mid, Found(mid))

\* binary_search_plain_compare and binary_search_compare_to; the latter, on a
\* match, calls itself on s..mid and sets kExactMatch in what that returns.
BinaryStep ==
  /\ pc = "loop" /\ ~Linear /\ s # e
  /\ IF Before(Key(mid)) THEN Advance(mid + 1) ELSE Narrow(mid, Found(mid))

\* The condition of the loop is false.
Exhausted ==
  /\ pc = "loop"
  /\ IF Linear THEN ~(s < e) ELSE s = e
  /\ Return(0)

Next == LinearStep \/ BinaryStep \/ Exhausted

Spec == Init /\ [][Next]_vars /\ WF_vars(Next)

-------------------------------------------------------------------------------
(***************************************************************************)
(* lower_bound and upper_bound of a node, by whichever of the searches:    *)
(* the first position whose key is not less than (greater than) k, with    *)
(* equal keys in the node too.                                             *)
(***************************************************************************)
FindsBound ==
  pc = "done" => /\ s \in 0..count
                 /\ \A j \in 0..count - 1 :
                      j < s <=> IF bound = "lower" THEN Key(j) < k ELSE Key(j) <= k

(***************************************************************************)
(* The compare-to searches set kExactMatch exactly if the key at the       *)
(* position they return is k, though the match they saw may have been at   *)
(* a later position; internal_locate_compare_to returns it unverified.     *)
(***************************************************************************)
ExactIfFound ==
  pc = "done" => (match = kExactMatch <=> ThreeWay /\ s < count /\ Key(s) = k)

\* Every search returns: each turn of a loop leaves less to search.
Terminates == <>(pc = "done")

-------------------------------------------------------------------------------
\* The invariant of the loops.  The positions from limit on are decided.
limit == IF pc = "done" THEN s ELSE e

Bounds ==
  /\ keys \in NodeKeys /\ k \in Keys /\ bound \in {"lower", "upper"}
  /\ pc \in {"loop", "done"} /\ match \in {0, kExactMatch}
  /\ s \in 0..count /\ e \in s..count
  /\ Linear /\ pc = "loop" => e = count
LeftDecided == \A j \in 0..count - 1 : j < s => Before(Key(j))
RightDecided == \A j \in 0..count - 1 : limit <= j => ~Before(Key(j))
\* A match seen is at limit, and no match is beyond it unless one was seen.
MatchAtLimit == match = kExactMatch => ThreeWay /\ limit < count /\ Key(limit) = k
NoMatchMissed ==
  ThreeWay /\ match = 0 => \A j \in 0..count - 1 : limit <= j => Key(j) # k

LoopInv == Bounds /\ LeftDecided /\ RightDecided /\ MatchAtLimit /\ NoMatchMissed
===============================================================================
