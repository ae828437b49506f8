------------------------------- MODULE EntrySeq -------------------------------
(***************************************************************************)
(* Sequences of entries in key order, which is what iterating over one of  *)
(* the ordered containers of storage/btree yields.  An iterator is the     *)
(* rank of the entry it designates, 1..Len(s), and end() is the rank one   *)
(* past the last entry.                                                    *)
(***************************************************************************)
EXTENDS Integers, Sequences, SequencesExt

CONSTANTS
  Keys,         \* the keys; key_compare is < on them
  Data,         \* what an entry carries besides its key
  DefaultData,  \* data_type() of operator[]
  Multi,        \* TRUE for btree_multi_container, FALSE for btree_unique_container
  MaxSize       \* bound on the number of entries (max_size() in the code)

ASSUME KeysAssumption == Keys \subseteq Int
ASSUME DefaultDataAssumption == DefaultData \in Data
ASSUME MultiAssumption == Multi \in BOOLEAN
ASSUME MaxSizeAssumption == MaxSize \in Nat

Entry == [key : Keys, data : Data]
DefaultEntry(k) == [key |-> k, data |-> DefaultData]

\* What a call returns: an iterator (NoRank if none) and a number of entries.
NoRank == 0
Return(at, n) == [at |-> at, n |-> n]

\* The iterators from begin() to end().
EndRank(s) == Len(s) + 1
Ranks(s) == 1..EndRank(s)

\* i is the first rank whose key is not less than k.
IsLowerBound(s, k, i) ==
  /\ i \in Ranks(s)
  /\ \A j \in 1..Len(s) : j < i <=> s[j].key < k

\* i is the first rank whose key is greater than k.
IsUpperBound(s, k, i) ==
  /\ i \in Ranks(s)
  /\ \A j \in 1..Len(s) : j < i <=> s[j].key <= k

\* An entry with key k put at rank i leaves the sequence in key order.
Fits(s, k, i) ==
  /\ i \in Ranks(s)
  /\ \A j \in 1..Len(s) : IF j < i THEN s[j].key <= k ELSE k <= s[j].key

HasKey(s, k) == \E j \in 1..Len(s) : s[j].key = k

\* s without the ranks i .. j-1.
RemoveRange(s, i, j) == SubSeq(s, 1, i - 1) \o SubSeq(s, j, Len(s))

Sorted(s) == \A i, j \in 1..Len(s) : i < j => s[i].key <= s[j].key
StrictlySorted(s) == \A i, j \in 1..Len(s) : i < j => s[i].key < s[j].key
===============================================================================
