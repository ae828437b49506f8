------------------------------- MODULE BTreeSeq -------------------------------
(***************************************************************************)
(* The operations of btree (storage/btree/btree.tcc) as they act on the    *)
(* contents in iteration order: where each of them decides to insert, from *)
(* a key or from a caller's hint, what it erases and what it returns.  The *)
(* nodes that hold the contents are in BTree, which implements this module;*)
(* this module implements OrderedEntries.                                  *)
(***************************************************************************)
EXTENDS EntrySeq

VARIABLES
  entries,  \* the contents in iteration order
  ret,      \* what the last call returned
  call      \* the last call and its arguments; no action reads it

vars == <<entries, ret, call>>

Calls(name, arguments) == call' = <<name, arguments>>

Init == entries = <<>> /\ ret = Return(NoRank, 0) /\ call = <<"construct", <<>> >>

-------------------------------------------------------------------------------
\* internal_insert: a new entry immediately before the iterator p.
InternalInsert(p, e) ==
  /\ Len(entries) < MaxSize
  /\ entries' = InsertAt(entries, p, e)
  /\ ret' = Return(p, 1)

\* An iterator to an entry already there; nothing is inserted.
AlreadyAt(p) == UNCHANGED entries /\ ret' = Return(p, 0)

\* insert_unique(v): nothing is inserted if the lower bound has the key.
InsertUnique(e) ==
  \E p \in Ranks(entries) :
    /\ IsLowerBound(entries, e.key, p)
    /\ IF p # EndRank(entries) /\ entries[p].key = e.key
       THEN AlreadyAt(p)
       ELSE InternalInsert(p, e)

\* insert_multi(v): after every entry with the key.
InsertMulti(e) ==
  \E p \in Ranks(entries) :
    /\ IsUpperBound(entries, e.key, p)
    /\ InternalInsert(p, e)

\* Mutant: a hint that has the key taken for a later entry.
UniqueBeforeOrAt(h, k) == h # EndRank(entries) => k <= entries[h].key

\* What insert_unique(position, v) asks of the hint h, in its order.
UniqueBefore(h, k) == h # EndRank(entries) => k < entries[h].key
UniqueAfter(h, k)  == ~UniqueBefore(h, k) /\ entries[h].key < k
UniqueAt(h, k)     == ~UniqueBefore(h, k) /\ ~UniqueAfter(h, k)
UniqueFitsBefore(h, k) == UniqueBefore(h, k) /\ (h # 1 => entries[h - 1].key < k)

\* Mutant: the entry after the hint not looked at.
UniqueFitsAfterAny(h, k) == UniqueAfter(h, k)

UniqueFitsAfter(h, k)  == UniqueAfter(h, k) /\ UniqueBefore(h + 1, k)

\* insert_unique(position, v)
InsertUniqueHint(h, e) ==
  IF entries = <<>> THEN InsertUnique(e)
  ELSE \/ UniqueFitsBefore(h, e.key) /\ InternalInsert(h, e)
       \/ UniqueFitsAfter(h, e.key) /\ InternalInsert(h + 1, e)
       \/ UniqueAt(h, e.key) /\ AlreadyAt(h)
       \/ /\ UniqueBefore(h, e.key) /\ ~UniqueFitsBefore(h, e.key)
          /\ InsertUnique(e)
       \/ /\ UniqueAfter(h, e.key) /\ ~UniqueFitsAfter(h, e.key)
          /\ InsertUnique(e)

\* What insert_multi(position, v) asks of the hint h.
MultiBefore(h, k) == h # EndRank(entries) => k <= entries[h].key

\* Mutant: the entry before the hint not looked at.
MultiFitsBeforeAny(h, k) == MultiBefore(h, k)

MultiFitsBefore(h, k) == MultiBefore(h, k) /\ (h # 1 => entries[h - 1].key <= k)
MultiFitsAfter(h, k)  == ~MultiBefore(h, k) /\ MultiBefore(h + 1, k)

\* insert_multi(position, v)
InsertMultiHint(h, e) ==
  IF entries = <<>> THEN InsertMulti(e)
  ELSE \/ MultiFitsBefore(h, e.key) /\ InternalInsert(h, e)
       \/ MultiFitsAfter(h, e.key) /\ InternalInsert(h + 1, e)
       \/ /\ ~MultiFitsBefore(h, e.key) /\ ~MultiFitsAfter(h, e.key)
          /\ InsertMulti(e)

\* btree_map_container::operator[]
Subscript(k) == InsertUnique(DefaultEntry(k))

\* erase(iterator)
Erase(p) ==
  /\ entries' = RemoveRange(entries, p, p + 1)
  /\ ret' = Return(p, 1)

\* Mutant: the distance taken backwards.
EraseRangeBackwards(p, q) ==
  /\ entries' = RemoveRange(entries, p, q)
  /\ ret' = Return(NoRank, p - q)

\* erase(begin, end): count calls of erase(begin), each from where the last
\* one returned.
EraseRange(p, q) ==
  /\ entries' = RemoveRange(entries, p, q)
  /\ ret' = Return(NoRank, q - p)

\* erase_unique(key): the entry find_unique finds, if there is one.
EraseUnique(k) ==
  \E p \in Ranks(entries) :
    /\ IsLowerBound(entries, k, p)
    /\ EraseRange(p, IF p # EndRank(entries) /\ entries[p].key = k THEN p + 1 ELSE p)

\* Mutant: the first entry with the key only, as in a unique container.
EraseFirst(k) == EraseUnique(k)

\* erase_multi(key): from lower_bound(key) to upper_bound(key).
EraseMulti(k) ==
  \E p, q \in Ranks(entries) :
    /\ IsLowerBound(entries, k, p)
    /\ IsUpperBound(entries, k, q)
    /\ EraseRange(p, q)

Clear == entries' = <<>> /\ ret' = Return(NoRank, 0)

\* The copy constructor and assign: a copy has the same contents.
Copy == UNCHANGED entries /\ ret' = Return(NoRank, 0)

\* Mutant of find: the lower bound returned whatever its key.
FindAny(k) ==
  \E p \in Ranks(entries) : IsLowerBound(entries, k, p) /\ AlreadyAt(p)

\* lower_bound, upper_bound, find_unique and find_multi
LowerBound(k) ==
  \E p \in Ranks(entries) : IsLowerBound(entries, k, p) /\ AlreadyAt(p)
UpperBound(k) ==
  \E p \in Ranks(entries) : IsUpperBound(entries, k, p) /\ AlreadyAt(p)
Find(k) ==
  \E p \in Ranks(entries) :
    /\ IsLowerBound(entries, k, p)
    /\ AlreadyAt(IF p # EndRank(entries) /\ entries[p].key = k THEN p ELSE EndRank(entries))

\* count_multi: the distance from lower_bound(key) to upper_bound(key).
CountMulti(k) ==
  \E p, q \in Ranks(entries) :
    /\ IsLowerBound(entries, k, p)
    /\ IsUpperBound(entries, k, q)
    /\ UNCHANGED entries
    /\ ret' = Return(NoRank, q - p)

\* count_unique: 1 if find_unique finds the key.
CountUnique(k) ==
  \E p \in Ranks(entries) :
    /\ IsLowerBound(entries, k, p)
    /\ UNCHANGED entries
    /\ ret' = Return(NoRank, IF p # EndRank(entries) /\ entries[p].key = k THEN 1 ELSE 0)

-------------------------------------------------------------------------------
\* The calls btree_unique_container / btree_map_container forward to the tree.
UniqueNext ==
  /\ ~Multi
  /\ \/ \E e \in Entry :
          \/ Calls("insert", <<NoRank, e>>) /\ InsertUnique(e)
          \/ \E h \in Ranks(entries) : Calls("insert", <<h, e>>) /\ InsertUniqueHint(h, e)
     \/ \E k \in Keys :
          \/ Calls("subscript", <<k>>) /\ Subscript(k)
          \/ Calls("erase key", <<k>>) /\ EraseUnique(k)
          \/ Calls("count", <<k>>) /\ CountUnique(k)

\* The calls btree_multi_container forwards to the tree.
MultiNext ==
  /\ Multi
  /\ \/ \E e \in Entry :
          \/ Calls("insert", <<NoRank, e>>) /\ InsertMulti(e)
          \/ \E h \in Ranks(entries) : Calls("insert", <<h, e>>) /\ InsertMultiHint(h, e)
     \/ \E k \in Keys :
          \/ Calls("erase key", <<k>>) /\ EraseMulti(k)
          \/ Calls("count", <<k>>) /\ CountMulti(k)

\* The calls every container forwards.
CommonNext ==
  \/ \E p \in 1..Len(entries) : Calls("erase", <<p>>) /\ Erase(p)
  \/ \E p, q \in Ranks(entries) : Calls("erase range", <<p, q>>) /\ p <= q /\ EraseRange(p, q)
  \/ \E k \in Keys :
       \/ Calls("lower bound", <<k>>) /\ LowerBound(k)
       \/ Calls("upper bound", <<k>>) /\ UpperBound(k)
       \/ Calls("find", <<k>>) /\ Find(k)
  \/ Calls("clear", <<>>) /\ Clear
  \/ Calls("copy", <<>>) /\ Copy

Next == UniqueNext \/ MultiNext \/ CommonNext

Spec == Init /\ [][Next]_vars
-------------------------------------------------------------------------------
TypeOK ==
  /\ entries \in Seq(Entry)
  /\ Len(entries) <= MaxSize
  /\ ret \in [at : Nat, n : Nat]

(***************************************************************************)
(* The contents are in key order whatever hints the callers gave: the      *)
(* comparisons with the hint's neighbours in insert_unique(position, v)    *)
(* and insert_multi(position, v) are enough to insert without a search.    *)
(***************************************************************************)
InOrder == Sorted(entries)

(***************************************************************************)
(* A unique container never holds a key twice: a hinted insertion looks    *)
(* only at the hint and one neighbour, and a search is skipped when they   *)
(* bracket the key.                                                        *)
(***************************************************************************)
NoDuplicateKeys == ~Multi => StrictlySorted(entries)

\* The inductive invariant behind the properties above.
IInv == TypeOK /\ InOrder /\ NoDuplicateKeys

(***************************************************************************)
(* Every call behaves as the containers' callers are promised: hinted      *)
(* insertions insert where the order allows and nowhere else, a duplicate  *)
(* is refused exactly when the key is there, erase(key) takes all and only *)
(* the entries with the key.                                               *)
(***************************************************************************)
Promise == INSTANCE OrderedEntries
ImplementsPromise == Promise!Spec
===============================================================================
