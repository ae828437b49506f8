---------------------------- MODULE OrderedEntries ----------------------------
(***************************************************************************)
(* What the ordered containers of storage/btree promise their callers: a   *)
(* sequence of entries in key order, in which an insertion puts the new    *)
(* entry somewhere the order allows and disturbs nothing else, an erasure  *)
(* takes out exactly the entries it names, and every call that returns an  *)
(* iterator returns one that designates the entry the comment on it says.  *)
(* Nothing is said here of nodes, of hints or of how a position is found:  *)
(* BTreeSeq and BTree do that, and implement this module.                  *)
(***************************************************************************)
EXTENDS EntrySeq

VARIABLES
  entries,  \* the container's contents in iteration order
  ret,      \* what the last call returned: [at |-> iterator or NoRank, n |-> count]
  call      \* the last call and its arguments

vars == <<entries, ret, call>>

Calls(name, arguments) == call' = <<name, arguments>>
-------------------------------------------------------------------------------
Init == entries = <<>> /\ ret = Return(NoRank, 0) /\ call = <<"construct", <<>> >>

\* insert: a new entry goes where the order allows; the iterator designates it.
InsertNew(e) ==
  /\ Len(entries) < MaxSize
  /\ Multi \/ ~HasKey(entries, e.key)
  /\ \E i \in Ranks(entries) :
       /\ Fits(entries, e.key, i)
       /\ entries' = InsertAt(entries, i, e)
       /\ ret' = Return(i, 1)

\* insert into a unique container that holds the key: the old entry stays.
InsertExisting(e) ==
  /\ ~Multi
  /\ \E i \in 1..Len(entries) :
       /\ entries[i].key = e.key
       /\ ret' = Return(i, 0)
  /\ UNCHANGED entries

\* A hint given with an insertion is a hint: the promise is the same.
Insert(e) == InsertNew(e) \/ InsertExisting(e)

\* erase(iterator): the iterator returned designates the entry after it.
EraseAt(i) ==
  /\ entries' = RemoveRange(entries, i, i + 1)
  /\ ret' = Return(i, 1)

\* erase(first, last)
EraseRange(i, j) ==
  /\ entries' = RemoveRange(entries, i, j)
  /\ ret' = Return(NoRank, j - i)

\* erase(key): every entry with the key goes, and no other.
EraseKey(k) ==
  \E i, j \in Ranks(entries) :
    /\ IsLowerBound(entries, k, i)
    /\ IsUpperBound(entries, k, j)
    /\ EraseRange(i, j)

Clear == entries' = <<>> /\ ret' = Return(NoRank, 0)

\* A copy of a container has its contents.
Copy == UNCHANGED entries /\ ret' = Return(NoRank, 0)

\* lower_bound, upper_bound, find, count: nothing changes.
LowerBound(k) ==
  /\ \E i \in Ranks(entries) : IsLowerBound(entries, k, i) /\ ret' = Return(i, 0)
  /\ UNCHANGED entries
UpperBound(k) ==
  /\ \E i \in Ranks(entries) : IsUpperBound(entries, k, i) /\ ret' = Return(i, 0)
  /\ UNCHANGED entries
Find(k) ==
  /\ \E i \in Ranks(entries) :
       /\ IF HasKey(entries, k) THEN IsLowerBound(entries, k, i) ELSE i = EndRank(entries)
       /\ ret' = Return(i, 0)
  /\ UNCHANGED entries
Count(k) ==
  /\ \E i, j \in Ranks(entries) :
       /\ IsLowerBound(entries, k, i)
       /\ IsUpperBound(entries, k, j)
       /\ ret' = Return(NoRank, j - i)
  /\ UNCHANGED entries

Next ==
  \/ \E e \in Entry, hint \in Ranks(entries) \cup {NoRank} :
       Calls("insert", <<hint, e>>) /\ Insert(e)
  \/ \E i \in 1..Len(entries) : Calls("erase", <<i>>) /\ EraseAt(i)
  \/ \E i, j \in Ranks(entries) : Calls("erase range", <<i, j>>) /\ i <= j /\ EraseRange(i, j)
  \/ \E k \in Keys :
       \/ Calls("subscript", <<k>>) /\ ~Multi /\ Insert(DefaultEntry(k))
       \/ Calls("erase key", <<k>>) /\ EraseKey(k)
       \/ Calls("lower bound", <<k>>) /\ LowerBound(k)
       \/ Calls("upper bound", <<k>>) /\ UpperBound(k)
       \/ Calls("find", <<k>>) /\ Find(k)
       \/ Calls("count", <<k>>) /\ Count(k)
  \/ Calls("clear", <<>>) /\ Clear
  \/ Calls("copy", <<>>) /\ Copy

Spec == Init /\ [][Next]_vars
===============================================================================
