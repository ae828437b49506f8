------------------------------- MODULE Storehouse -------------------------------
(***************************************************************************)
(* A storage: a repository of records, an indexer, or a storehouse, which  *)
(* is both (storage/basic_repository.h, basic_indexer.h,                   *)
(* basic_storehouse.h, storage_base.h).  Only members that compile when a  *)
(* program uses them are actions.  What the bodies of most of them did is  *)
(* commented out.                                                          *)
(***************************************************************************)
EXTENDS Naturals, Functions

CONSTANTS Keys, Values, Names, NoName

VARIABLES
  kind,      \* "repository", "indexer" or "storehouse"
  name,      \* storage_base::_name
  records,   \* basic_repository::_container
  indexes,   \* basic_indexer::_indexes, each name with how many indexes it has
  ret,       \* what the last call returned
  call       \* the last call and its arguments

vars == <<kind, name, records, indexes, ret, call>>

Records == kind \in {"repository", "storehouse"}
Indexes == kind \in {"indexer", "storehouse"}

Void == "void"

\* The constructors.  storage_base is a virtual base: a storehouse, which is
\* the most derived class, constructs it without the name.
Init ==
  /\ kind \in {"repository", "indexer", "storehouse"}
  /\ \E n \in Names : /\ name = IF kind = "storehouse" THEN NoName ELSE n
                      /\ call = <<"construct", n>>
  /\ records = <<>> /\ indexes = <<>> /\ ret = Void

Calls(member, arguments) == call' = <<member, arguments>>

Unchanged(result) == ret' = result /\ UNCHANGED <<kind, name, records, indexes>>

-------------------------------------------------------------------------------
\* basic_repository.  (get is not called: it is declared, or ends without a value.)
Open == Unchanged(FALSE)
LowerBound(k) == Unchanged(FALSE)
UpperBound(k) == Unchanged(FALSE)
PutRecord(k, v) == Unchanged(FALSE)
Exists(k) == Unchanged(FALSE)
\* update of a part of a record.
UpdatePart(k, v) == Unchanged(Void)
EraseRecord(k) ==
  /\ records' = Restrict(records, DOMAIN records \ {k})
  /\ ret' = Void /\ UNCHANGED <<kind, name, indexes>>
RecordsEmpty == Unchanged(records = <<>>)
\* From begin() to end(), and from rbegin() to rend(), which returns rbegin().
IterateRecords == Unchanged(DOMAIN records)
IterateReversed == Unchanged({})

\* basic_indexer; end() returns begin().
CountIndexes == Unchanged(IF indexes = <<>> THEN 0 ELSE FoldFunction(+, 0, indexes))
IterateIndexes == Unchanged({})
IterateIndexesReversed == Unchanged(DOMAIN indexes)

\* basic_storehouse
Put(k, v, ikeys) == Unchanged(Void)
Update(k, v, ikeys) == Unchanged(Void)
Del(k, ikeys) == Unchanged(Void)
\* repository::close and indexer::close
Close == Unchanged(Void)

-------------------------------------------------------------------------------
RepositoryNext ==
  /\ Records
  /\ \/ Calls("open", name) /\ Open
     \/ \E k \in Keys : \/ Calls("lower bound", k) /\ LowerBound(k)
                        \/ Calls("upper bound", k) /\ UpperBound(k)
                        \/ Calls("exists", k) /\ Exists(k)
                        \/ Calls("repository del", k) /\ EraseRecord(k)
                        \/ \E v \in Values : Calls("repository put", <<k, v>>) /\ PutRecord(k, v)
                        \/ \E v \in Values : Calls("update part", <<k, v>>) /\ UpdatePart(k, v)
     \/ Calls("empty", <<>>) /\ RecordsEmpty
     \/ Calls("begin to end", <<>>) /\ IterateRecords
     \/ Calls("rbegin to rend", <<>>) /\ IterateReversed

IndexerNext ==
  /\ Indexes
  /\ \/ Calls("size", <<>>) /\ CountIndexes
     \/ Calls("indexes begin to end", <<>>) /\ IterateIndexes
     \/ Calls("indexes rbegin to rend", <<>>) /\ IterateIndexesReversed

StorehouseNext ==
  /\ kind = "storehouse"
  /\ \E k \in Keys, ikeys \in SUBSET Names :
       \/ Calls("del", <<k, ikeys>>) /\ Del(k, ikeys)
       \/ \E v \in Values : \/ Calls("put", <<k, v, ikeys>>) /\ Put(k, v, ikeys)
                            \/ Calls("update", <<k, v, ikeys>>) /\ Update(k, v, ikeys)

Next ==
  \/ RepositoryNext
  \/ IndexerNext
  \/ StorehouseNext
  \/ Calls("close", <<>>) /\ Close

Spec == Init /\ [][Next]_vars

-------------------------------------------------------------------------------
(***************************************************************************)
(* put on a storehouse leaves the record in it.  (basic_storehouse.h:68:   *)
(* "insert a value node to the storage, all relative indexes are also      *)
(* updated".)                                                              *)
(***************************************************************************)
PutIsStored ==
  [][\A k \in Keys, v \in Values, ikeys \in SUBSET Names :
       call' = <<"put", <<k, v, ikeys>> >> => k \in DOMAIN records' /\ records'[k] = v]_vars
===============================================================================
