------------------------------ MODULE BTreeAlias ------------------------------
(***************************************************************************)
(* A multi container whose callers insert, besides values of their own, a  *)
(* value of the container itself, by an iterator to it.  insert_multi has  *)
(* a reference to it, and internal_insert reads it after it made room.     *)
(***************************************************************************)
EXTENDS MCBTree

CONSTANT FreedIsReused   \* a Boolean: FALSE if memory that was freed keeps what it held

\* What may be read through a reference to slot it after room was made in u:
\* the value there now, or, of a slot no longer in use, anything.
ReadAfter(u, it) ==
  IF it.node \in DOMAIN u.node /\ it.position < NodeCount(u, it.node)
  THEN {At(u, it)}
  ELSE IF FreedIsReused THEN Entry ELSE {At(tree, it)}

\* insert_multi(v) with v the value at own.  The position to insert at is found
\* before anything moves.
InsertOwn(own) ==
  LET at == InternalEnd(tree, InternalUpperBound(tree, KeyAt(tree, own)))
      room == MakeRoom(tree, LeafPosition(tree, at))
  IN \E e \in ReadAfter(room.t, own) : Inserts(InsertInLeaf(room, e))

AliasNext ==
  \/ \E k \in Keys, d \in Data : LET e == [key |-> k, data |-> d] IN
       Calls("insert", <<NoRank, e>>) /\ InsertMulti(e)
  \/ \E i \in 1..Len(contents) : Calls("insert own", <<i>>) /\ InsertOwn(Positions[i])

(***************************************************************************)
(* Inserting a value of the container leaves the container with that value *)
(* once more, after those equal to it.  (What insert_multi says of itself, *)
(* btree.h:840: "Inserts a value into the btree.")                         *)
(***************************************************************************)
OwnValueInserted ==
  [][\A i \in DOMAIN contents :
       call' = <<"insert own", <<i>> >> =>
         \E at \in Ranks(contents) :
           /\ IsUpperBound(contents, contents[i].key, at)
           /\ contents' = InsertAt(contents, at, contents[i])]_vars

AliasSpec == Init /\ [][AliasNext]_vars
===============================================================================
