------------------------------- MODULE MCBTreeSeq -------------------------------
(***************************************************************************)
(* BTreeSeq for TLC: a unique container, entries, as a repository keeps    *)
(* its records in, and a multi container, references, as an index does.    *)
(* They share nothing, so calls on one while the other has been called     *)
(* show nothing new: the calls of a behaviour are all on one of the two.   *)
(* States that differ in the last call only are one state: no action reads *)
(* it, and each step is compared with OrderedEntries, call included,       *)
(* whether its successor is new or not.                                    *)
(***************************************************************************)
EXTENDS BTreeSeq

VARIABLES references, indexRet, indexCall

indexVars == <<references, indexRet, indexCall>>

Index == INSTANCE BTreeSeq
  WITH Multi <- TRUE, entries <- references, ret <- indexRet, call <- indexCall

PairInit == Init /\ Index!Init

PairNext ==
  \/ Index!Init /\ Next /\ UNCHANGED indexVars
  \/ Init /\ Index!Next /\ UNCHANGED vars

PairSpec == PairInit /\ [][PairNext]_<<vars, indexVars>>

(***************************************************************************)
(* ImplementsPromise of the multi container: hints and searches among      *)
(* equal keys keep the order, and each call does what the containers'      *)
(* callers are promised of a multi container.                              *)
(***************************************************************************)
IndexImplementsPromise == Index!ImplementsPromise

View == <<entries, ret, references, indexRet>>
===============================================================================
