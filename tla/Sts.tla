---------------------------------- MODULE Sts ----------------------------------
(***************************************************************************)
(* The status of a storage (storage/sts.h), after the one of a stream: a   *)
(* set of bits, and a mask of those that are to be thrown.  A set of bits  *)
(* stands for the number its flags make up.                                *)
(***************************************************************************)
EXTENDS FiniteSets

VARIABLES
  state,      \* _state
  exception,  \* _exception
  thrown      \* TRUE if the last call ended with an exception

stsVars == <<state, exception, thrown>>

badbit  == "bad"
eofbit  == "eof"
failbit == "fail"
goodbit == {}
Bits == {badbit, eofbit, failbit}

StsInit == state = goodbit /\ exception = goodbit /\ thrown = FALSE

\* What callers are told.
good == state = goodbit
eof  == eofbit \in state
fail == state \cap {badbit, failbit} # {}
bad  == badbit \in state

\* clear(f), with mask the exceptions: the state changes before anything is
\* thrown.
ClearTo(f, mask) ==
  /\ state' = f
  /\ thrown' = (mask \cap f # {})

clear(f) == ClearTo(f, exception) /\ UNCHANGED exception

setstate(f) == clear(state \cup f)

\* Mutant: the mask is set and the state not looked at.
exceptionsUnchecked(ex) == exception' = ex /\ thrown' = FALSE /\ UNCHANGED state

\* exceptions(ex)
exceptions(ex) == exception' = ex /\ ClearTo(state, ex)

StsNext ==
  \E f \in SUBSET Bits : clear(f) \/ setstate(f) \/ exceptions(f)

StsSpec == StsInit /\ [][StsNext]_stsVars

(***************************************************************************)
(* A caller whose call returned has no bit raised that it asked to have    *)
(* thrown: not by setstate, and not by asking when the bit was raised      *)
(* before.  With bad and fail in the mask, then, fail() is FALSE.          *)
(***************************************************************************)
ReturnedIsClean ==
  /\ ~thrown => state \cap exception = {}
  /\ ~thrown /\ {badbit, failbit} \subseteq exception => ~fail
===============================================================================
