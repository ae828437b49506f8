------------------------------- MODULE MCBuffer -------------------------------
(***************************************************************************)
(* Buffer for TLC.  States that differ in the last call and what it        *)
(* returned are one state: no action reads them, and each step is compared *)
(* with ByteQueues, call and result included, whether its successor is new *)
(* or not.                                                                 *)
(***************************************************************************)
EXTENDS Buffer

View == buffer
===============================================================================
