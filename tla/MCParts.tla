------------------------------- MODULE MCParts -------------------------------
(***************************************************************************)
(* The parts of the library that stand alone, for TLC: two buffers, a      *)
(* message with the example client, the status of a storage, and the sizes *)
(* of the nodes of trees.  In each behaviour one of them moves.            *)
(***************************************************************************)
EXTENDS MCBuffer, Messages, Sts, NodeSizes

VARIABLE part   \* the part that moves

partsVars == <<part, vars, messageVars, stsVars, params>>

\* The template arguments while no other tree is instantiated.
FirstParams == CHOOSE p \in NodeParams : TRUE

\* Uninitialized memory has one content in the parts that do not move.
PartsInit ==
  /\ part \in {"buffer", "message", "sts", "nodes"}
  /\ Init /\ MessageInit /\ StsInit /\ params = FirstParams
  /\ part # "buffer" => \A n, m \in Buffers, i, j \in Positions :
                          buffer[n].bytes[i] = buffer[m].bytes[j]
  /\ part # "message" => \A i, j \in DOMAIN header : header[i] = header[j]

PartsNext ==
  /\ UNCHANGED part
  /\ \/ part = "buffer" /\ Next /\ UNCHANGED <<messageVars, stsVars, params>>
     \/ part = "message" /\ MessageNext /\ UNCHANGED <<vars, stsVars, params>>
     \/ part = "sts" /\ StsNext /\ UNCHANGED <<vars, messageVars, params>>
     \/ part = "nodes" /\ NodeSizesNext /\ UNCHANGED <<vars, messageVars, stsVars>>

PartsSpec == PartsInit /\ [][PartsNext]_partsVars

PartsView == <<part, View, messageVars, stsVars, params>>
===============================================================================
