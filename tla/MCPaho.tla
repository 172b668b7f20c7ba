------------------------------- MODULE MCPaho -------------------------------
(***************************************************************************)
(* Values of the constants of Paho for TLC.                                *)
(***************************************************************************)
EXTENDS Paho

MCQoS == [m \in Message \cup Arriving |->
             IF m \in {"p0", "a0"} THEN 0 ELSE IF m \in {"p1", "a1"} THEN 1 ELSE 2]
=============================================================================
