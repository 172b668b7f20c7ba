------------------------------ MODULE MqttLink ------------------------------
(***************************************************************************)
(* What the documentation of the MQTT client promises a page about its     *)
(* connection: connect() is needed for every connection; it is answered by *)
(* onSuccess or by onFailure, and only a connection that was established   *)
(* is reported lost.  Reloading the page forgets everything.               *)
(***************************************************************************)
EXTENDS Naturals

VARIABLES
    phase,  \* "closed", "connecting" or "connected"
    told,   \* the last callback since connect(): onSuccess, onFailure, ...
    calls   \* connect() calls so far

link_vars == <<phase, told, calls>>

LinkInit == phase = "closed" /\ told = "nothing" /\ calls = 0

Connect ==
    /\ phase = "closed"
    /\ phase' = "connecting"
    /\ told' = "nothing"
    /\ calls' = calls + 1

Succeed ==
    /\ phase = "connecting"
    /\ phase' = "connected"
    /\ told' = "onSuccess"
    /\ UNCHANGED calls

Fail ==
    /\ phase = "connecting"
    /\ phase' = "closed"
    /\ told' = "onFailure"
    /\ UNCHANGED calls

Lose ==
    /\ phase = "connected"
    /\ phase' = "closed"
    /\ told' = "onConnectionLost"
    /\ UNCHANGED calls

Reload ==
    /\ phase' = "closed"
    /\ told' = "nothing"
    /\ UNCHANGED calls

LinkNext == Connect \/ Succeed \/ Fail \/ Lose \/ Reload

LinkSpec == LinkInit /\ [][LinkNext]_link_vars
=============================================================================
