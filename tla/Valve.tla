------------------------------- MODULE Valve -------------------------------
(***************************************************************************)
(* What a remotely controlled actuator (thermostatic valve, air            *)
(* conditioner or relay) promises to its controllers, whatever the network *)
(* and the power supply do:                                                *)
(*                                                                         *)
(*  - it moves only because of a request some controller published;        *)
(*  - it takes requests up in the order they were published, may miss      *)
(*    some, may repeat the newest one it took, and never goes back to an   *)
(*    older one;                                                           *)
(*  - it moves only to the state the newest request it took asks for.      *)
(*                                                                         *)
(* Walvola.tla implements this specification.                              *)
(***************************************************************************)
EXTENDS Naturals, Sequences

CONSTANTS
    Request,      \* requests the controllers can publish
    RestingState  \* where the actuator goes when it loses power, or
                  \* "STAYS" if it stays where it is

VARIABLES
    requests,     \* every request published so far, in publication order
    accepted,     \* the newest request taken up (0: none yet)
    actuator      \* where the actuator is

valve_vars == <<requests, accepted, actuator>>

(***************************************************************************)
(* The state the newest accepted request asks for; {} if it asks for none. *)
(***************************************************************************)
Asked == {requests[n].value : n \in {n \in {accepted} \cap DOMAIN requests :
                                        requests[n].cmd = "SET_STATUS"}}

Init ==
    /\ requests = <<>>
    /\ accepted = 0
    /\ actuator \in {"ON", "OFF"}

Ask == \E r \in Request :
    /\ requests' = Append(requests, r)
    /\ UNCHANGED <<accepted, actuator>>

Accept == \E n \in DOMAIN requests :
    /\ n >= accepted
    /\ accepted' = n
    /\ UNCHANGED <<requests, actuator>>

Move ==
    /\ Asked \cap {"ON", "OFF"} # {}
    /\ actuator' \in Asked \cup {"MOVING"}
    /\ UNCHANGED <<requests, accepted>>

LosePower ==
    /\ RestingState # "STAYS"
    /\ actuator' = RestingState
    /\ UNCHANGED <<requests, accepted>>

Next == Ask \/ Accept \/ Move \/ LosePower

Spec == Init /\ [][Next]_valve_vars
=============================================================================
