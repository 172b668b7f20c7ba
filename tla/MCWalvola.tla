----------------------------- MODULE MCWalvola -----------------------------
(***************************************************************************)
(* Requests for the runs of Walvola.tla.  WALVOLA_ID is "wac02".           *)
(***************************************************************************)
EXTENDS Walvola

SetOn   == [dst |-> "wac02", cmd |-> "SET_STATUS", value |-> "ON"]
SetOff  == [dst |-> "allwalvoles", cmd |-> "SET_STATUS", value |-> "OFF"]
SetBad  == [dst |-> "wac02", cmd |-> "SET_STATUS", value |-> "open"]
GetStatus == [dst |-> "wac02", cmd |-> "GET_STATUS", value |-> "0"]
GetInfo == [dst |-> "wac02", cmd |-> "GET_INFO", value |-> "0"]
Update  == [dst |-> "wac02", cmd |-> "UPDATE", value |-> "0"]
Unknown == [dst |-> "wac02", cmd |-> "RESET", value |-> "0"]
Foreign == [dst |-> "wac01", cmd |-> "SET_STATUS", value |-> "ON"]

AllRequests   == {SetOn, SetOff, SetBad, GetStatus, GetInfo, Update, Unknown, Foreign}
LiveRequests  == {SetOff, SetBad, Update, Foreign}
MoveRequests  == {SetOn, SetOff, SetBad, Foreign}
FaultRequests == {SetOn, SetOff, Update, Foreign}
=============================================================================
