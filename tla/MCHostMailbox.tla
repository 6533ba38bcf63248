---------------------------- MODULE MCHostMailbox ----------------------------
(***************************************************************************)
(* Two dispatches, so that three commands meet a server window of two.     *)
(* The dispatches are alike, so the second is only used after the first,   *)
(* and only as long as there is one fault; two faults meet one dispatch.   *)
(***************************************************************************)
EXTENDS HostMailbox

MCDispatches == {"d1", "d2"}

SecondDispatch == dispatch["d2"] # "none" => dispatch["d1"] # "none" /\ faults <= 1
==============================================================================
