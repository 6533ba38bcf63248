--------------------------- MODULE MCRemoteDispatch ---------------------------
(***************************************************************************)
(* RemoteDispatch for TLC, with a second fault where a first one has left  *)
(* the operation without a dispatch.                                       *)
(***************************************************************************)
EXTENDS RemoteDispatch

\* The server applies a cancellation by itself only after a fault kept the
\* command from the host; a second fault may then meet its three calls.
\* Only steps that are faults are cut, and fairness asks for none of them.
SecondFault == faults' > faults /\ faults > 0 => \E i \in Actions : act[i].plan = "local"
===============================================================================
