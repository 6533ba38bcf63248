------------------------- MODULE MCResultSubmission -------------------------
(***************************************************************************)
(* Two reports, and enough directories and identities for a claim, the     *)
(* claim that replaces it and a remote attempt in between.                 *)
(***************************************************************************)
EXTENDS ResultSubmission

MCReports == {1, 2}
==============================================================================
