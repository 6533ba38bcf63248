---------------------------- MODULE MCTaskRuntime ----------------------------
(***************************************************************************)
(* A plan.  T1 has two implementations and a required review of both; T2   *)
(* stands before T1 in the manifest but depends on it; T3 and T4 are       *)
(* independent, T3 with a required review that may ask for changes less    *)
(* often than the review of T1.                                            *)
(***************************************************************************)
EXTENDS TaskRuntime

MCTasks == {"T1", "T2", "T3", "T4"}
MCReviews == {"ra", "rc"}
MCTaskOf == [a |-> "T1", d |-> "T1", ra |-> "T1", b |-> "T2", c |-> "T3", rc |-> "T3",
             e |-> "T4"]
MCBlocks == DOMAIN MCTaskOf
MCBlockDeps == [x \in MCBlocks |-> CASE x = "ra" -> {"a", "d"} [] x = "rc" -> {"c"}
                                     [] OTHER -> {}]
MCTaskDeps == [t \in MCTasks |-> IF t = "T2" THEN {"T1"} ELSE {}]
MCCycles == [ra |-> 2, rc |-> 1]
MCRank == [b |-> 1, a |-> 2, d |-> 3, ra |-> 4, c |-> 5, rc |-> 6, e |-> 7]
==============================================================================
