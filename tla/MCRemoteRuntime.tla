--------------------------- MODULE MCRemoteRuntime ---------------------------
(***************************************************************************)
(* One task with an implementation and its required review.  Two           *)
(* operations may take the review in turn, the second of them from a       *)
(* snapshot, while the implementation its evidence depends on is redone    *)
(* by local agents or by a third operation.                                *)
(***************************************************************************)
EXTENDS RemoteRuntime

ReviewTasks == {"T1"}
ReviewBlocks == {"a", "ra"}
ReviewReviews == {"ra"}
ReviewTaskOf == [b \in ReviewBlocks |-> "T1"]
ReviewBlockDeps == [a |-> {}, ra |-> {"a"}]
ReviewTaskDeps == [t \in ReviewTasks |-> {}]
ReviewRank == [a |-> 1, ra |-> 2]
ReviewCycles == [r \in ReviewReviews |-> 1]
NoCycles == [r \in ReviewReviews |-> 0]
ReviewTarget == [op \in Ops |-> IF op = "o3" THEN "a" ELSE "ra"]

\* Any two of the three operations, and three runs and review attempts in all:
\* enough for a superseded envelope, for a completion or a failure after a
\* retry, and for a review of an implementation done twice.
TwoOperations == Cardinality({op \in Ops : opSrc[op] # {}}) <= 2
ThreeRuns == blk["a"].run + blk["ra"].run <= 3
==============================================================================
