--------------------------- MODULE MCReconcileLoop ---------------------------
(***************************************************************************)
(* Three tasks in a chain that stand in the manifest in reverse order, the *)
(* first two with a required review.  The inputs are all combinations of   *)
(* block statuses, review verdicts and one open envelope: after an edit of *)
(* the package an old state.json may hold any of them.                     *)
(***************************************************************************)
EXTENDS ReconcileLoop

MCTasks == {"T1", "T2", "T3"}
MCTaskOf == [c |-> "T3", b |-> "T2", rb |-> "T2", a |-> "T1", ra |-> "T1"]
MCBlocks == DOMAIN MCTaskOf
MCReviews == {"ra", "rb"}
MCBlockDeps == [x \in MCBlocks |-> CASE x = "ra" -> {"a"} [] x = "rb" -> {"b"} [] OTHER -> {}]
MCTaskDeps == [T1 |-> {}, T2 |-> {"T1"}, T3 |-> {"T2"}]
MCBlockOrder == <<"c", "b", "rb", "a", "ra">>
MCTaskOrder == <<"T3", "T2", "T1">>
MCRank == [x \in MCBlocks |-> CHOOSE i \in 1..5 : MCBlockOrder[i] = x]

Statuses == {"planned", "ready", "in_progress", "completed", "blocked"}

MCInputs ==
    {<<[x \in MCBlocks |-> [status |-> s[x], reason |-> IF x \in passed THEN "passed" ELSE "none"]],
       f>> :
        s \in {s \in [MCBlocks -> Statuses] : s["c"] \in {"planned", "completed"}},
        passed \in SUBSET MCReviews,
        f \in {<<>>} \cup {<<[status |-> "open", review |-> r]>> : r \in MCReviews}}
==============================================================================
