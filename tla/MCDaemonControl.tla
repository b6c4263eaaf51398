--------------------------- MODULE MCDaemonControl ---------------------------
(* The execution and the review of one task: one run and one key, two kinds. *)
EXTENDS DaemonControl
CONSTANTS j1, j2, r1, t1
MCRunOf == [j \in {j1, j2} |-> r1]
MCKindOf == [j \in {j1, j2} |-> IF j = j2 THEN "task_review" ELSE "task_execution"]
MCKeysOf == [j \in {j1, j2} |-> {t1}]
MCKindLimit == [task_execution |-> 2, task_review |-> 1]
=============================================================================
