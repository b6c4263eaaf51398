--------------------------- MODULE MCTaskPipeline ---------------------------
(* TaskPipeline for TLC: small task graphs.                                 *)
EXTENDS TaskPipeline

CONSTANTS t1, t2

TwoTasks == {t1, t2}
\* Independent tasks, or t1 blocks t2.
AnyOrder == {{}, {<<t1, t2>>}}
=============================================================================
