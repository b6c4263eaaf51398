\* Three calls, two at a time, of whatever kind, that request, finalize and apply the task graph
\* or put one directly, with two deaths of the orchestrator, restarts of the bridge or failing
\* calls.
SPECIFICATION FairSpec
CONSTANTS
  Convs = {c1, c2}
  Structured = {"repairable"}
  Fragments = {}
  None = none
  MaxCallers = 2
  MaxCalls = 3
  Asked = {"task_graph_generation"}
  Posted = {"valid"}
  Starts = {"architecture_frozen"}
  Restarts = TRUE
  MaxTroubles = 2
INVARIANTS StageIsBacked
PROPERTIES LinkIsKept AnswerIsMaterialized
CHECK_DEADLOCK FALSE
