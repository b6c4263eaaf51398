\* A task graph that is put directly over a thin architecture: what the documentation says of the
\* sufficiency gate does not hold of this route.
SPECIFICATION Spec
CONSTANTS
  Convs = {c1}
  Structured = {"valid"}
  Fragments = {}
  None = none
  MaxCallers = 1
  MaxCalls = 1
  Asked = {"task_graph_generation"}
  Posted = {"valid", "thin"}
  Starts = {"architecture_frozen"}
  Restarts = FALSE
  MaxTroubles = 0
INVARIANTS GraphIsSufficient
CHECK_DEADLOCK FALSE
