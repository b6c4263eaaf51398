\* One job, two workers and drainRun under every disturbance.
SPECIFICATION FairSpec
CONSTANTS
  Jobs = {j1}
  Workers = {w1, w2}
  Drainer = drainer
  Budget = 2
  Pipeline = {j1}
  Disturbances = {"crash", "cancel", "retry", "stall", "drain"}
  MaxDisturbances = 2
  None = none
INVARIANTS ExecutingWorkerOwnsLease NoDoubleExecution
PROPERTIES EveryJobSettles
