\* The daemon and two workers, with crashes at every step and no request.
SPECIFICATION Spec
CONSTANTS
  Jobs = {j1, j2, j3}
  Workers = {w1, w2}
  Clients = {}
  Daemon = daemon
  Budget = 2
  Stimuli = {}
  Outcomes = {"succeeded", "failed", "blocked"}
  MaxStimuli = 3
  None = none
SYMMETRY Symmetry
INVARIANTS OneExecutorPerJob
PROPERTIES RefinesLifecycle
