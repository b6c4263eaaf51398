\* Every request next to the daemon, one worker and a reclaim that may strike any running job.
SPECIFICATION Spec
CONSTANTS
  Jobs = {j1, j2}
  Workers = {w1}
  Clients = {c1}
  Daemon = daemon
  Budget = 2
  Stimuli = {"enqueue", "retry", "cancel", "drain", "reclaim"}
  Outcomes = {"blocked"}
  MaxStimuli = 2
  None = none
SYMMETRY Symmetry
INVARIANTS QueueItemsResolve
PROPERTIES BootRebuildsQueue RecoveryRespectsRecords
