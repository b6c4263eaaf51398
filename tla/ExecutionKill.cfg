\* Two attempts of a job, which may overlap, and a cancellation or a death of the
\* orchestrator at any moment.
SPECIFICATION FairExecution
CONSTANTS
  Attempts = 2
  MaxRunning = 2
  MaxTroubles = 1
  Budget = 2
  Nil = nil
INVARIANTS LiveProcessIsNotWrittenOff AcceptedTerminationShows
PROPERTIES EveryAttemptIsDisposed
CHECK_DEADLOCK FALSE
