\* One task with two workspaces, two passes of the collector and a death of the orchestrator; failed
\* work is retained (work that is cleaned at once takes the steps of approved work).
SPECIFICATION FairSpec
CONSTANTS
  MaxWorkspaces = 2
  Passes = 2
  MaxAttempts = 2
  MaxCrashes = 1
  CopiesFiles = TRUE
  Policies = {"retain"}
  None = none
INVARIANTS CleanedIsGone OrphanIsLeftAlone
PROPERTIES NoWorktreeLeaks
CHECK_DEADLOCK FALSE
