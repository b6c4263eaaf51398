\* Two checkpoints, exports and handoffs each, one question, one command that dies.
SPECIFICATION Spec
CONSTANTS
  Freezes = {}
  MaxCheckpoints = 2
  MaxQuestions = 1
  MaxExports = 2
  MaxHandoffs = 2
  MaxTroubles = 1
INVARIANTS CompletedStagesAreApproved LatestIsThere HandoffFollowsExport
PROPERTIES ExportsFollowApproval
CHECK_DEADLOCK FALSE
