\* Two tasks, independent or one blocking the other, and one crash at any point.
SPECIFICATION FairSpec
CONSTANTS
  t1 = t1
  t2 = t2
  Tasks <- TwoTasks
  TaskGraphs <- AnyOrder
  Release = release
  Budget = 2
  MaxCrashes = 1
  None = none
INVARIANTS AcceptedWorkWasApproved DependentsBuildOnApprovedWork ReleaseCoversAllTasks ReviewJobsNeverThrow
PROPERTIES ExecutedWorkIsDecided AllAcceptedIsReleased
CHECK_DEADLOCK FALSE
