\* Two todo items with a profile, up to three runs, three invocations, one death.
SPECIFICATION CampaignSpec
CONSTANTS
  Todos = {11, 12}
  Registered = {11, 12}
  Caps = {1, 2}
  Phases = 2
  MaxRuns = 3
  MaxInvocations = 3
  MaxDeaths = 1
  None = none
  Torn = torn
INVARIANTS ScopeFollowsGoal CapIsHard OnlyAcceptanceLeadsOn
CHECK_DEADLOCK FALSE
