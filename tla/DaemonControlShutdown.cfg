\* Two jobs of one task, two workers, limits that leave it to the key, two clients and two calls.
SPECIFICATION FairSpec
CONSTANTS
  j1 = j1
  j2 = j2
  r1 = r1
  t1 = t1
  Jobs = {j1, j2}
  Clients = {c1, c2}
  RunOf <- MCRunOf
  KindOf <- MCKindOf
  KeysOf <- MCKeysOf
  KindLimit <- MCKindLimit
  WorkerCount = 2
  GlobalLimit = 2
  RunLimit = 2
  MaxCalls = 2
  None = none
INVARIANTS LimitsRespected
PROPERTIES StoppedIsIdle ShutdownCompletes
CHECK_DEADLOCK FALSE
