CONSTANTS
  u1 = u1
  r1 = r1
  r2 = r2
  k1 = k1
  Users = {u1, u2}
  Requests = {r1, r2}
  Keys = {k1, k2}
  TTL = 1
  Plans <- SmallPlans
  MaxRestarts = 1
  Original = Original
  None = None
SPECIFICATION FairSpec
INVARIANTS
  TypeOK
  RunsOnce
  SerialChangesStick
  FileAudited
  RepliesTellAll
PROPERTIES
  DeadNeverRuns
  Answered
CHECK_DEADLOCK FALSE
