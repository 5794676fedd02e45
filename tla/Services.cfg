CONSTANTS
  Count = 2
  MaxAttempts = 2
  CheckInterval = 1
  MaxErrors = 2
  MaxRestarts = 1
SPECIFICATION FairSpec
INVARIANTS
  TypeOK
  RetriesBounded
  SilentOnlyAfterCritical
  RestartsOnRecord
PROPERTIES
  DownIsHandled
