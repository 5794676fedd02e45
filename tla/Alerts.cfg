CONSTANTS
  a1 = a1
  a2 = a2
  Alerts = {a1, a2}
  DayLen = 4
  Configurations <- AllConfigurations
  CorrelationWindow = 1
  MaxMute = 1
  MaxRestarts = 1
SPECIFICATION FairSpec
INVARIANTS
  TypeOK
  AccountedFor
  ToldOnce
  QueueArmed
  NothingAhead
PROPERTIES
  QuietRespected
  DigestAtQuietEnd
  RemediationTried
  KeepsPromise
