CONSTANTS
  MaxVersion = 2
  MaxKeep = 2
  Slack = 2
  MaxShots = 8
  MaxErrors = 2
  MaxStops = 1
  DlMaxFaults = 1
  DlMaxStops = 1
  ada = ada
  bob = bob
  near = near
  far = far
  AcUsers = {ada, bob}
  AcFiles <- Files
  AcMaxEdits = 1
  AcMaxSignals = 2
  AcMaxMessages = 2
  AnConfigs <- Llms
  AnMaxRuns = 2
SPECIFICATION DaemonSpec
INVARIANTS
  DaemonTypeOK
  UpdatesSafe
  OrderlyShutdown
  AccessFollowsConfig
  ChatOnRecord
PROPERTIES
  StaysCurrent
  DaemonStops
CHECK_DEADLOCK FALSE
