CONSTANTS
  Configs = {{"daily"}, {"weekly"}, {"checkup"}, {}}
  DayLen = 3
  DaysPerWeek = 2
  SendTime = 1
  SendDay = 0
  Pause = 1
  Interval = 2
  MaxTime = 7
  MaxAlerts = 1
  MaxErrors = 1
  MaxStops = 1
  MoConfigs = {"reports", "cpu", "ram", "disk", "network", "gpu",
               "file_integrity", "old_files", "connections",
               "directory_changes"}
  MoPause = 1
  MoMaxTime = 3
  MoMaxMishaps = 1
  MtMounts = {"/", "/home"}
  MtCooldown = 2
  MtConsecutive = 1
  MtBytes = 1
  MtMaxTraffic = 3
  MtMaxResets = 1
  FiFiles = {passwd, shadow}
  FiInterval = 2
  FiMaxEdits = 1
  FiMaxUpdates = 1
  OfDirs = {"tmp", "home"}
  CoPairs <- Connections
  CoWhitelist = {"127.0.0.1"}
  CoSensitive = {22}
  CoCount = 2
  CoWindow = 1
  CoRecurrence = 2
  CoCooldown = 2
  CoMaxRows = 3
  DcDirs = {"etc", "logs"}
  DcPaths = {"motd", "syslog"}
  DcWhitelisted = {"syslog"}
  DcDirOf <- DirOf
  DcCooldown = 2
  DcMaxChanges = 2
SYMMETRY AlikeFiles
SPECIFICATION MonitorsSpec
INVARIANTS
  MonitorsTypeOK
  AlertsSpaced
  NothingMissed
  TamperingReported
  ReportsExact
CHECK_DEADLOCK FALSE
