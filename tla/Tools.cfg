CONSTANTS
  ToolConfigs = {{"firewall"}, {"hardening"}, {"security_update"}, {"packages"},
                 {"vulnscan"}, {"twofa_audit"}, {"storage"}}
  MaxFaults = 1
  MaxStops = 1
  r1 = r1
  r2 = r2
  FwRules = {r1, r2}
  FwDesired = {r1}
  FwDesiredPolicy = "deny"
  FwBackends = {"ufw", "nftables"}
  FwMaxMeddles = 1
  HdCheckSets <- CheckSets
  HdEarlierSets <- EarlierSets
  HdLaterSets <- LaterSets
  HdServices = {"telnet", "rsh"}
  HdMaxMeddles = 1
  PkRequired = {"fail2ban", "auditd"}
  PkDistros = {"apt", "dnf", "other"}
  PkMaxMeddles = 1
  VsScores = {50, 65}
  VsThreshold = 10
  TfStatuses = {"fail"}
  ScMaxRuns = 3
SPECIFICATION ToolsSpec
INVARIANTS
  ToolsTypeOK
  ReportedIsReal
  FindingsWhole
PROPERTIES
  DriftRepaired
CHECK_DEADLOCK FALSE
