CONSTANTS
  ToolConfigs = {{"firewall"}}
  r1 = r1
  r2 = r2
  r3 = r3
  FwRules = {r1, r2, r3}
  FwDesired = {r1, r2}
  FwDesiredPolicy = "deny"
  FwBackends = {"nftables"}
  FwMaxMeddles = 1
  MaxFaults = 0
  MaxStops = 0
SPECIFICATION FirewallSpec
PROPERTIES
  FirewallRestored
CHECK_DEADLOCK FALSE
