CONSTANTS
  ToolConfigs = {{"packages"}}
  PkRequired = {"fail2ban", "auditd"}
  PkDistros = {"apt"}
  PkMaxMeddles = 1
  MaxFaults = 0
  MaxStops = 0
SPECIFICATION PackagesSpec
PROPERTIES
  PackagesHealed
CHECK_DEADLOCK FALSE
