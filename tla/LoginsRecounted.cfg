CONSTANTS
  Users = {u1}
  Ips = {i1, i2}
  Far = {{i1, i2}}
  Configs = {{"brute_force"}}
  Sources = {"journald"}
  AlertCount = 2
  Window = 2
  TravelWindow = 2
  Cooldown = 2
  DayLen = 4
  HoursFrom = 1
  HoursTo = 2
  Pause = 1
  NoIp = NoIp
  MaxTime = 4
  MaxLines = 2
  MaxErrors = 0
  MaxStops = 0
SPECIFICATION Spec
INVARIANT
  BruteForceIsReal
CHECK_DEADLOCK FALSE
