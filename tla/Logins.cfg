CONSTANTS
  Users = {u1}
  Ips = {i1, i2}
  Far = {{i1, i2}}
  Configs = {{"brute_force"}, {"new_user"}, {"off_hours", "impossible_travel"}}
  Sources = {"journald", "auth_log", "none"}
  AlertCount = 2
  Window = 2
  TravelWindow = 2
  Cooldown = 2
  DayLen = 4
  HoursFrom = 1
  HoursTo = 2
  Pause = 1
  NoIp = NoIp
  MaxTime = 4
  MaxLines = 2
  MaxErrors = 1
  MaxStops = 1
SPECIFICATION Spec
INVARIANTS
  TypeOK
  NewUsersAnnounced
PROPERTIES
  SuspicionsReported
CHECK_DEADLOCK FALSE
