---------------------------- MODULE LoginMonitor ----------------------------
(***************************************************************************)
(* The login monitor (monitors/logins.py, login_log_sources.py and         *)
(* db/login_repository.py): sshd writes lines to a log, each pass reads    *)
(* lines, stores them in two tables and looks for four kinds of anomalies. *)
(*                                                                         *)
(* The log is a sequence of lines with the time at which sshd wrote them.  *)
(* The monitor keeps no position in it: a pass reads what the source       *)
(* offers, and stamps each line with the time of the pass.  A step runs    *)
(* from one await to the next; `step' says what collect awaits.            *)
(***************************************************************************)
EXTENDS Integers, Sequences, FiniteSets, Functions

CONSTANTS
  Users, Ips,
  Far,                   \* pairs of public addresses that geolocation finds
                         \*   at least min_distance_km apart
  Configs,               \* sets of anomalies that may be enabled
  Sources,               \* what reading the log may come to
  AlertCount,            \* failed_login_alert_count
  Window,                \* failed_login_window, in ticks
  TravelWindow,          \* impossible_travel_window, in ticks
  Cooldown,              \* alert_cooldown, in ticks
  DayLen,                \* ticks in a day
  HoursFrom, HoursTo,    \* off_hours_start and off_hours_end
  Pause,                 \* monitors.collection_interval, in ticks
  NoIp,                  \* no earlier login
  MaxTime,               \* bound: the last tick
  MaxLines,              \* bound: lines in the log
  MaxErrors,             \* bound: statements that raise
  MaxStops               \* bound: how often the daemon stops or crashes

Anomalies == {"brute_force", "off_hours", "new_user", "impossible_travel"}

ASSUME LoginsAssumption ==
  /\ NoIp \notin Ips
  /\ Far \subseteq SUBSET Ips
  /\ Configs \subseteq SUBSET Anomalies
  /\ Sources \subseteq {"journald", "auth_log", "none"}
  /\ AlertCount \in Nat /\ Window \in Nat
  /\ TravelWindow \in Nat /\ Cooldown \in Nat
  /\ DayLen \in Nat \ {0}
  /\ HoursFrom \in 0 .. DayLen - 1 /\ HoursTo \in 0 .. DayLen - 1
  /\ Pause \in Nat \ {0}
  /\ MaxTime \in Nat /\ MaxLines \in Nat
  /\ MaxErrors \in Nat /\ MaxStops \in Nat

VARIABLES
  enabled,      \* the anomalies the configuration enables; fixed
  now,          \* the clock
  log,          \* what sshd has written
  step, wakeAt, \* what the pass awaits, and when the pause is over
  pass,         \* now, as collect has read it
  lines, at,    \* the lines read, and the one the loop is at
  affected,     \* affected_ips, those not looked at yet
  known,        \* was_known_user
  previous,     \* the address of previous_login
  alerts,       \* the anomalies still to be recorded and published
  attempts,     \* table login_attempts: rows for an address and a pass
  logins,       \* table login_successes: the latest row of each user
  anomalies,    \* table login_anomalies: the dedupe keys of its rows
  lastByIp,     \* _last_alerted_at_by_ip
  lastByKey,    \* _last_alerted_at_by_key
  errors, stops,
  told,         \* history: how often a user was announced as new
  cut           \* history: users whose line was not dealt with to its end

loopVars == <<step, wakeAt, pass, lines, at, affected>>
lineVars == <<known, previous, alerts>>
tableVars == <<attempts, logins, anomalies>>
lastVars == <<lastByIp, lastByKey>>
worldVars == <<enabled, now, log>>
boundVars == <<errors, stops>>
historyVars == <<told, cut>>
vars == <<loopVars, lineVars, tableVars, lastVars, worldVars, boundVars,
          historyVars>>

Never == -1
Times == 0 .. MaxTime
NoLogin == [ip |-> NoIp, at |-> Never]
Failure(ip) == [kind |-> "failure", ip |-> ip]
Success(u, ip) == [kind |-> "success", user |-> u, ip |-> ip]
Entries == {Failure(ip) : ip \in Ips} \union
           {Success(u, ip) : u \in Users, ip \in Ips}
Lines == [entry : Entries, at : Times]

\* The dedupe keys.
OffHours(u, ip) == <<"off_hours", u, ip>>
NewUser(u) == <<"new_user", u>>
Travel(u) == <<"impossible_travel", u>>
BruteForce(ip) == <<"brute_force", ip>>
Keys == {OffHours(u, ip) : u \in Users, ip \in Ips} \union
        {NewUser(u) : u \in Users} \union
        {Travel(u) : u \in Users} \union
        {BruteForce(ip) : ip \in Ips}

Steps == {"down", "asleep", "read", "attempt", "known", "previous", "success",
          "count", "usernames", "anomaly", "publish"}

TypeOK ==
  /\ enabled \subseteq Anomalies
  /\ now \in Times
  /\ log \in Seq(Lines) /\ Len(log) <= MaxLines
  /\ step \in Steps
  /\ wakeAt \in Nat
  /\ pass \in Times
  /\ lines \in Seq(Entries) /\ at \in 1 .. Len(lines) + 1
  /\ affected \subseteq Ips
  /\ known \in BOOLEAN
  /\ previous \in Ips \union {NoIp}
  /\ alerts \in Seq(Keys)
  /\ attempts \in [Ips -> [Times -> Nat]]
  /\ logins \in [Users -> [ip : Ips, at : Times] \union {NoLogin}]
  /\ anomalies \subseteq Keys
  /\ lastByIp \in [Ips -> Times \union {Never}]
  /\ lastByKey \in [Keys -> Times \union {Never}]
  /\ errors \in 0 .. MaxErrors /\ stops \in 0 .. MaxStops
  /\ told \in [Users -> Nat]
  /\ cut \subseteq Users

Init ==
  /\ enabled \in Configs
  /\ now = 0 /\ log = <<>>
  /\ step = "asleep" /\ wakeAt = 0
  /\ pass = 0 /\ lines = <<>> /\ at = 1 /\ affected = {}
  /\ known = FALSE /\ previous = NoIp /\ alerts = <<>>
  /\ attempts = [ip \in Ips |-> [t \in Times |-> 0]]
  /\ logins = [u \in Users |-> NoLogin]
  /\ anomalies = {}
  /\ lastByIp = [ip \in Ips |-> Never]
  /\ lastByKey = [key \in Keys |-> Never]
  /\ errors = 0 /\ stops = 0
  /\ told = [u \in Users |-> 0] /\ cut = {}

-----------------------------------------------------------------------------
(* The pass *)

\* Where collect goes on when the lines before k have been dealt with and ips
\* are still to be looked at.
StepAt(ls, k, ips) ==
  CASE k <= Len(ls) /\ ls[k].kind = "failure" -> "attempt"
    [] k <= Len(ls) /\ ls[k].kind = "success" -> "known"
    [] k > Len(ls) /\ "brute_force" \in enabled /\ ips # {} -> "count"
    [] OTHER -> "asleep"

\* Local variables are gone when collect ends.
Forgets ==
  /\ pass' = 0 /\ lines' = <<>> /\ at' = 1 /\ affected' = {}
  /\ known' = FALSE /\ previous' = NoIp /\ alerts' = <<>>

Returns ==
  /\ step' = "asleep"
  /\ wakeAt' = now + Pause
  /\ Forgets

Continue(ls, k, ips) ==
  IF StepAt(ls, k, ips) = "asleep"
  THEN Returns
  ELSE /\ step' = StepAt(ls, k, ips)
       /\ lines' = ls /\ at' = k /\ affected' = ips
       /\ known' = FALSE /\ previous' = NoIp /\ alerts' = <<>>
       /\ UNCHANGED <<wakeAt, pass>>

NextLine(ips) == Continue(lines, at + 1, ips)
Line == lines[at]

Collect ==
  /\ step = "asleep"
  /\ now >= wakeAt
  /\ step' = "read"
  /\ pass' = now
  /\ wakeAt' = 0
  /\ UNCHANGED <<lines, at, affected, lineVars, tableVars, lastVars,
                 worldVars, boundVars, historyVars>>

\* The lines of before failed_login_window: the first ones, sshd writes them in
\* the order of time.
Older == {i \in 1 .. Len(log) : log[i].at < now - Window}

\* journalctl is asked for the last failed_login_window; when it fails, the
\* whole of auth.log is read; when that fails, nothing.
Offered(source) ==
  CASE source = "journald" -> SubSeq(log, Cardinality(Older) + 1, Len(log))
    [] source = "auth_log" -> log
    [] source = "none" -> <<>>

ReadNewLogLines ==
  /\ step = "read"
  /\ \E source \in Sources :
       LET offered == Offered(source)
       IN  Continue([i \in 1 .. Len(offered) |-> offered[i].entry], 1, {})
  /\ UNCHANGED <<tableVars, lastVars, worldVars, boundVars, historyVars>>

\* Mutant: the lines of a pass are set apart by seconds, not microseconds.
ObservedLater == IF at > 1 THEN pass + MaxTime ELSE pass

\* The microseconds that tell the lines of a pass apart are less than a tick.
ObservedAt == pass

-----------------------------------------------------------------------------
(* A failed login *)

AttemptRow == [attempts EXCEPT ![Line.ip][ObservedAt] = @ + 1]

AttemptRecorded ==
  /\ step = "attempt"
  /\ attempts' = AttemptRow
  /\ NextLine(affected \union {Line.ip})
  /\ UNCHANGED <<logins, anomalies, lastVars, worldVars, boundVars,
                 historyVars>>

\* An error is logged and the loop goes on.  The row may be there all the same.
AttemptNotRecorded ==
  /\ step = "attempt"
  /\ errors < MaxErrors
  /\ errors' = errors + 1
  /\ attempts' \in {attempts, AttemptRow}
  /\ NextLine(affected)
  /\ UNCHANGED <<logins, anomalies, lastVars, worldVars, stops, historyVars>>

-----------------------------------------------------------------------------
(* A successful login *)

\* Mutant: only recent logins count.
HasRecentLogin(u) == logins[u] # NoLogin /\ logins[u].at >= pass - Window

HasSuccessfulLogin(u) == logins[u] # NoLogin

KnownRead ==
  /\ step = "known"
  /\ known' = HasSuccessfulLogin(Line.user)
  /\ step' = "previous"
  /\ UNCHANGED <<wakeAt, pass, lines, at, affected, previous, alerts,
                 tableVars, lastVars, worldVars, boundVars, historyVars>>

LatestSuccessfulLogin(u) ==
  IF logins[u] # NoLogin /\ logins[u].at >= pass - TravelWindow
  THEN logins[u].ip ELSE NoIp

PreviousRead ==
  /\ step = "previous"
  /\ previous' = LatestSuccessfulLogin(Line.user)
  /\ step' = "success"
  /\ UNCHANGED <<wakeAt, pass, lines, at, affected, known, alerts,
                 tableVars, lastVars, worldVars, boundVars, historyVars>>

IsWithinHours(t) ==
  LET time == t % DayLen
  IN  IF HoursFrom <= HoursTo
      THEN HoursFrom <= time /\ time <= HoursTo
      ELSE HoursFrom <= time \/ time <= HoursTo

IsWithinCooldown(key) ==
  /\ Cooldown > 0
  /\ lastByKey[key] # Never
  /\ pass - lastByKey[key] < Cooldown

\* The anomalies of a login, in the order in which they are checked.
Found(u, ip, key) ==
  \/ /\ key = OffHours(u, ip)
     /\ "off_hours" \in enabled
     /\ ~IsWithinHours(pass)
     /\ ~IsWithinCooldown(key)
  \/ /\ key = NewUser(u)
     /\ "new_user" \in enabled
     /\ ~known
  \/ /\ key = Travel(u)
     /\ "impossible_travel" \in enabled
     /\ {previous, ip} \in Far
     /\ ~IsWithinCooldown(key)

IfFound(u, ip, key) == IF Found(u, ip, key) THEN <<key>> ELSE <<>>
AnomaliesOf(u, ip) ==
  IfFound(u, ip, OffHours(u, ip)) \o IfFound(u, ip, NewUser(u))
    \o IfFound(u, ip, Travel(u))

SuccessRow ==
  [logins EXCEPT ![Line.user] = [ip |-> Line.ip, at |-> ObservedAt]]

SuccessRecorded ==
  /\ step = "success"
  /\ logins' = SuccessRow
  /\ LET found == AnomaliesOf(Line.user, Line.ip)
     IN  IF found = <<>>
         THEN NextLine(affected)
         ELSE /\ step' = "anomaly"
              /\ alerts' = found
              /\ UNCHANGED <<wakeAt, pass, lines, at, affected, known,
                             previous>>
  /\ UNCHANGED <<attempts, anomalies, lastVars, worldVars, boundVars,
                 historyVars>>

-----------------------------------------------------------------------------
(* Brute force *)

CountSince(ip, since) ==
  SumFunctionOnSet(attempts[ip], {t \in Times : t >= since})

\* Mutant: more than failed_login_alert_count.
MoreThanAlertCount(ip) == CountSince(ip, pass - Window) > AlertCount

ReachesAlertCount(ip) == CountSince(ip, pass - Window) >= AlertCount

AlertedLately(ip) ==
  lastByIp[ip] # Never /\ pass - lastByIp[ip] < Cooldown

NextIp(ip) == Continue(lines, at, affected \ {ip})

\* affected_ips is a set: the addresses come in any order.
NotAttacked(ip) ==
  /\ step = "count"
  /\ ip \in affected
  /\ ~ReachesAlertCount(ip) \/ AlertedLately(ip)
  /\ NextIp(ip)
  /\ UNCHANGED <<tableVars, lastVars, worldVars, boundVars, historyVars>>

Attacked(ip) ==
  /\ step = "count"
  /\ ip \in affected
  /\ ReachesAlertCount(ip) /\ ~AlertedLately(ip)
  /\ step' = "usernames"
  /\ alerts' = <<BruteForce(ip)>>
  /\ UNCHANGED <<wakeAt, pass, lines, at, affected, known, previous,
                 tableVars, lastVars, worldVars, boundVars, historyVars>>

Alert == Head(alerts)

\* The cooldown by key, asked next, agrees with the one by address: the two
\* are only ever set together.
UsernamesRead ==
  /\ step = "usernames"
  /\ step' = "anomaly"
  /\ UNCHANGED <<wakeAt, pass, lines, at, affected, lineVars, tableVars,
                 lastVars, worldVars, boundVars, historyVars>>

-----------------------------------------------------------------------------
(* _record_and_publish_anomaly *)

AnomalyRecorded ==
  /\ step = "anomaly"
  /\ anomalies' = anomalies \union {Alert}
  /\ step' = "publish"
  /\ UNCHANGED <<wakeAt, pass, lines, at, affected, lineVars, attempts,
                 logins, lastVars, worldVars, boundVars, historyVars>>

Told(key) ==
  told' = [u \in Users |-> told[u] + IF key = NewUser(u) THEN 1 ELSE 0]

LastByKey == [lastByKey EXCEPT ![Alert] = ObservedAt]

\* The handlers of the event have returned, and the alert is out.
LoginPublished ==
  /\ step = "publish"
  /\ at <= Len(lines)
  /\ Told(Alert)
  /\ lastByKey' = LastByKey
  /\ IF Tail(alerts) = <<>>
     THEN NextLine(affected)
     ELSE /\ step' = "anomaly"
          /\ alerts' = Tail(alerts)
          /\ UNCHANGED <<wakeAt, pass, lines, at, affected, known, previous>>
  /\ UNCHANGED <<tableVars, lastByIp, worldVars, boundVars, cut>>

AttackPublished(ip) ==
  /\ step = "publish"
  /\ at > Len(lines)
  /\ Alert = BruteForce(ip)
  /\ lastByKey' = LastByKey
  /\ lastByIp' = [lastByIp EXCEPT ![ip] = pass]
  /\ NextIp(ip)
  /\ UNCHANGED <<tableVars, worldVars, boundVars, historyVars>>

-----------------------------------------------------------------------------
(* What ends a pass early *)

\* A row that was being written may be in its table all the same.
TablesAfterCut ==
  /\ attempts' \in IF step = "attempt" THEN {attempts, AttemptRow}
                   ELSE {attempts}
  /\ logins' \in IF step = "success" THEN {logins, SuccessRow} ELSE {logins}
  /\ anomalies' \in IF step = "anomaly"
                    THEN {anomalies, anomalies \union {Alert}}
                    ELSE {anomalies}

AtSuccess == at <= Len(lines) /\ Line.kind = "success"

CutOff ==
  /\ TablesAfterCut
  /\ cut' = IF AtSuccess THEN cut \union {Line.user} ELSE cut

\* A statement raises: _run_all logs it, and the pass is over.
Raises ==
  /\ errors < MaxErrors
  /\ step \in {"known", "previous", "success", "count", "usernames",
               "anomaly"}
  /\ errors' = errors + 1
  /\ CutOff
  /\ Returns
  /\ UNCHANGED <<lastVars, worldVars, stops, told>>

\* What is in memory is gone.
Stop ==
  /\ stops < MaxStops
  /\ step # "down"
  /\ stops' = stops + 1
  /\ CutOff
  /\ step' = "down"
  /\ lastByIp' = [ip \in Ips |-> Never]
  /\ lastByKey' = [key \in Keys |-> Never]
  /\ Forgets
  /\ wakeAt' = 0
  /\ UNCHANGED <<worldVars, errors, told>>

\* The first pass begins at once.
Start ==
  /\ step = "down"
  /\ step' = "asleep"
  /\ wakeAt' = now
  /\ UNCHANGED <<pass, lines, at, affected, lineVars, tableVars, lastVars,
                 worldVars, boundVars, historyVars>>

-----------------------------------------------------------------------------
(* The rest of the world *)

\* Time waits for a pass that is due and for statements on the database.  It
\* passes while the log is read, an alert is sent, and between passes.
Tick ==
  /\ now < MaxTime
  /\ step = "asleep" => now < wakeAt
  /\ step \in {"down", "asleep", "read", "publish"}
  /\ now' = now + 1
  /\ UNCHANGED <<enabled, log, loopVars, lineVars, tableVars, lastVars,
                 boundVars, historyVars>>

\* sshd writes a line.  Those that no enabled check looks at are left out.
Writes(entry) ==
  /\ Len(log) < MaxLines
  /\ IF entry.kind = "failure" THEN "brute_force" \in enabled
     ELSE enabled \ {"brute_force"} # {}
  /\ log' = Append(log, [entry |-> entry, at |-> now])
  /\ UNCHANGED <<enabled, now, loopVars, lineVars, tableVars, lastVars,
                 boundVars, historyVars>>

LoginStep ==
  \/ KnownRead \/ PreviousRead \/ SuccessRecorded \/ LoginPublished

AttackStep ==
  \/ AttemptRecorded \/ AttemptNotRecorded \/ UsernamesRead
  \/ \E ip \in Ips : NotAttacked(ip) \/ Attacked(ip) \/ AttackPublished(ip)

EndsPass == step # "asleep" /\ Returns /\ UNCHANGED <<errors, stops>>

Next ==
  \/ Collect \/ ReadNewLogLines \/ LoginStep \/ AttackStep \/ AnomalyRecorded
  \/ Raises \/ Stop \/ Start \/ Tick
  \/ \E entry \in Entries : Writes(entry)

Spec == Init /\ [][Next]_vars

-----------------------------------------------------------------------------
(* Properties *)

\* The lines this pass has read.
FailuresRead(ip) ==
  {i \in 1 .. Len(lines) : lines[i] = Failure(ip)}
SuccessesRead(u) ==
  {i \in 1 .. Len(lines) : lines[i].kind = "success" /\ lines[i].user = u}

Reported(key) ==
  \/ lastByKey'[key] = pass
  \/ lastByKey'[key] # Never /\ pass - lastByKey'[key] < Cooldown

\* A pass that ends without an error has reported all that the lines it has
\* read are suspicious for, or it was reported within the cooldown: an attack
\* by failed_login_alert_count failures, logins off hours, two logins in a row
\* from addresses that are far apart (LoginMonitor.collect).
SuspicionsReported ==
  [][EndsPass =>
      /\ "brute_force" \in enabled =>
           \A ip \in Ips :
             Cardinality(FailuresRead(ip)) >= AlertCount + errors =>
               Reported(BruteForce(ip))
      /\ "off_hours" \in enabled =>
           \A u \in Users : \A i \in SuccessesRead(u) :
             ~IsWithinHours(pass) => Reported(OffHours(u, lines[i].ip))
      /\ "impossible_travel" \in enabled =>
           \A u \in Users : \A i, j \in SuccessesRead(u) :
             /\ i < j
             /\ {lines[i].ip, lines[j].ip} \in Far
             /\ \A k \in SuccessesRead(u) : k <= i \/ k >= j
             => Reported(Travel(u))]_vars

\* A user is announced as new at most once, however often the line is read and
\* the daemon restarted; and whoever is in login_successes was, unless an error
\* or a stop came before that line was dealt with (has_successful_login).
NewUsersAnnounced ==
  "new_user" \in enabled =>
    \A u \in Users :
      /\ told[u] <= 1
      /\ logins[u] # NoLogin =>
           \/ told[u] = 1
           \/ u \in cut
           \/ AtSuccess /\ Line.user = u

\* (user_stories/US-003-ssh-login-logging.md:13) An alert of brute force is
\* sent after failed_login_alert_count failed attempts from an address within
\* the window.
BruteForceIsReal ==
  \A ip \in Ips :
    step = "publish" /\ alerts = <<BruteForce(ip)>> =>
      Cardinality({i \in 1 .. Len(log) :
                     /\ log[i].entry = Failure(ip)
                     /\ log[i].at >= pass - Window}) >= AlertCount
=============================================================================
