-------------------------- MODULE ScheduledReports --------------------------
(***************************************************************************)
(* The reports that monitors send by themselves: the daily digest, the     *)
(* weekly digest and the checkup by the LLM (monitors/daily_digest.py,     *)
(* weekly_digest.py, system_checkup.py), called by the collection loop of  *)
(* monitors/registry.py.  What has been sent is known from rows of the     *)
(* table monitor_state, which survive a restart: a digest is published     *)
(* first and recorded after it, row by row; a checkup is recorded first.   *)
(*                                                                         *)
(* One coroutine collects all monitors, so there is one program counter.   *)
(* A step runs from one await to the next.  Other monitors are collected   *)
(* in between; here they only take time, and fire alerts.  The table       *)
(* audit_log is a sequence of the times at which alerts were recorded;     *)
(* "since the last digest" is a position in it.                            *)
(***************************************************************************)
EXTENDS Integers, Sequences

CONSTANTS
  Configs,               \* the sets of monitors that may be enabled
  DayLen, DaysPerWeek,   \* ticks in a day, days in a week
  SendTime,              \* send_time_local, in ticks after midnight
  SendDay,               \* send_day_local
  Pause,                 \* monitors.collection_interval, in ticks
  Interval,              \* monitors.system_checkup.interval, in ticks
  MaxTime,               \* bound: the last tick
  MaxAlerts,             \* bound: alerts that are fired
  MaxErrors,             \* bound: awaits that raise
  MaxStops               \* bound: how often the daemon stops or crashes

Digests == {"daily", "weekly"}
Monitors == Digests \union {"checkup"}

ASSUME ReportsAssumption ==
  /\ Configs \subseteq SUBSET Monitors
  /\ DayLen \in Nat \ {0} /\ DaysPerWeek \in Nat \ {0}
  /\ SendTime \in 0 .. DayLen - 1
  /\ SendDay \in 0 .. DaysPerWeek - 1
  /\ Pause \in Nat \ {0}
  /\ Interval \in Nat \ {0}
  /\ MaxTime \in Nat /\ MaxAlerts \in Nat
  /\ MaxErrors \in Nat /\ MaxStops \in Nat

VARIABLES
  enabled,      \* the monitors the configuration enables; fixed
  now,          \* the clock
  step,         \* what the collection loop awaits
  wakeAt,       \* when its pause is over
  left,         \* the monitors this pass has not come to
  period,       \* today_local, current_week_key: what is being reported
  asOf,         \* now_utc of the daily digest: position and time
  since,        \* last_digest_at
  stamp,        \* generated_at of the checkup
  row,          \* the rows of monitor_state
  log,          \* the alert_fired records: when each was made
  errors, stops,
  published,    \* history: how often a digest was published for a period
  cut,          \* history: how often one was published and not recorded
  looked,       \* history: periods in which a digest was found due
  hurt,         \* history: periods in which an error or a stop ended one
  counted,      \* history: how many digests count an alert
  late,         \* history: alerts counted though recorded after now_utc
  base,         \* history: where the first digest began to count
  checkups,     \* history: generated_at of the checkups in chat
  audited,      \* history: generated_at of the checkups on record
  lostCheckups  \* history: checkups recorded as sent that were cut off

loopVars == <<wakeAt, left>>
localVars == <<period, asOf, since, stamp>>
worldVars == <<enabled, now, log, errors, stops>>
digestVars == <<published, cut, looked, hurt>>
countVars == <<counted, late, base>>
checkupVars == <<checkups, audited, lostCheckups>>
vars == <<loopVars, localVars, worldVars, digestVars, countVars, checkupVars,
          step, row>>

Steps ==
  {"down", "asleep",
   "loop",                                   \* between two monitors
   "daily.date", "daily.since",              \* get_state
   "daily.build",                            \* _build_sections
   "daily.publish", "daily.setDate", "daily.setTs",
   "weekly.week", "weekly.build", "weekly.publish",
   "weekly.setWeek", "weekly.setTs",
   "checkup.last", "checkup.llm", "checkup.set",
   "checkup.audit", "checkup.publish"}

Never == -1
NoPosition == [pos |-> 0, time |-> 0]
Day(t) == t \div DayLen
Week(t) == Day(t) \div DaysPerWeek
Periods == 0 .. Day(MaxTime)
Alerts == 1 .. MaxAlerts
Positions == 0 .. MaxAlerts
Times == 0 .. MaxTime

TypeOK ==
  /\ enabled \subseteq Monitors
  /\ now \in Times
  /\ step \in Steps
  /\ wakeAt \in Nat
  /\ left \subseteq Monitors
  /\ period \in Periods
  /\ asOf \in [pos : Positions, time : Times]
  /\ since \in Positions
  /\ stamp \in Times
  /\ row \in [date : Periods \union {Never}, week : Periods \union {Never},
              at : Positions \union {Never}, checkup : Times \union {Never}]
  /\ log \in Seq(Times) /\ Len(log) <= MaxAlerts
  /\ errors \in 0 .. MaxErrors /\ stops \in 0 .. MaxStops
  /\ published \in [Digests -> [Periods -> Nat]]
  /\ cut \in [Digests -> [Periods -> Nat]]
  /\ looked \in [Digests -> SUBSET Periods]
  /\ hurt \in [Digests -> SUBSET Periods]
  /\ counted \in [Alerts -> Nat]
  /\ late \subseteq Alerts
  /\ base \in Positions
  /\ checkups \in Seq(Times)
  /\ audited \subseteq Times
  /\ lostCheckups \subseteq Times

Init ==
  /\ enabled \in Configs
  /\ now = 0
  /\ step = "loop"
  /\ wakeAt = 0
  /\ left = enabled
  /\ period = 0
  /\ asOf = NoPosition
  /\ since = 0
  /\ stamp = 0
  /\ row = [date |-> Never, week |-> Never, at |-> Never, checkup |-> Never]
  /\ log = <<>>
  /\ errors = 0 /\ stops = 0
  /\ published = [m \in Digests |-> [p \in Periods |-> 0]]
  /\ cut = [m \in Digests |-> [p \in Periods |-> 0]]
  /\ looked = [m \in Digests |-> {}]
  /\ hurt = [m \in Digests |-> {}]
  /\ counted = [i \in Alerts |-> 0]
  /\ late = {}
  /\ base = 0
  /\ checkups = <<>>
  /\ audited = {}
  /\ lostCheckups = {}

-----------------------------------------------------------------------------
(* The collection loop *)

\* A pass begins with the start of the loop, and after each pause.
BeginPass ==
  /\ step = "asleep"
  /\ now >= wakeAt
  /\ step' = "loop"
  /\ left' = enabled
  /\ UNCHANGED <<wakeAt, localVars, worldVars, row, digestVars, countVars,
                 checkupVars>>

EndPass ==
  /\ step = "loop"
  /\ left = {}
  /\ step' = "asleep"
  /\ wakeAt' = IF now + Pause <= MaxTime THEN now + Pause ELSE MaxTime
  /\ UNCHANGED <<left, localVars, worldVars, row, digestVars, countVars,
                 checkupVars>>

\* The loop comes to monitor m, whose collect runs to its first await.
ComesTo(m, s) ==
  /\ step = "loop"
  /\ m \in left
  /\ left' = left \ {m}
  /\ step' = s

Goes(from, to) ==
  /\ step = from
  /\ step' = to

\* When collect ends, its local variables are gone.
Forgets ==
  /\ period' = 0
  /\ asOf' = NoPosition
  /\ since' = 0
  /\ stamp' = 0

Returns(from) == Goes(from, "loop") /\ Forgets

\* A digest is due from its time of day on until midnight.
PastSendTime == now % DayLen >= SendTime
OnSendDay == Day(now) % DaysPerWeek = SendDay

NotDue(m) ==
  /\ ~PastSendTime \/ (m = "weekly" /\ ~OnSendDay)
  /\ m \in Digests
  /\ ComesTo(m, "loop")
  /\ UNCHANGED <<wakeAt, localVars, worldVars, row, digestVars, countVars,
                 checkupVars>>

Looks(m, p) ==
  /\ PastSendTime
  /\ period' = p
  /\ looked' = [looked EXCEPT ![m] = @ \union {p}]
  /\ UNCHANGED <<wakeAt, asOf, since, stamp, worldVars, row, published, cut,
                 hurt, countVars, checkupVars>>

Publishes(m) == published' = [published EXCEPT ![m][period] = @ + 1]

-----------------------------------------------------------------------------
(* DailyDigestMonitor.collect *)

DailyLooks == ComesTo("daily", "daily.date") /\ Looks("daily", Day(now))

DailySent ==
  /\ Returns("daily.date")
  /\ row.date = period
  /\ UNCHANGED <<loopVars, worldVars, row, digestVars, countVars,
                 checkupVars>>

\* now_utc is read here, before the tables are.
DailyUnsent ==
  /\ Goes("daily.date", "daily.since")
  /\ row.date # period
  /\ asOf' = [pos |-> Len(log), time |-> now]
  /\ UNCHANGED <<loopVars, period, since, stamp, worldVars, row, digestVars,
                 countVars, checkupVars>>

\* Without a row for the last digest it is the last 24 hours.  What was
\* recorded in the tick a day ago may be older than that or not.
DayAgo(t) ==
  {p \in 0 .. Len(log) :
     /\ \A i \in 1 .. p : log[i] <= t - DayLen
     /\ \A i \in p + 1 .. Len(log) : log[i] >= t - DayLen}

DailySince ==
  /\ Goes("daily.since", "daily.build")
  /\ IF row.at = Never
     THEN \E p \in DayAgo(asOf.time) : since' = p /\ base' = p
     ELSE since' = row.at /\ UNCHANGED base
  /\ UNCHANGED <<loopVars, period, asOf, stamp, worldVars, row, digestVars,
                 counted, late, checkupVars>>

\* The last query of _build_sections counts what was recorded since then; its
\* condition has no end.
InSection == since + 1 .. Len(log)

DailyBuild ==
  /\ Goes("daily.build", "daily.publish")
  /\ counted' = [i \in Alerts |-> counted[i] + IF i \in InSection THEN 1 ELSE 0]
  /\ late' = late \union {i \in InSection : i > asOf.pos}
  /\ Publishes("daily")
  /\ UNCHANGED <<loopVars, localVars, worldVars, row, cut, looked, hurt, base,
                 checkupVars>>

\* Mutant: today is looked up again when the row is written.
DateOfNow == [row EXCEPT !.date = Day(now)]

DailyDateRow == [row EXCEPT !.date = period]

\* Mutant: the date is written to the row of the timestamp.
DateForTimestamp == [row EXCEPT !.at = period]

DailyTsRow == [row EXCEPT !.at = asOf.pos]

\* The handlers of the event have returned; whatever they raise is logged.
DailyPublished ==
  /\ Goes("daily.publish", "daily.setDate")
  /\ UNCHANGED <<loopVars, localVars, worldVars, row, digestVars, countVars,
                 checkupVars>>

DailyDateSet ==
  /\ Goes("daily.setDate", "daily.setTs")
  /\ row' = DailyDateRow
  /\ UNCHANGED <<loopVars, localVars, worldVars, digestVars, countVars,
                 checkupVars>>

DailyTsSet ==
  /\ Returns("daily.setTs")
  /\ row' = DailyTsRow
  /\ UNCHANGED <<loopVars, worldVars, digestVars, countVars,
                 checkupVars>>

-----------------------------------------------------------------------------
(* WeeklyDigestMonitor.collect *)

WeeklyLooks ==
  /\ OnSendDay
  /\ ComesTo("weekly", "weekly.week")
  /\ Looks("weekly", Week(now))

WeeklySent ==
  /\ Returns("weekly.week")
  /\ row.week = period
  /\ UNCHANGED <<loopVars, worldVars, row, digestVars, countVars,
                 checkupVars>>

WeeklyUnsent ==
  /\ Goes("weekly.week", "weekly.build")
  /\ row.week # period
  /\ UNCHANGED <<loopVars, localVars, worldVars, row, digestVars, countVars,
                 checkupVars>>

WeeklyBuild ==
  /\ Goes("weekly.build", "weekly.publish")
  /\ Publishes("weekly")
  /\ UNCHANGED <<loopVars, localVars, worldVars, row, cut, looked, hurt,
                 countVars, checkupVars>>

WeeklyPublished ==
  /\ Goes("weekly.publish", "weekly.setWeek")
  /\ UNCHANGED <<loopVars, localVars, worldVars, row, digestVars, countVars,
                 checkupVars>>

WeeklyWeekRow == [row EXCEPT !.week = period]

WeeklyWeekSet ==
  /\ Goes("weekly.setWeek", "weekly.setTs")
  /\ row' = WeeklyWeekRow
  /\ UNCHANGED <<loopVars, localVars, worldVars, digestVars, countVars,
                 checkupVars>>

\* Nobody reads the second row of the weekly digest.
WeeklyTsSet ==
  /\ Returns("weekly.setTs")
  /\ UNCHANGED <<loopVars, worldVars, row, digestVars, countVars,
                 checkupVars>>

-----------------------------------------------------------------------------
(* SystemCheckupMonitor.collect *)

CheckupLooks ==
  /\ ComesTo("checkup", "checkup.last")
  /\ UNCHANGED <<wakeAt, localVars, worldVars, row, digestVars, countVars,
                 checkupVars>>

CheckupDue == row.checkup = Never \/ now - row.checkup >= Interval

CheckupRecent ==
  /\ Returns("checkup.last")
  /\ ~CheckupDue
  /\ UNCHANGED <<loopVars, worldVars, row, digestVars, countVars,
                 checkupVars>>

CheckupStarts ==
  /\ Goes("checkup.last", "checkup.llm")
  /\ CheckupDue
  /\ UNCHANGED <<loopVars, localVars, worldVars, row, digestVars, countVars,
                 checkupVars>>

\* The context is gathered and the LLM answers.
CheckupAnswered ==
  /\ Goes("checkup.llm", "checkup.set")
  /\ stamp' = now
  /\ UNCHANGED <<loopVars, period, asOf, since, worldVars, row, digestVars,
                 countVars, checkupVars>>

CheckupRow == [row EXCEPT !.checkup = stamp]

CheckupSet ==
  /\ Goes("checkup.set", "checkup.audit")
  /\ row' = CheckupRow
  /\ UNCHANGED <<loopVars, localVars, worldVars, digestVars, countVars,
                 checkupVars>>

CheckupAudited ==
  /\ Goes("checkup.audit", "checkup.publish")
  /\ audited' = audited \union {stamp}
  /\ checkups' = Append(checkups, stamp)
  /\ UNCHANGED <<loopVars, localVars, worldVars, row, digestVars, countVars,
                 lostCheckups>>

CheckupPublished ==
  /\ Returns("checkup.publish")
  /\ UNCHANGED <<loopVars, worldVars, row, digestVars, countVars,
                 checkupVars>>

-----------------------------------------------------------------------------
(* What ends a collect early *)

DailySteps ==
  {"daily.date", "daily.since", "daily.build", "daily.publish",
   "daily.setDate", "daily.setTs"}
WeeklySteps ==
  {"weekly.week", "weekly.build", "weekly.publish", "weekly.setWeek",
   "weekly.setTs"}
AwaitsHandlers == {"daily.publish", "weekly.publish", "checkup.publish"}

\* The digest has been published, and the row that says so is not written.
Unrecorded(m) ==
  step \in IF m = "daily" THEN {"daily.publish", "daily.setDate"}
           ELSE {"weekly.publish", "weekly.setWeek"}

UnderWay(m) == step \in IF m = "daily" THEN DailySteps ELSE WeeklySteps

\* A row that was being written may be in the table all the same.
RowsAfterCut ==
  CASE step = "daily.setDate" -> {row, DailyDateRow}
    [] step = "daily.setTs" -> {row, DailyTsRow}
    [] step = "weekly.setWeek" -> {row, WeeklyWeekRow}
    [] step = "checkup.set" -> {row, CheckupRow}
    [] OTHER -> {row}

CutOff ==
  /\ row' \in RowsAfterCut
  /\ cut' = [m \in Digests |->
               [p \in Periods |->
                  cut[m][p] + IF Unrecorded(m) /\ p = period THEN 1 ELSE 0]]
  /\ hurt' = [m \in Digests |->
                hurt[m] \union IF UnderWay(m) THEN {period} ELSE {}]
  /\ lostCheckups' =
       lostCheckups \union
         IF step \in {"checkup.set", "checkup.audit"} THEN {stamp} ELSE {}

\* An await of a collect raises, or the LLM does not answer: collect or
\* _run_all logs it, and the pass goes on with the next monitor.  What the
\* handlers of an event raise stays in publish.
Raises ==
  /\ errors < MaxErrors
  /\ step \notin {"down", "asleep", "loop"} \union AwaitsHandlers
  /\ errors' = errors + 1
  /\ step' = "loop"
  /\ CutOff
  /\ Forgets
  /\ UNCHANGED <<loopVars, enabled, now, log, stops, published,
                 looked, countVars, checkups, audited>>

\* The daemon stops, which cancels the loop in its await, or crashes.
Stop ==
  /\ stops < MaxStops
  /\ step # "down"
  /\ stops' = stops + 1
  /\ step' = "down"
  /\ left' = {}
  /\ CutOff
  /\ Forgets
  /\ UNCHANGED <<wakeAt, enabled, now, log, errors, published,
                 looked, countVars, checkups, audited>>

Start ==
  /\ step = "down"
  /\ step' = "loop"
  /\ left' = enabled
  /\ UNCHANGED <<wakeAt, localVars, worldVars, row, digestVars, countVars,
                 checkupVars>>

-----------------------------------------------------------------------------
(* The rest of the world *)

\* Time waits for a loop whose pause is over; it does not wait for an await.
Tick ==
  /\ now < MaxTime
  /\ ~(step = "asleep" /\ now >= wakeAt)
  /\ now' = now + 1
  /\ UNCHANGED <<loopVars, localVars, enabled, log, errors, stops, step, row,
                 digestVars, countVars, checkupVars>>

\* The handler records an alert: one of another monitor, of a tool, of a task
\* in the background, or the digest itself.  Only the daily digest counts them.
AlertFires ==
  /\ "daily" \in enabled
  /\ step # "down"
  /\ Len(log) < MaxAlerts
  /\ log' = Append(log, now)
  /\ UNCHANGED <<loopVars, localVars, enabled, now, errors, stops, step, row,
                 digestVars, countVars, checkupVars>>

DailyStep ==
  \/ DailyLooks \/ DailySent \/ DailyUnsent \/ DailySince \/ DailyBuild
  \/ DailyPublished \/ DailyDateSet \/ DailyTsSet

WeeklyStep ==
  \/ WeeklyLooks \/ WeeklySent \/ WeeklyUnsent \/ WeeklyBuild
  \/ WeeklyPublished \/ WeeklyWeekSet \/ WeeklyTsSet

CheckupStep ==
  \/ CheckupLooks \/ CheckupRecent \/ CheckupStarts \/ CheckupAnswered
  \/ CheckupSet \/ CheckupAudited \/ CheckupPublished

Next ==
  \/ BeginPass \/ EndPass \/ \E m \in Digests : NotDue(m)
  \/ DailyStep \/ WeeklyStep \/ CheckupStep
  \/ Raises \/ Stop \/ Start \/ Tick \/ AlertFires

Spec == Init /\ [][Next]_vars

-----------------------------------------------------------------------------
(* Properties *)

\* A period has one digest, and one more only for each time that a digest was
\* published and an error or a stop came before its row was written
\* (DailyDigestMonitor.collect, WeeklyDigestMonitor.collect).
ReportedOnce ==
  \A m \in Digests, p \in Periods : published[m][p] <= 1 + cut[m][p]

\* A period in which a digest was found due has one when collect is over,
\* whatever time it takes, midnight in between included, unless an error or a
\* stop ended it (the rows date and week).
PeriodsReported ==
  \A m \in Digests : \A p \in looked[m] :
    \/ published[m][p] > 0
    \/ p \in hurt[m]
    \/ UnderWay(m) /\ period = p

\* Every alert before the last recorded digest is in a digest, from where the
\* first digest began to count.  It is in two only if it was recorded while
\* the first of them was built, or if one of them was cut off, between its two
\* rows included (last_digest_at and _build_alerts_summary).
AlertsCounted ==
  \A i \in 1 .. Len(log) :
    /\ base < i /\ i <= row.at => counted[i] > 0
    /\ counted[i] > 1 => i \in late \/ hurt["daily"] # {}

\* The checkups in chat are an interval apart and on record, and one that is
\* recorded as sent was sent, unless an error or a stop ended it
\* (SystemCheckupMonitor.collect).
CheckupsApart ==
  /\ \A i, j \in 1 .. Len(checkups) :
       i < j => checkups[j] - checkups[i] >= Interval
  /\ \A i \in 1 .. Len(checkups) : checkups[i] \in audited
  /\ row.checkup # Never =>
       \/ \E i \in 1 .. Len(checkups) : checkups[i] = row.checkup
       \/ row.checkup \in lostCheckups
       \/ step = "checkup.audit"
=============================================================================
