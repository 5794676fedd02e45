# SystemSentinel: specifications, model checking and proofs

TLA+ specifications of the parts of SystemSentinel in which concurrency, time and
failure decide whether the program is right, with the TLC runs that check them and
TLAPS proofs of the properties that matter most.  Paths below are relative to
`src/system_sentinel/` of the repository.

    tlc -workers 2 -config Alerts.cfg MCAlertPipeline      # a run
    tlapm AlertPipelineProofs.tla                          # a proof

PROJECT.json lists components, runs, mutants, the map from definitions to source lines,
findings, hazards and theorems.

## 1. The system

SystemSentinel is one Python process, started by systemd, with one asyncio event loop.
All components are coroutines of that loop, so state changes only between two `await`s;
the exceptions are worker threads (`asyncio.to_thread`) and child processes.

| component | state it keeps | operations | hard behaviour |
|---|---|---|---|
| event bus (`core/event_bus.py`) | subscriptions | `publish` awaits each handler in turn, swallows what it raises | a publisher waits for every handler |
| alert handler (`alerts/handler.py`) | mute time, quiet-hours queue, flush task | 25 event handlers, `_notify_and_record`, `!mute`, flush | a flush task and handlers interleave; day and night; everything in memory |
| quiet hours (`alerts/quiet_hours.py`) | none | `is_active`, `quiet_hours_end` | windows over midnight, empty windows |
| correlation (`alerts/correlation.py`) | buffer, window task, running flushes | `submit`, `_window_flush`, `_flush` | flushes overlap; LLM late, wrong or absent |
| remediation (`alerts/remediation.py`) | background tasks | `maybe_send`, `_publish_delayed` | timeout, shielded request, late answer |
| monitors (`monitors/*`) | counters, cooldowns, last checks; some in the database | `collect`, every interval, one after the other | failures in mid-pass, restarts, stale reads |
| digests and checkup (`monitors/*_digest.py`, `system_checkup.py`) | rows of `monitor_state` in the database | `collect`, from the same loop | publish and record are separate awaits; midnight in between; stops |
| chat dispatcher (`chat/command_dispatcher.py`, `chat/command_config.py`) | three maps of pending requests; `config.yaml` | commands, reactions that confirm, execution | two users, two prompts, expiry, worker threads |
| chat adapter and router (`chat/adapters`, `chat/router.py`) | connection | `on_message`, `on_reaction_add`, `send`, `broadcast` | sends wait for the connection; errors are logged, not passed on |
| self-update (`core/self_update.py`, `core/snapshots.py`) | the git tree, the installation, snapshots | check, snapshot, pull, reinstall, restart | every command may fail; signals and crashes between any two |
| daemon (`core/daemon.py`, `cli/main.py`) | stop and restart events, what it has started | start, signals, shutdown, re-execution | exceptions and signals in any phase; shutdown races the update |
| tools (`tools/*`), scheduler (`core/scheduler.py`) | what they change on the host; rows of scans and audits | scheduled through an event, at startup, from chat | overlapping runs of the same tool, repairs from old lists, faults in the middle |
| access control (`chat/access_control.py`) | the policy | `authorize`, `audit_rejection`, `reload` | messages beside edits and reload signals |
| LLM client (`llm/*`) and its analyses (`chat/command_*.py`) | none | routing; log analysis, tuning, health story, explanation, on a schedule or a command | providers fail or are not loaded; scheduler stopped in between |
| database (`db/*`) | SQLite | repositories | a write may raise |
| export, dashboard, setup, charts | none | read-only views; installer | - |

They interact through the bus (monitors publish `alert.*`; the handler listens), through
calls that are awaited (handler -> router -> adapter; handler -> correlation and remediation
-> LLM client; dispatcher -> tools), through `config.yaml` (dispatcher and daemon) and
through the database.

What makes each of them correct:

* **Alert pipeline**: a raised alert is discarded for a reason or reaches chat exactly once,
  wherever it waits; the audit log does not claim more than that; quiet hours are quiet and
  end with one digest; advice follows its alert.
* **Service monitor**: restarts are bounded, giving up is announced exactly once, what is
  commanded is on record, a service that is down is dealt with.
* **Scheduled reports**: every day and week in which the daemon looks is reported, once; no
  alert falls between two digests; checkups keep their interval.
* **Login monitor**: what the log shows is reported, once per cooldown, and only what it shows;
  a new user is announced once.
* **Confirmations**: what is confirmed was pending, alive, the user's own, and runs once;
  what is changed is in the file, on record and truthfully reported.
* **Self-update**: there is a snapshot to return to, snapshots are bounded and on record,
  code and installation agree, and the daemon reaches the newest version.
* **Daemon**: what it started it stops, in order, with the database last, and it ends when asked.
* **Access control**: the policy in force is that of the file after its reload; refusals are on
  record.
* **LLM analyses**: what chat is told is on record; no job outlives the scheduler.
* **Tools**: what a run reports repaired is repaired; a drift does not last; findings are told
  and stored whole.
* **Monitors of the host**: what a monitor has seen is told or counted, and not told again within
  its cooldown; a file that differs from its baseline is reported in the round that meets it.

## 2. The modules

| module | models | extends |
|---|---|---|
| `QuietHours` | the arithmetic of `alerts/quiet_hours.py` and of the flush delay | |
| `AlertPipeline` | handler, correlation, remediation, clock, restart | `QuietHours` |
| `AlertPromise` | the abstract promise the pipeline keeps (refinement) | |
| `MCAlertPipeline` | six configurations for TLC | `AlertPipeline` |
| `ServiceMonitor` | `ServiceMonitor.collect` and the loop that calls it | |
| `ChatConfirmations` | pending requests, reactions, changes of `config.yaml` | |
| `MCChatConfirmations` | the plans TLC explores | `ChatConfirmations` |
| `ScheduledReports` | daily digest, weekly digest and checkup, and the loop that calls them | |
| `LoginMonitor` | reading the login log, the tables of attempts and logins, four anomalies | |
| `SelfUpdate` | the update loop, snapshots, signals, restart of the process | |
| `DaemonLife` | `run_daemon` from the start of the process to its end | |
| `ChatAccess` | who may tell the daemon what; reload signals | `DaemonLife` |
| `LlmAnalyses` | the LLM jobs of the scheduler and the commands that ask the LLM; routing | `DaemonLife` |
| `MCDaemon` | the daemon in four views, for TLC | `SelfUpdate`, `ChatAccess`, `LlmAnalyses` |
| `ToolRuns` | who runs a tool, and what becomes of a run that raises | |
| `FirewallTool`, `HardeningTool` | drift and repair of firewall rules and of hardening checks | `ToolRuns` |
| `PackageTools` | security updates, required packages | `ToolRuns` |
| `ScanTools` | vulnerability scan, 2FA audit, storage report | `ToolRuns` |
| `MCTools` | the tools, one enabled at a time | the four above |
| `MonitorPasses` | the collection loop, the clock, errors and restarts | |
| `MetricMonitors` | CPU, RAM, disks, network, GPU | `MonitorPasses` |
| `FileMonitors` | file integrity with `!integrity update`, old files | `MonitorPasses` |
| `ConnectionMonitor` | unknown inbound connections | `MonitorPasses` |
| `DirectoryChanges` | the observer of directories and the tasks of its events | `MonitorPasses` |
| `MCMonitors` | the monitors, one turned on at a time | `ScheduledReports` and the four above |
| `AlertPipelineProofs`, `ServiceMonitorProofs`, `ChatConfirmationsProofs`, `LoginMonitorProofs`, `SelfUpdateProofs`, `DaemonProofs`, `MonitorsProofs`, `ToolsProofs` | proofs | the module they are about; `DaemonProofs` also `SelfUpdateProofs` |

One convention holds throughout: **a step runs from one `await` to the next.**  What the code
does without awaiting is one action, whatever it calls on the way.  What awaits an answer is
a state named after it (`pc[a] = "record"`, `step = "audit"`, `task = "pip"`), and the action
that leaves the state is the answer with all that follows.  Failures are separate disjuncts:
an append that raises, a command that exits with an error.  Variables marked *history* are
read by properties only.

### AlertPipeline

An alert is a model value with a severity.  `pc[a]` says where its handler coroutine awaits;
`Raise` is everything from the event to the first await of `_notify_and_record` (severity,
minimum, mute, quiet hours, queueing with `_ensure_quiet_alert_flush_scheduled`).
`flushTask`, `sleepLeft`, `digest` are the flush task; `pending`, `windowLeft`, `flushes`,
`batches` are the correlation service, where `flushes` counts `_flush` coroutines that exist
but have not run yet and a batch is one that has taken the buffer.  `now` is the time of day
in ticks and wraps; sleeps that are due are served before the clock goes on (`NoWakeDue`).
`Restart` forgets everything, as the program does.  One assumption is the model's own: a
digest that is being sent is out before the next quiet hours begin (`DigestOutBeforeQuiet`);
without it a broadcast that hangs for a whole day could strand the queue.

`AlertPromise` knows four fates (owed, discarded, told, lost) and three steps.  The refinement
mapping computes a fate from where the alert is; `KeepsPromise` is the abstract `Spec` and its
liveness `Settled`.

### ServiceMonitor

`step` is what the pass awaits, `at` the service of the loop.  Between any two steps services
fail and recover.  `RestartService` lets `systemctl restart` have any outcome; `Recheck` reads
the state again.  `Abort` is an exception from a command or an append: `_run_all` logs it, the
pass is over, and what was assigned before stays assigned.

### ScheduledReports

One coroutine collects the monitors in turn, so `step` is one program counter: asleep between
passes, `"loop"` between monitors, or the await of one of the three `collect`s.  `period`,
`asOf`, `since` and `stamp` are their local variables and are reset when `collect` is over.
`row` holds the rows of `monitor_state`; they survive a `Stop`, and a row that was being
written when an error or a stop came may be in the table or not (`RowsAfterCut`).  `log` is the
table of recorded alerts, `since` a position in it.  The daily digest and its weekly sibling
publish and then record; the checkup records and then publishes.

Time passes during any await, and between monitors, but not for a loop whose pause is over.
TLC takes the monitors one at a time (`Configs`): they share no row, and one only delays the
other, which `Tick` does as well.

### LoginMonitor

`log` is what sshd has written and when; `Offered` is what the three outcomes of reading it
(journald, auth.log, neither) give a pass, and keeps no position, as the code keeps none.
`lines` and `at` are the loop over them; a failure is one insert, a success two queries and an
insert, then the anomalies found, in order.  Of `login_attempts` the model keeps how many rows
an address has from a pass, of `login_successes` the latest row of each user: the queries ask no
more.  An insert that raises may have left its row (`TablesAfterCut`).  The cooldowns
(`lastByIp`, `lastByKey`) are in memory and go with a `Stop`.

### ChatConfirmations

A request has a kind (configuration change, tuning, action), a user and the keys it would
change; `asks` fixes them, so TLC explores every combination.  `pending[kind][user]` are the
three dictionaries; the adapter and the channel of the key are one.  `React(u)` is
`handle_reaction` up to its first await (`chat/adapters/discord_adapter.py:168` calls it for
a check mark on any message, as often as it is made): which request it takes depends on the user
only, not on the message.  `Read` and `Write` are the two halves of
`apply_config_change` in its worker thread: `copy` is the file as read.  The tool run and the
deletion of files are one step, their outcome being text in the reply.

### SelfUpdate

`head`, `installed` and `running` are the versions of the source tree, of the installation
and of the process; `task` is what the update loop awaits.  `round` says whether
`create_snapshot` was called before or after the pull.  Snapshots are numbered as they are
made, so that the newest-first listing is an order on numbers (`Place`); `Slack` is the 20 of
`keep_last + 20`.  `Exit`, `Crash` and `Start` are the process; when it ends, the command that
was running is done or not (`CutOff`).

### DaemonLife

`dlPhase` is what `run_daemon` awaits: `connect`, the adapters, the greeting, the exporter, the
tools at startup, then `running`; the phases of the shutdown; `down`.  `dlStarted` is what was started
and not stopped, `dlUpdater` the task of the update loop, `dlExit` how the last process ended.
An exception (`LifeFails`, `UpdaterDies`) leaves at once whatever the phase has left running, as
nothing in `run_daemon` catches it.  Signals only set `dlStop` once their handlers are installed;
before, they end the process (`Asked`); `Killed` is a crash.

### ChatAccess

`acFile` is what the configuration file says, `acPolicy` what the process has read of it
(`PolicyOf`, with the precedence of the code over string entries, roles and invalid roles).
`Reload` reads the file and swaps the policy before its task awaits the append; `acReloads` and
`acRecords` count such tasks, which may overlap.  `Receive` decides on a message when it comes;
what follows is awaited under whatever policy is then in force.  Reactions pass no decision
(`Confirm`).

### LlmAnalyses

Each of two callers, the scheduler and chat, has at most one analysis, and `anAt` is what it
awaits: its queries, the request, the audit append, the broadcast or reply.  `LlmEnabled` is
`is_enabled`, which looks at the active provider only; `Route` is the router, whose rule may name
a provider that is not loaded, and then the request fails (`Available`) although another could
have answered.

### ToolRuns and the tools

`Callers` are the scheduler, the startup run and chat; `HasSubscriber` compares the name under
which a job publishes with the one under which the tool subscribed.  A `Fault` is a command that
reports an error, `Raise` an exception that leaves the run: the bus or the adapter logs it, except
at startup, where it ends the daemon.

*FirewallTool.*  `fwLive` and `fwPolicy` are in force, `fwRun[c]` holds the lists of a run.  The
commands of ufw change one rule; those of nftables flush the chain, and `EnsuredChain` leaves the
policy of a chain that exists alone.  *HardeningTool.*  A setting is right or not in the main
file, in ours, in a file that sorts after ours (`hdLater`) or before it (`hdEarlier`), and (for sshd)
in what was loaded last; the checks of a run block the event loop, so only an admin interferes with
them.  The tool's own reading, that the last file counts (`tools/hardening/tool.py:479`,
`HdEffective`), is not that of sshd, which takes the first value it meets (`SshdLoads`, an
assumption about sshd; its main file is assumed to include the drop-ins first).  *PackageTools.*
Upgrade, record, event, look for a reboot; query, install and record package by package.
*ScanTools.*  Scans are numbered by their `scan_time`; a score is that of the report file or, when
it has none or cannot be read, the one lynis printed; `tfRows` and `tfStored` are the rows of an
audit as written and as committed, and `DbCommit` is the commit of any other component on the
same connection.

### MonitorPasses and the monitors

The four modules share the loop, the clock and the mishaps.  A monitor is in `asleep` until the
pause is over, then at one await after the other; `PassRaises` ends the pass, `Tolerated` is a
failure that `collect` logs itself.  Each monitor has its own connection, so rows that nobody has
committed go with it (`ofStored`).

*MetricMonitors.*  A sample is the set of subjects over their threshold.  The network monitor's
counter is compared with the history of what was sent.  *FileMonitors.*  `fiBaseline` is shared by
the round and by `!integrity update`, which reads, hashes and writes file by file; `fiOwed` is
history: files that differed when the round began and still do and were not told.
*ConnectionMonitor.*  Rows with their time, the count in the window, and the cooldown by address
and port.  *DirectoryChanges.*  Every change is a task: handled up to the append
(`DcHandled`), remembered and published after it (`DcRecorded`).

### MCTools, MCMonitors, MCDaemon

These compose for TLC what runs in one process but shares next to nothing: a configuration turns
one tool or one monitor on, a view of the daemon follows one of its four concerns.  Where
components do interact, their modules are composed step by step (`ChatAccess` and `LlmAnalyses`
with `DaemonLife`; the digests among each other), and what all share (the loop, the runner, the
connection) is modelled as interference by others.

## 3. The runs

| run | instance | states | what it shows |
|---|---|---|---|
| `Alerts` | 2 alerts, days of 4 ticks, window 1, mute up to 1, 1 restart, 6 configurations | 74,224 | safety, `AlertPromise` and the liveness of remediation |
| `Services` | 2 services, 2 attempts, interval 1, 2 errors, 1 restart | 93,840 | safety, and that a service that is down is handled |
| `Chat` | 2 requests of any kinds, 2 users, 2 keys, TTL 1, 1 restart | 717,244 | safety, and that a reaction is answered |
| `Logins` | 2 lines, 2 addresses, 1 user, brute force, new user, or off hours and travel; days of 4 ticks, windows and cooldown of 2, 1 error, 1 stop | 1,800,505 | safety |
| `Daemon` | 2 releases, keep_last 0..2, 8 snapshots, 2 errors, 1 stop; 1 fault, 1 signal or crash; 2 users, 3 files, 1 edit, 2 reload signals, 2 messages; 4 routings, 2 analyses | 789,447 | safety, that the daemon stays current and that it ends when asked |
| `Monitors` | one monitor at a time; reports: days of 3 ticks, weeks of 2 days, 7 ticks, 1 alert, 1 error, 1 stop; others: 4 passes, 1 mishap, cooldowns of 2 ticks | 1,081,467 | safety |
| `Tools` | one tool at a time, all its callers, 1 fault, 1 stop, 1 interference, 3 scans or audits | 806,508 | safety, and that a drift is repaired |
| `ChatWrongPrompt`, `ChatLostUpdate`, `LoginsRecounted`, `Firewall`, `PackagesScheduled` | as above, smaller | - | the findings of section 6 |

Why the bounds are enough.  *Alerts*: two alerts make every pair of places (queue and digest,
buffer and batch, two batches at once); a day of four ticks has a tick before, in, and after
each window, overnight (3..1), by day (1..3) and always (1..1); a window of one tick can open
while the flush before it is awaiting.  *Services*: two services show that an error at one
ends the pass before the other; two errors at the same service exceed `MaxAttempts`.  *Chat*:
two requests of one user make every replacement and every wrong prompt; of two users, every
overlap in the worker thread; TTL 1 lets a confirmation expire before or after its prompt is
shown.  *Monitors*: for the reports, seven ticks cross two midnights and into a second week, so
that a pass may begin on one day and end on the next with a third to come; one error and one
stop hit a digest twice, at any two awaits; the interval of two ticks is longer than the pause
and shorter than a day.  For the others, four ticks are four passes, so that a cooldown of two
ticks is met inside, at its end and after it; one mishap (an error or a stop) can fall at every
await, and the properties relate what came before to what came after it; four connections have one address
with two ports, one of them sensitive, another address and a trusted one; two directory changes
of one path overlap or follow each other, before and after the cooldown; two files are alike
(symmetry) and either can be edited, removed or updated while the other is hashed.  *Logins*: two lines are an attack of two attempts or two logins of a
user from two addresses; five ticks are five passes, which read a line again within the window,
after it, and (from auth.log) after the cooldown; each kind of anomaly is checked with the lines
it looks at, since they share no state but the pass.  *Daemon*: two releases let one arrive between check and pull; keep_last 0, 1 and 2
are the three cases of the slice; eight snapshots are more than two updates and their failed
attempts can make, so the bound itself stops nothing that matters;
one fault and one stop reach every phase of start-up and shutdown, alone and together; two
messages and two reloads around one edit overlap in every order.  *Tools*: two or three callers
make every overlap of two runs; one fault, one stop and one interference hit either of them at
any command, and a third scan is compared with what two overlapping ones have left; other files set
no SSH setting or both of them before ours, and none or one of them after it.

Deadlock is checked in `Alerts` and `Services`, where the system has to go on.  `Logins` and
`Monitors` turn it off because passes end with the clock (one at its last tick could be repeated
for ever), `Chat` and `Daemon` because users need not ask anything more and a daemon that has
ended may stay down, `Tools`, `Firewall`, `PackagesScheduled` and the other runs of `MCTools` because a
tool that is off, or that nobody schedules, does nothing more.

**Fairness.**  The event loop resumes a coroutine whose await is over; so each handler, the
flush task, the correlation service, the pass of the monitor, each request and the update
loop get weak fairness over the disjunction of their steps (`Handle(a)`, `FlushTask`,
`Correlate`, `Pass`, `AskStep(r)`, `DoStep(r)`, `Proceed`).  Time passes (`Tick`) where a
property needs it.  Nothing that comes from outside is fair: nobody has to raise an alert,
mute, react, restart, release, and no service has to fail or recover.  In `SelfUpdate` fairness
is over the successful answers: commands that fail for ever are excluded by `MaxErrors`.
In `MCDaemon` the phases of start-up and shutdown are fair, but Discord need never be ready.  In
`MCTools` the job of the scheduler comes again and again, an awaited command returns, and a daemon
that has gone down is started again (`Restart=on-failure`, or an administrator); the single fault
and stop are bounds.  The views of chat and of the LLM and all of `MCMonitors` are for safety only.

**Mutants.**  Each property has a mutant, named in PROJECT.json and kept beside the definition
it replaces (the operator whose comment begins with "Mutant:"): a plausible mistake in the
code, under which TLC finds that property violated.

## 4. Properties that hold

* `AccountedFor`, `ToldOnce`, `KeepsPromise`: conservation of alerts over five places, two
  concurrent tasks and any overlap of windows.
* `QueueArmed`: the one way to strand the queue is to add to it behind a flush that has taken
  it already.  It cannot happen in a window that ends, because a flush runs outside the window
  and only alerts inside it are queued.  In a window with equal bounds ("always quiet") it does
  happen (an alert then waits for the next one), and the property excludes that.
* `QuietRespected`, `DigestAtQuietEnd`: with correlation off.  With it on, an alert raised before
  quiet hours is sent in them (section 6).  The daily and the weekly digest are no alerts: their
  handlers broadcast at once, past mute and quiet hours (`alerts/handler.py:344`), and no property
  covers them here; when they are published is what `ScheduledReports` is about.
* `NothingAhead`: the audit log does not claim more than was done with an alert (`AuditNotAhead`),
  and advice, timely or late, comes once and after its alert (`AdviceFollowsAlert`);
  `RemediationTried`.
* `RetriesBounded`, `SilentOnlyAfterCritical`, `RestartsOnRecord`, `DownIsHandled`.  The monitor
  samples: a service it has given up on that recovers and fails again between two checks stays
  given up, with the critical alert of the earlier failure; no property excludes that.
* `ReportsExact`: a period has one digest more only for each time an error or a stop came between
  publishing and recording one (`ReportedOnce`); midnight may pass while a digest is made
  (`PeriodsReported`); an alert recorded while a digest is built is in that one and in the next,
  as the query has no upper bound, `monitors/daily_digest.py:260` (`AlertsCounted`).
* `AlertsSpaced`: cooldowns hold, except where the code can forget them: in memory over a restart
  (metrics, directories), between alert and record (connections), or for changes of one path of
  which one was handled while another was being recorded (directories; section 6).  Checkups, recorded
  before they are sent, keep their interval (one that is cut off is lost).
* `NothingMissed`: whatever is over its threshold is told now or was within the cooldown; a byte is
  counted once, and only a reset of the counter, a failed insert or the time before a baseline hides any;
  an address with enough attempts is told, those of passes cut off included; a change that is
  recorded as suppressed has an alert that suppressed it; a scan for old files is stored whole
  unless an error came between.
* `TamperingReported`: when the integrity monitor rests, no file that differed when its round
  began, and still does, is untold: whatever error, restart or update from chat came between.
* `SuspicionsReported` (of a pass that ends without an error: no attack, login off hours or travel
  in the lines it has read goes unreported), `NewUsersAnnounced` (unless an error or a stop comes
  between the row of a first login and its announcement: the next pass takes the user for known).
* `RunsOnce`, `DeadNeverRuns`, `SerialChangesStick`, `FileAudited`,
  `RepliesTellAll`, `Answered`.
* `UpdatesSafe`: a snapshot to go back to (not with keep_last 1, which prunes it), snapshots
  bounded and on record, and installed what runs; `StaysCurrent` (unless pip has failed after a
  pull, after which no check finds anything to do until the next release).
* `OrderlyShutdown`; `DaemonStops` (unless the daemon still waits for a Discord that never becomes
  ready: then SIGTERM is never looked at).
* `AccessFollowsConfig`: overlapping reloads, edits between them and shutdowns that cancel them
  leave the policy of the file; `ChatOnRecord`: refusals, and reports of the LLM, are on record.
* `ReportedIsReal`: when a run that enforces is through, what it says is so, also when another run
  worked from an older list (ufw, hardening, packages; not nftables, see 6).  Of an SSH setting it
  means that the tool's check passes and that sshd has loaded it, unless another file has it too: after
  ours the tool does not see its own, before ours sshd does not, and the tool reports it remediated; `DriftRepaired`: once
  admins, faults and crashes leave the host alone, ufw, the hardening checks and the need of a
  reboot are dealt with, the hardening checks as the tool reads them (section 6 on a reload that
  fails); `FindingsWhole`: a drop of the score is told exactly when there is one since the last scan,
  which may be any of those that overlap, and an audit that is reported is stored with its accounts.
  A scan or an audit that is itself cut off is excluded there, and is the subject of two findings.

## 5. Proofs

All for any sets of alerts, services, users, requests and keys and for any values of the
constants that the named assumptions admit (an `ASSUME` in the module that declares them:
`DayLenAssumption`, `PipelineAssumption`, `MonitorAssumption`, `ChatAssumption`,
`LoginsAssumption`, `UpdateAssumption`, `DaemonAssumption`, `AccessAssumption`,
`AnalysesAssumption`, `ReportsAssumption`, `MonitorsAssumption`, `MetricsAssumption`,
`FilesAssumption`, `ConnectionsAssumption`, `DirectoriesAssumption`, `RunnerAssumption`,
`FirewallAssumption`, `HardeningAssumption`, `PackagesAssumption`, `ScansAssumption`).  They give
the constants their types; bounds may be any natural number.  Of substance are only that the
users whose messages are checked and the pairs of address and port are finitely many, and that a
count, a pause or a day is not zero where the code's minimum forbids it.

* `AlertPipelineProofs`: `TypeCorrect`; then `EveryAlertAccountedFor` and `NoAlertToldTwice`.
  `AccountedFor` is not inductive: that an alert is in only one batch does not follow from its
  being in one *place*.  The strengthening (`AccountInv`) adds that different batches have
  different members (`BatchesApart`), that what a batch has still to send is among them and that
  the others have been told.  The proof shows of every action that it moves a set of alerts from
  one place to another one (`Moves`) or none (`StaysPut`).
  `QueueAlwaysArmed`, `DigestsAtQuietEnd` and `QuietHoursRespected` rest on lemmas about the
  window (counting the delay down with the clock ends exactly at its end, and a window stops
  only there) and on invariants about the clock: while the flush sleeps, `now` plus what is left of
  the sleep is the end of quiet hours (`SleepToEnd`); in a window that ends, a digest is being sent
  outside it only (`SendAfterEnd`); without correlation nothing is buffered (`NothingBuffered`).
  `NothingIsAhead` follows an alert from its arrival to its record and the advice: an alert has one
  record, and none that says notified while it is queued or after it is discarded
  (`RecordsInOrder`); only a restart belies a record, and only with correlation
  (`LostAfterRecord`); advice comes last (`AdviceInOrder`).
  `PromiseIsKept`: under the mapping of `Promised` the pipeline implements `AlertPromise`.  The fate
  of an alert in the abstract state is read off its place (`StatusOf`), so that the proof is again
  one of moves: every step takes some alerts from one status to the next one that the promise
  allows, or is a stutter.
* `ServiceMonitorProofs`: `TypeCorrect`; `RestartsAreBounded`, `GivingUpIsAnnounced` and
  `RestartsAreAudited`.  The invariant relates the counters of the service at which the pass is
  to the step it is in: an attempt under way is counted before the command is given.
* `ChatConfirmationsProofs`: `TypeCorrect`; `RequestsRunOnce`, `OneRequestPerReaction` and
  `DeadRequestsNeverRun`, from an invariant that says that a request is unstarted as long as its
  command has not offered it and as long as it is pending, and that it is never pending in two
  places; `SerialChangesAreKept`, because without overlap the one thread between read and
  write still has the file; `ChangesAudited` and `RepliesAccurate`, from an invariant (`KeysOf`)
  that follows each key through the loop, and from the fact that a key once written stays
  settled (`KeptForever`), so that another thread's copy of it may be written back at any time.
* `LoginMonitorProofs`: `LoginsTypeCorrect` and `NewUsersAreAnnounced`.  The alerts of a pass are a
  sequence, so the invariant first says where a pass stands and whose alerts it holds
  (`PlaceInv`); then that whoever is on record was announced, is about to be, or was cut off, and
  that nobody is about to be who was (`AnnouncedInv`), for which what the pass has read about the
  user must still hold when the login is recorded.
* `SelfUpdateProofs`: `UpdatesCanBeUndone`, `SnapshotsStayBounded`, `SnapshotsAreAudited`,
  `CodeIsInstalled`.  On top of the control state of the update task (`ControlInv`): the snapshot
  made last holds the tree that is about to be replaced, and pruning never takes it unless only
  one is kept (`RollbackKept`); after each pruning there are no more than allowed, and until then
  one more (`PruningEnough`); each snapshot without a record was cut off or failed, by
  counting (`AuditedButFor`); between updates pip has run for the tree there is (`CodeOfTree`).
* `DaemonProofs`: `LifeTypeCorrect`; `ShutdownsAreOrderly`.  The property speaks of the
  database and of the end of the process; inductive is `ShutdownInv`, which says of each phase what
  is not started yet (`NotYetStarted`), what is stopped already (`StoppedInOrder`), that the
  database is open in between (`DatabaseOpen`), and that an update task is dead only of a fault
  (`DeadOfAFault`).  `PolicyFollowsFile`, because an edit is owed a signal, a signal is a reload
  that is pending, and a reload reads the file and sets the policy in one step; and
  `RefusalsAreRecorded`, by counting: each step moves a message into, within or out of the finite
  set of refusals that are being recorded, and the counters with it.  The first two are theorems
  about `LifeSpec`, the others about `AccessSpec`, in which the life of the daemon goes on
  beside the messages.  The composed daemon that the run checks has its own: `DaemonTypeCorrect`,
  `UpdatesAreSafe`, `ChatIsOnRecord` (which adds the analyses, again by counting: `AnalysesInv`)
  and `DaemonStaysOrderly`; `DaemonInv` is the conjunction of the invariants of the parts, each for
  the view in which the part moves.
* `MonitorsProofs`: `ReportsAreExact`.  The invariant says that no row is ahead of the clock or of
  what is being reported (`RowInOrder`), that what a row says was published (`RowTrue`), that the
  periods up to the row have had a digest of their own and one more only for each cut
  (`DigestsBounded`), and where in the log of alerts each digest leaves off (`CountInv`).
  `MonitorsTypeCorrect`, `TamperingIsReported`, `AlertsAreSpaced` and `NothingIsMissed` come from
  `WatchInv`.  Its parts: of the metrics that every byte of the counter is counted, in the gap,
  or still to come (`TrafficInv`), and that what this life of the daemon remembers is the last
  alert of the subject (`AlertsInv`); of the files that what a round owes is ahead of it or in its
  hands, with the baseline it has read (`IntegrityInv`); of the connections that table and alerts
  agree (`KnownInv`), and of which addresses a pass is through with (`PassInv`); of the directories
  that tasks are handled in the order of their changes (`QueueInv`), that what a path remembers was
  told (`RememberedInv`), and that without overlap or restart alerts are apart (`ApartInv`).
* `ToolsProofs`: `RepairsAreReal`, about `ToolsSpec`.  The property speaks of the end of a run; the
  runs of a tool overlap, and each works from lists of its own moment.  The invariant (`ToolsInv`)
  says it of every moment: whatever still differs from what is desired is in the lists of every
  run of the firewall tool (`FwRunsKnow`), in those of every package check (`PqKnows`), and what a
  hardening run has fixed stays as wanted from then on (`HdFixedHolds`).  It is kept because no run
  undoes what another one wants: no list of the firewall names a desired rule for removal
  (`FwListsAgree`), a drop-in file only gains settings, packages are only installed.  With nftables,
  where a flush does undo, `FirewallReported` promises nothing; the finding below is about that.
  `FindingsAreWhole`: a scan has a number and a row of its own, and compares with the last one
  stored when it began or with one stored since (`VsKnows`, in `VsInv`); an audit is of one run, and stands where its rows say
  (`TfInv`).  `ToolsTypeCorrect` adds that a run comes to set a policy only with one that is
  configured, and that a check that is due is there (`ToolsTyped`).

Only model-checked: every liveness property (`RemediationTried`, `DownIsHandled`, `Answered`,
`StaysCurrent`, `DaemonStops`, `DriftRepaired`, and the liveness half of `KeepsPromise`), as the
prover does neither fairness nor ENABLED; and `SuspicionsReported`, whose half about brute force
rests on a sum over the rows of a table, a recursive definition.  The invariants of `MCDaemon`,
`MCMonitors` and `MCTools` are conjunctions of those of the modules.

## 6. Where code and documents disagree

1. `ChatWrongPrompt` / `ConfirmedAsAsked`: US-044 says that the admin confirms the proposed
   change; a reaction, on any message, confirms whatever is pending for the user
   (`chat/command_dispatcher.py:212`).
2. `ChatLostUpdate` / `AppliedChangesStick`: US-044 says that the configuration is updated on
   confirmation; two changes made at the same time lose one
   (`chat/command_config.py:657`).  `SerialChangesStick` is what holds.
3. `LoginsRecounted` / `BruteForceIsReal`: US-003 says that a number of failed attempts within the
   window is reported; every pass stores the lines of the whole window again, so one attempt
   becomes as many as there are passes in it (`monitors/login_log_sources.py:21`).
4. `Firewall` / `FirewallRestored`: US-014 says that with `enforce` missing rules are restored;
   on nftables the policy of a chain that exists is never changed (`tools/firewall/backends.py:192`),
   so a drift of the policy stays, each run flushes the chain because of it and adds only the rules
   it had found missing: every second run leaves the chain empty, and records a success.
5. `PackagesScheduled` / `PackagesHealed`: US-002 says that packages are checked at an interval; the
   job publishes `tool.required_packages.scheduled` (`core/scheduler.py:128`), the tool is subscribed
   to `tool.packages.scheduled` (`core/daemon.py:135`), and only the check at startup takes place.
What the passing properties leave out because the code does not promise it; each is what TLC shows
when the exception is taken out of the property.

* `QuietRespected` without correlation only: US-032 says that only critical alerts are sent during
  quiet hours; a correlated alert that was raised before them is sent in them, as nobody looks at the
  time again (`alerts/correlation.py:131`).
* `AlertsSpaced` but for overlapping changes: US-018 has a cooldown per path; of two changes one may
  be handled while the other is being recorded, and both are told
  (`monitors/directory_changes.py:228`).
* `ReportedIsReal` and `DriftRepaired` about the file: US-013 says that failing checks are fixed; after
  one reload of sshd that failed, the file passes every later audit, and nothing reloads sshd
  (`tools/hardening/tool.py:298`).
* `FindingsWhole` but for scans that are cut off: US-026 says that a drop since the last scan is told;
  one whose run ends between the row of the scan and the publication never is
  (`tools/vulnscan/tool.py:193`).
* `FindingsWhole` but for audits that are cut off: US-027 has `!2fa` show the status of all accounts; an
  audit whose second insert raises is made permanent without any by the next commit of another
  component (`tools/twofa_audit/tool.py:440`).

Behaviour met while modelling, that no property is about.

*Alerts and services.*  With correlation on, a critical alert waits for its audit record and for
the window (`alerts/handler.py:513`), where docs/configuration.md:332 has it sent immediately;
alerts held by correlation are not offered to remediation.  An attempt that an error cuts short is
counted but is not the one that gives up, so one more restart is made than US-012:16 says
(`monitors/services.py:130`).

*Reports, logins.*  "Only one digest message is sent per day" (US-010) fails if an error or a stop
comes between a digest and its row, which is what `ReportedOnce` allows for; for the same reason
as in 3 a login made within allowed hours and read again after them is reported as off hours.

*Updates and daemon.*  With keep_last 1 the post-update snapshot prunes the one taken before the
update; a listing of snapshots that fails counts as a failed snapshot; an audit append that raises
ends the update task, and at shutdown its exception skips what follows (`core/daemon.py:607`).
SIGTERM while the daemon shuts down for an update is lost (`core/daemon.py:619`).  The start-up
broadcast waits for Discord for ever and says that monitoring has started before it has; a port
that is taken, or a tool that raises at startup, ends `run_daemon` with nothing stopped.

*Chat and LLM.*  Reactions are not authorised: a user whose role was revoked can still confirm what
is pending.  SIGHUP reloads access control only.  A refusal whose append raises has neither record
nor answer (US-034:16).  A command whose handler raises has no reply.  A routing rule that names a
provider that is not loaded makes the analysis unavailable, without fallback.

*Tools.*  An upgrade that raises publishes no failure event (US-001:13); a dry run is not recorded; a
failed firewall run records none of the changes it had made; intervals that do not divide an hour
become uneven or invalid cron expressions (`_cron_from_interval_seconds`); an SSH setting that a
file before ours makes is reported remediated although sshd takes that file's;
`reboot_policy: auto` only notifies (docs/configuration.md:479); `!2fa` between the two
inserts of an audit shows one without accounts.

*Monitors.*  A directory that is missing when the observer
starts is never watched; a change whose append raises has neither row nor alert.  A connection alert
is repeated if the pass is cut off between alert and upsert (`monitors/connections.py:255`).  A file
deleted below a monitored directory is not reported, as only files that are there are listed; a file
updated with `!integrity update` may be reported once by the round under way.

## 7. Not modelled

Wording, layout and parsing; SQL beyond rows and commits; the host's own commands beyond success,
failure and effect.  The triggers of the scheduler and its parsing of intervals (APScheduler is
external).  Commands of chat that only query the database.  Choice of a model, payloads and tokens of
LLM providers.  Discovery of plugins, migrations and purging of the database, what the exporter and
the dashboard show.  Setup and packaging: a sequential installer run by hand, which keeps no
state.  Charts and formatters.  All modules assume that an awaited command ends: no command of
the service monitor has a timeout, and one that hangs stops all monitors, which are collected by one
coroutine (`monitors/registry.py:156`).

## 8. Plan

Done: the alert pipeline with `AlertPromise`, services, confirmations, reports, logins, updates, the
life of the daemon with access control and LLM analyses, the tools, the monitors of the host; and
proofs of every invariant that a run checks, of the action properties but one, and of the safety
half of the refinement.  Next, in this order:

1. `SuspicionsReported`, with the rows of `login_attempts` as a set whose cardinality is the count.
   The invariant follows the lines behind `at`: the failures among them are rows but for errors,
   the latest login of a user is the last line of theirs, and what it was suspicious for is due,
   told, or was within the cooldown.
2. Scheduler triggers as operators against a reference definition, with the intervals that become
   uneven cron expressions.
