----------------------------- MODULE MCMonitors -----------------------------
(* The monitors of one daemon.  A configuration turns on either one of the   *)
(* scheduled reports or one of the monitors that watch the host: what they   *)
(* share is the loop that calls them, and that only takes time of others.    *)
EXTENDS ScheduledReports, MetricMonitors, FileMonitors, ConnectionMonitor,
        DirectoryChanges, TLC

\* One directory is there at once or later, the other holds what is whitelisted.
DirOf == [p \in DcPaths |-> IF p \in DcWhitelisted THEN "logs" ELSE "etc"]

\* Two ports of one address, one of another, and one that is trusted.
Connections ==
  {<<"10.0.0.1", 22>>, <<"10.0.0.1", 80>>, <<"10.0.0.2", 80>>,
   <<"127.0.0.1", 80>>}

\* The two files are alike.
AlikeFiles == Permutations(FiFiles)

filesVars == <<integrityVars, oldFilesVars>>
notMetrics == <<filesVars, connectionVars, directoryVars>>
notFiles == <<metricVars, connectionVars, directoryVars>>
notConnections == <<metricVars, filesVars, directoryVars>>
notDirectories == <<metricVars, filesVars, connectionVars>>
watchVars == <<passVars, metricVars, notMetrics>>

MonitorsInit ==
  /\ Init /\ PassesInit
  /\ (watched = "reports") = (enabled # {})
  /\ MetricsInit /\ FilesInit /\ ConnectionsInit /\ DirectoriesInit

WatchNext ==
  \/ MetricsNext /\ UNCHANGED notMetrics
  \/ FilesNext /\ UNCHANGED notFiles
  \/ ConnectionsNext /\ UNCHANGED notConnections
  \/ DirectoriesNext /\ UNCHANGED notDirectories
  \/ TimePasses /\ UNCHANGED <<metricVars, notMetrics>>
  \/ StopsPasses /\ UNCHANGED <<metricVars, notMetrics>>
  \/ StartsPasses /\ MtForget /\ FilesForget /\ CoForget /\ DcForget

MonitorsNext ==
  \/ watched = "reports" /\ Next /\ UNCHANGED watchVars
  \/ watched # "reports" /\ WatchNext /\ UNCHANGED vars

MonitorsSpec == MonitorsInit /\ [][MonitorsNext]_<<vars, watchVars>>

MonitorsTypeOK ==
  /\ TypeOK /\ PassesTypeOK /\ MetricsTypeOK /\ FilesTypeOK
  /\ ConnectionsTypeOK /\ DirectoriesTypeOK

\* Nobody is told of the same thing again within its cooldown, but for what the
\* monitor could not keep in mind: a restart, or a record that was cut off.
\* Checkups are as far apart across restarts, too.
AlertsSpaced ==
  /\ MetricAlertsSpaced /\ ConnectionAlertsSpaced /\ ChangeAlertsSpaced
  /\ CheckupsApart

\* What a monitor has seen is told or counted, and what it keeps to itself has
\* an alert within the cooldown; what is stored is whole.
NothingMissed ==
  /\ BreachesTold /\ TrafficCounted /\ AttemptsTold /\ SilencedByAnAlert
  /\ OldFilesWhole

\* Every period is reported, and once, with every alert it has had counted; a
\* second report of a period has a cut between publication and row behind it.
ReportsExact == ReportedOnce /\ PeriodsReported /\ AlertsCounted
=============================================================================
