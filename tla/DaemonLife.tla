----------------------------- MODULE DaemonLife -----------------------------
(***************************************************************************)
(* run_daemon of core/daemon.py from the start of the process to its end:  *)
(* what is started in which order, what an exception or a signal in the    *)
(* middle of it leaves behind, and the order of the shutdown.              *)
(*                                                                         *)
(* A step runs from one await of run_daemon to the next.  dlPhase names    *)
(* what is awaited.  The task that looks for updates is only what matters  *)
(* to the others here; SelfUpdate has it command by command.               *)
(***************************************************************************)
EXTENDS Naturals

CONSTANTS
  DlMaxFaults,  \* bound: exceptions in whatever the daemon does
  DlMaxStops    \* bound: signals to stop, and crashes

ASSUME DaemonAssumption == DlMaxFaults \in Nat /\ DlMaxStops \in Nat

\* chat: a Discord adapter is loaded; exporter: metrics are exported; updates:
\* the daemon updates itself.
DlConfigs == [chat : BOOLEAN, exporter : BOOLEAN, updates : BOOLEAN]

VARIABLES
  dlConfig,     \* fixed
  dlPhase,
  dlStarted,    \* what was started and not stopped
  dlReady,      \* has Discord reported ready in this process?
  dlUpdater,    \* the task of _self_update_loop
  dlStop,       \* stop_event
  dlRestart,    \* restart_requested
  dlExit,       \* how the process of before ended
  dlFaults, dlStops

lifeVars == <<dlConfig, dlPhase, dlStarted, dlReady, dlUpdater, dlStop,
              dlRestart, dlExit, dlFaults, dlStops>>

Parts == {"database", "adapters", "registry", "exporter", "scheduler"}
StartPhases == {"connect", "adapters", "greet", "exporter", "tools"}
StopPhases == {"stopReloads", "stopExporter", "stopRegistry", "stopAdapters",
               "closeDatabase"}
Phases == {"down", "running"} \union StartPhases \union StopPhases

LifeTypeOK ==
  /\ dlConfig \in DlConfigs
  /\ dlPhase \in Phases
  /\ dlStarted \subseteq Parts
  /\ dlReady \in BOOLEAN
  /\ dlUpdater \in {"none", "running", "dead", "finished"}
  /\ dlStop \in BOOLEAN /\ dlRestart \in BOOLEAN
  /\ dlExit \in {"none", "returned", "restart", "raised", "killed"}
  /\ dlFaults \in 0 .. DlMaxFaults /\ dlStops \in 0 .. DlMaxStops

LifeInit ==
  /\ dlConfig \in DlConfigs
  /\ dlPhase = "connect"
  /\ dlStarted = {}
  /\ dlReady = FALSE
  /\ dlUpdater = "none"
  /\ dlStop = FALSE /\ dlRestart = FALSE
  /\ dlExit = "none"
  /\ dlFaults = 0 /\ dlStops = 0

LifeFault == dlFaults < DlMaxFaults /\ dlFaults' = dlFaults + 1

Runs(part) == dlPhase # "down" /\ part \in dlStarted

\* What the phases of the coroutine leave alone.
restVars == <<dlConfig, dlReady, dlStop, dlRestart, dlExit, dlStops>>

\* The coroutine goes on to await what phase names.
Await(phase) == dlPhase' = phase

\* An exception ends run_daemon where it stands: nothing is stopped any more.
Raised ==
  /\ Await("down")
  /\ dlExit' = "raised"
  /\ UNCHANGED <<dlConfig, dlStarted, dlReady, dlUpdater, dlStop, dlRestart,
                 dlStops>>

-----------------------------------------------------------------------------
(* Start-up *)

\* monitor_registry.start awaits nothing that suspends: its two loops are tasks.
StartRegistry(started) ==
  /\ dlStarted' = started \union {"registry"}
  /\ Await("exporter")

\* db.connect with its migrations; the start of the Discord adapter makes a task.
Connect ==
  /\ dlPhase = "connect"
  /\ IF dlConfig.chat
     THEN dlStarted' = {"database", "adapters"} /\ Await("adapters")
     ELSE StartRegistry({"database"})
  /\ UNCHANGED <<restVars, dlUpdater, dlFaults>>

\* The migrations, or a tool that is run while the daemon starts, raise.
ConnectFails == dlPhase = "connect" /\ LifeFault /\ Raised

\* on_ready: Discord is there, or it never is.
Ready ==
  /\ Runs("adapters") /\ ~dlReady
  /\ dlReady' = TRUE
  /\ UNCHANGED <<dlConfig, dlPhase, dlStarted, dlUpdater, dlStop, dlRestart,
                 dlExit, dlFaults, dlStops>>

\* DiscordAdapter.start: ready, or not ready after 30 s, it returns.
AdaptersStarted ==
  /\ dlPhase = "adapters"
  /\ Await("greet")
  /\ UNCHANGED <<restVars, dlStarted, dlUpdater, dlFaults>>

\* The broadcast that the service has started: send waits for the ready event,
\* however long that takes.  What it raises is logged by the router.
Greet ==
  /\ dlPhase = "greet" /\ dlReady
  /\ StartRegistry(dlStarted)
  /\ UNCHANGED <<restVars, dlUpdater, dlFaults>>

\* prometheus_exporter.start and scheduler.start.
StartExporter ==
  /\ dlPhase = "exporter"
  /\ dlStarted' = dlStarted \union {"scheduler"}
                    \union (IF dlConfig.exporter THEN {"exporter"} ELSE {})
  /\ Await("tools")
  /\ UNCHANGED <<restVars, dlUpdater, dlFaults>>

\* The port is taken.
StartExporterFails ==
  dlPhase = "exporter" /\ dlConfig.exporter /\ LifeFault /\ Raised

\* _run_tools_on_startup, and the task that looks for updates.
RunToolsOnStartup ==
  /\ dlPhase = "tools"
  /\ dlUpdater' = IF dlConfig.updates THEN "running" ELSE "none"
  /\ Await("running")
  /\ UNCHANGED <<restVars, dlStarted, dlFaults>>

ToolRaises == dlPhase = "tools" /\ LifeFault /\ Raised

-----------------------------------------------------------------------------
(* While it runs *)

\* _self_update_loop has applied an update.
Updated ==
  /\ dlPhase = "running" /\ dlUpdater = "running" /\ ~dlStop
  /\ dlUpdater' = "finished"
  /\ dlRestart' = TRUE /\ dlStop' = TRUE
  /\ UNCHANGED <<dlConfig, dlPhase, dlStarted, dlReady, dlExit, dlFaults,
                 dlStops>>

\* It raises what it does not catch; nobody looks at the task until the end.
UpdaterDies ==
  /\ dlPhase = "running" /\ dlUpdater = "running"
  /\ LifeFault
  /\ dlUpdater' = "dead"
  /\ UNCHANGED <<restVars, dlPhase, dlStarted>>

\* SIGINT or SIGTERM.  Before the handlers are installed it ends the process.
Asked ==
  /\ dlPhase # "down"
  /\ dlStops < DlMaxStops
  /\ dlStops' = dlStops + 1
  /\ IF dlPhase = "connect"
     THEN Await("down") /\ dlExit' = "killed" /\ UNCHANGED dlStop
     ELSE dlStop' = TRUE /\ UNCHANGED <<dlPhase, dlExit>>
  /\ UNCHANGED <<dlConfig, dlStarted, dlReady, dlUpdater, dlRestart, dlFaults>>

Killed ==
  /\ dlPhase # "down"
  /\ dlStops < DlMaxStops
  /\ dlStops' = dlStops + 1
  /\ Await("down")
  /\ dlExit' = "killed"
  /\ UNCHANGED <<dlConfig, dlStarted, dlReady, dlUpdater, dlStop, dlRestart,
                 dlFaults>>

-----------------------------------------------------------------------------
(* Shutdown *)

Stopped(part) == dlStarted' = dlStarted \ {part}

\* Mutant: the shutdown waits for the loop to come to an end by itself.
CancelUpdaterAtEnd ==
  /\ dlUpdater \in {"none", "finished"}
  /\ dlUpdater' = "none"
  /\ Await("stopReloads")
  /\ UNCHANGED <<dlStarted, restVars>>

\* Of a task that was cancelled only the CancelledError is suppressed: what a
\* dead one raised ends the shutdown before it has stopped anything.
CancelUpdater ==
  \/ dlUpdater = "dead" /\ Raised
  \/ /\ dlUpdater # "dead"
     /\ dlUpdater' = "none"
     /\ Await("stopReloads")
     /\ UNCHANGED <<dlStarted, restVars>>

BeginShutdown ==
  /\ dlPhase = "running" /\ dlStop
  /\ CancelUpdater
  /\ UNCHANGED dlFaults

\* The reload tasks are cancelled, and scheduler.stop cancels the running jobs.
StopScheduler ==
  /\ dlPhase = "stopReloads"
  /\ Stopped("scheduler")
  /\ Await("stopExporter")
  /\ UNCHANGED <<restVars, dlUpdater, dlFaults>>

\* Mutant: the exporter is left running.
ForgetExporter ==
  /\ dlPhase = "stopExporter"
  /\ Await("stopRegistry")
  /\ UNCHANGED <<restVars, dlStarted, dlUpdater, dlFaults>>

StopExporter ==
  /\ dlPhase = "stopExporter"
  /\ Stopped("exporter")
  /\ Await("stopRegistry")
  /\ UNCHANGED <<restVars, dlUpdater, dlFaults>>

\* Both loops are cancelled; what a monitor raises in its stop is logged.
StopRegistry ==
  /\ dlPhase = "stopRegistry"
  /\ Stopped("registry")
  /\ Await("stopAdapters")
  /\ UNCHANGED <<restVars, dlUpdater, dlFaults>>

StopAdapters ==
  /\ dlPhase = "stopAdapters"
  /\ Stopped("adapters")
  /\ Await("closeDatabase")
  /\ UNCHANGED <<restVars, dlUpdater, dlFaults>>

\* Closing the client, unlike its task, is not guarded.
StopAdaptersFails ==
  dlPhase = "stopAdapters" /\ dlConfig.chat /\ LifeFault /\ Raised

CloseDatabase ==
  /\ dlPhase = "closeDatabase"
  /\ Stopped("database")
  /\ Await("down")
  /\ dlExit' = IF dlRestart THEN "restart" ELSE "returned"
  /\ UNCHANGED <<dlConfig, dlReady, dlUpdater, dlStop, dlRestart, dlFaults,
                 dlStops>>

\* os.execv, systemd or an administrator; the ended process keeps nothing.
StartProcess ==
  /\ dlPhase = "down"
  /\ Await("connect")
  /\ dlStarted' = {}
  /\ dlReady' = FALSE
  /\ dlUpdater' = "none"
  /\ dlStop' = FALSE /\ dlRestart' = FALSE
  /\ dlExit' = "none"
  /\ UNCHANGED <<dlConfig, dlFaults, dlStops>>

Startup ==
  Connect \/ AdaptersStarted \/ Greet \/ StartExporter \/ RunToolsOnStartup
Shutdown ==
  \/ BeginShutdown \/ StopScheduler \/ StopExporter \/ StopRegistry
  \/ StopAdapters \/ CloseDatabase
LifeFails ==
  \/ ConnectFails \/ StartExporterFails \/ ToolRaises \/ StopAdaptersFails

LifeNext ==
  \/ Startup \/ Shutdown \/ LifeFails
  \/ Ready \/ Updated \/ UpdaterDies
  \/ Asked \/ Killed \/ StartProcess

LifeSpec == LifeInit /\ [][LifeNext]_lifeVars

-----------------------------------------------------------------------------
(* Properties *)

\* The database is closed after everything that uses it is stopped, and what a
\* process leaves running at its end it leaves for an exception or a kill, never
\* on the way that returns (run_daemon, 603-620).
OrderlyShutdown ==
  /\ "database" \notin dlStarted => dlStarted = {}
  /\ dlExit \in {"returned", "restart"} => dlStarted = {}
  /\ dlExit = "raised" => dlFaults > 0

\* A daemon that is asked to stop ends, unless it still waits for a Discord that
\* never becomes ready (run_daemon awaits stop_event only after the greeting).
StopsWhenAsked ==
  \/ dlStop ~> (dlPhase = "down")
  \/ <>[](dlPhase = "greet" /\ ~dlReady)
=============================================================================
