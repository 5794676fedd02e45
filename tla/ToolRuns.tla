------------------------------ MODULE ToolRuns ------------------------------
(***************************************************************************)
(* Who runs a tool, and what becomes of a run that raises: the tool        *)
(* registry of core/daemon.py, core/scheduler.py and tools/base.py.        *)
(*                                                                         *)
(* A tool may be run by the scheduler (through an event), once while the   *)
(* daemon starts, and on a confirmed !update.  Nothing keeps two runs of   *)
(* one tool apart, except that APScheduler does not start a job that is    *)
(* still running.  The modules of the tools extend this one; each of them  *)
(* keeps what its runs know in a function from callers to records.         *)
(***************************************************************************)
EXTENDS Integers, FiniteSets

CONSTANTS
  ToolConfigs,  \* the sets of tools a configuration may enable
  MaxFaults,    \* bound: commands that fail and awaits that raise
  MaxStops      \* bound: how often the daemon stops or crashes by itself

VARIABLES
  enabled,      \* the tools that are loaded; fixed
  up,           \* the daemon runs
  faults, stops

runnerVars == <<enabled, up, faults, stops>>

\* The entry points of the group sentinel.tools, and the name a tool has.
Tools == {"security_update", "packages", "firewall", "hardening", "vulnscan",
          "storage", "twofa_audit"}
ToolName(tool) == IF tool = "packages" THEN "required_packages" ELSE tool

ASSUME RunnerAssumption ==
  /\ ToolConfigs \subseteq SUBSET Tools
  /\ MaxFaults \in Nat /\ MaxStops \in Nat

\* _register_tool_event_handlers subscribes under the name of the entry point,
\* _publish_scheduled publishes under the name of the tool.
HasSubscriber(name) == name \in Tools

Callers == {"scheduler", "startup", "chat"}
CallersOf(tool) ==
  {c \in Callers :
    \/ c = "scheduler" /\ HasSubscriber(ToolName(tool))
    \/ c = "startup"
    \/ c = "chat" /\ tool = "security_update"}

\* Where a caller stands when it runs nothing: the run at startup is due once.
Waiting(c) == IF c = "startup" THEN "due" ELSE "idle"
Ended(c) == IF c = "startup" THEN "done" ELSE "idle"

RunnerTypeOK ==
  /\ enabled \subseteq Tools
  /\ up \in BOOLEAN
  /\ faults \in 0 .. MaxFaults
  /\ stops \in 0 .. MaxStops

RunnerInit ==
  /\ enabled \in ToolConfigs
  /\ up = TRUE /\ faults = 0 /\ stops = 0

\* Only tools that are enabled are loaded, and only in a daemon that runs.
Loaded(tool) == up /\ tool \in enabled

NoFault == UNCHANGED runnerVars

\* A command exits with an error the tool knows how to report.
Fault ==
  /\ faults < MaxFaults
  /\ faults' = faults + 1
  /\ UNCHANGED <<enabled, up, stops>>

\* An exception leaves the run.  The event bus and the chat adapter log it; the
\* startup runner lets it pass, and it ends run_daemon.
Raise(c) ==
  /\ faults < MaxFaults
  /\ faults' = faults + 1
  /\ up' = (c # "startup")
  /\ UNCHANGED <<enabled, stops>>

StopDaemon ==
  /\ up
  /\ stops < MaxStops
  /\ stops' = stops + 1
  /\ up' = FALSE
  /\ UNCHANGED <<enabled, faults>>

\* systemd starts the daemon again (Restart=on-failure), or an admin does; what
\* the runs of before knew is gone then.
StartDaemon ==
  /\ ~up
  /\ up' = TRUE
  /\ UNCHANGED <<enabled, faults, stops>>
=============================================================================
