------------------------------ MODULE MCTools ------------------------------
(* The tools together in one daemon.  A configuration enables one of them at  *)
(* a time: they share nothing but the database connection, ScanTools' own.    *)
EXTENDS FirewallTool, HardeningTool, PackageTools, ScanTools

CONSTANTS r1, r2

CheckSets ==
  {SshChecks, {"sysctl_hardening", "disable_unnecessary_services",
               "strong_password_policy"}}
LaterSets == {{}, {"ssh_disable_root_login"}}
EarlierSets == {{}, {"ssh_disable_root_login", "ssh_disable_password_auth"}}

firewallState == <<fwBackend, fwEnforce, fwLive, fwPolicy, fwRun, fwMeddles,
                   fwMeddled>>
hardeningState == <<hdConfig, hdHost, hdRun, hdMeddles, hdMeddled>>
packagesState == <<pkConfig, pkUpdates, pkChecks, pkMeddles>>
scansState == <<scanVars, auditVars, stRun>>
toolVars == <<firewallState, hardeningState, packagesState, scansState,
              runnerVars>>

ToolsInit ==
  RunnerInit /\ FirewallInit /\ HardeningInit /\ PackagesInit /\ ScansInit

Down ==
  /\ StopDaemon
  /\ UNCHANGED <<firewallState, hardeningState, packagesState, scansState>>
Up == StartDaemon /\ FwForget /\ HdForget /\ PkForget /\ ScForget

\* What a step of one of the modules leaves alone.
notFirewall == <<hardeningState, packagesState, scansState>>
notHardening == <<firewallState, packagesState, scansState>>
notPackages == <<firewallState, hardeningState, scansState>>
notScans == <<firewallState, hardeningState, packagesState>>

ToolsNext ==
  \/ FirewallNext /\ UNCHANGED notFirewall
  \/ HardeningNext /\ UNCHANGED notHardening
  \/ PackagesNext /\ UNCHANGED notPackages
  \/ ScansNext /\ UNCHANGED notScans
  \/ Down
  \/ Up

\* APScheduler starts a job at every interval, what is awaited returns, and the
\* daemon is started again after a stop.  Only one tool is enabled, so this is
\* fairness of its steps.
Begin(c) ==
  \/ FwBegin(c) /\ UNCHANGED notFirewall
  \/ HdBegin(c) /\ UNCHANGED notHardening
  \/ UpBegin(c) /\ UNCHANGED notPackages
Step(c) ==
  \/ c \in FwCallers /\ FwStep(c) /\ UNCHANGED notFirewall
  \/ c \in HdCallers /\ HdStep(c) /\ UNCHANGED notHardening
  \/ UpStep(c) /\ UNCHANGED notPackages

ToolsSpec ==
  /\ ToolsInit
  /\ [][ToolsNext]_toolVars
  /\ WF_toolVars(Begin("scheduler"))
  /\ \A c \in Callers : WF_toolVars(Step(c))
  /\ WF_toolVars(Up)

ToolsTypeOK ==
  /\ RunnerTypeOK /\ FirewallTypeOK /\ HardeningTypeOK /\ PackagesTypeOK
  /\ ScansTypeOK

\* What the tools report to have repaired is in place when they say so.
ReportedIsReal == FirewallReported /\ HardeningReported /\ PackagesReported

\* What the scans and audits found is told and stored whole.
FindingsWhole == DropsTold /\ AuditsWhole

\* A drift that a tool is to repair is repaired for good, and the need of a
\* reboot told, once admins, faults and crashes leave the host alone: whatever
\* run was cut off, one that is scheduled later makes up for it.
DriftRepaired == <>[](UfwRepaired /\ HardeningRepaired /\ RebootTold)
=============================================================================
