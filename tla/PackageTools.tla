---------------------------- MODULE PackageTools ----------------------------
(***************************************************************************)
(* The tools that use the package manager: security updates                *)
(* (tools/update/tool.py) and required packages (tools/packages/tool.py),  *)
(* with the backends of tools/update/backends.py.                          *)
(*                                                                         *)
(* Every command and every publish is awaited; a step is one of them.  An  *)
(* admin removes packages meanwhile, and security updates keep coming.     *)
(***************************************************************************)
EXTENDS ToolRuns

CONSTANTS
  PkRequired,       \* the packages of the `required' list
  PkDistros,        \* the distributions the host may have
  PkMaxMeddles      \* bound: removals by an admin, and new security updates

ASSUME PackagesAssumption ==
  /\ PkDistros \subseteq {"apt", "dnf", "pacman", "other"}
  /\ PkMaxMeddles \in Nat

VARIABLES
  pkDistro,
  pkDry, pkPolicy,  \* dry_run and reboot_policy; fixed
  pkSeesReboot,     \* dnf: needs-restarting is installed; fixed
  pkPresent,        \* required packages that are installed
  pkPending,        \* security updates are available
  pkReboot,         \* the host needs a reboot
  pkUpdate, pkCheck,\* what the runs of the two tools know
  pkMeddles,
  pkMeddled,        \* history: callers whose check an admin interfered with
  pkTold            \* history: the need of this reboot was published

pkConfig == <<pkDistro, pkDry, pkPolicy, pkSeesReboot>>
pkUpdates == <<pkPending, pkReboot, pkTold, pkUpdate>>
pkChecks == <<pkPresent, pkCheck, pkMeddled>>
packagesVars == <<pkConfig, pkUpdates, pkChecks, pkMeddles, runnerVars>>

UpCallers == CallersOf("security_update")
UpSteps == {"idle", "due", "done", "upgrade", "recordFailure", "recordFailed",
            "publishFailed", "recordSuccess", "publishCompleted", "reboot",
            "publishReboot"}

PqCallers == CallersOf("packages")
PqSteps == {"idle", "due", "done", "query", "announce", "install", "publish",
            "record"}
PqRuns == [pc : PqSteps, todo : SUBSET PkRequired, missing : SUBSET PkRequired,
           failed : SUBSET PkRequired]
PqNoRun(pc) == [pc |-> pc, todo |-> {}, missing |-> {}, failed |-> {}]

PackagesTypeOK ==
  /\ pkDistro \in PkDistros
  /\ pkDry \in BOOLEAN /\ pkPolicy \in {"notify", "never"}
  /\ pkSeesReboot \in BOOLEAN
  /\ pkPresent \subseteq PkRequired
  /\ pkPending \in BOOLEAN /\ pkReboot \in BOOLEAN /\ pkTold \in BOOLEAN
  /\ pkUpdate \in [UpCallers -> UpSteps]
  /\ pkCheck \in [PqCallers -> PqRuns]
  /\ pkMeddles \in 0 .. PkMaxMeddles
  /\ pkMeddled \subseteq PqCallers

PackagesInit ==
  /\ pkDistro \in PkDistros
  /\ IF "security_update" \in enabled
     THEN /\ pkDry \in BOOLEAN /\ pkPolicy \in {"notify", "never"}
          /\ pkSeesReboot \in BOOLEAN /\ pkPending \in BOOLEAN
          /\ pkDistro # "dnf" => pkSeesReboot = (pkDistro = "apt")
     ELSE /\ pkDry = FALSE /\ pkPolicy = "never"
          /\ pkSeesReboot = FALSE /\ pkPending = FALSE
  /\ IF "packages" \in enabled THEN pkPresent \in SUBSET PkRequired
     ELSE pkPresent = PkRequired
  /\ {"security_update", "packages"} \intersect enabled = {} =>
       pkDistro = "other"
  /\ pkReboot = FALSE /\ pkTold = FALSE
  /\ pkUpdate = [c \in UpCallers |-> Waiting(c)]
  /\ pkCheck = [c \in PqCallers |-> PqNoRun(Waiting(c))]
  /\ pkMeddles = 0 /\ pkMeddled = {}

-----------------------------------------------------------------------------
(* SecurityUpdateTool.run *)

pkRest == <<pkConfig, pkMeddles>>
UpAt(c, step) == Loaded("security_update") /\ pkUpdate[c] = step
UpGoto(c, step) == pkUpdate' = [pkUpdate EXCEPT ![c] = step]
UpEnd(c) == UpGoto(c, Ended(c))
UpHost == UNCHANGED <<pkRest, pkChecks, pkPending, pkReboot>>

\* detect_backend; PacmanBackend.upgrade refuses before it awaits anything.
UpBegin(c) ==
  /\ UpAt(c, Waiting(c))
  /\ UpGoto(c, IF pkDistro \in {"apt", "dnf"} THEN "upgrade"
               ELSE "recordFailure")
  /\ NoFault /\ UpHost /\ UNCHANGED pkTold

\* The upgrade ends well, with an error, or not at all; some upgrades leave the
\* host in need of a reboot.
UpUpgraded(c) ==
  /\ UpAt(c, "upgrade")
  /\ UNCHANGED <<pkRest, pkChecks, pkTold>>
  /\ \/ pkDry /\ UpEnd(c) /\ NoFault /\ UNCHANGED <<pkPending, pkReboot>>
     \/ /\ ~pkDry /\ UpGoto(c, "recordSuccess") /\ NoFault
        /\ pkPending' = FALSE
        /\ pkReboot' \in {pkReboot, pkReboot \/ pkPending}
     \/ /\ ~pkDry /\ UpGoto(c, "recordFailed") /\ Fault
        /\ pkReboot' \in {pkReboot, pkReboot \/ pkPending}
        /\ UNCHANGED pkPending
     \/ UpGoto(c, "recordFailure") /\ Fault /\ UNCHANGED <<pkPending, pkReboot>>

UpNext(step) ==
  CASE step = "recordFailed" -> "publishFailed"
    [] step = "recordSuccess" -> "publishCompleted"

UpRecorded(c) ==
  /\ \/ \E step \in {"recordFailed", "recordSuccess"} :
          UpAt(c, step) /\ UpGoto(c, UpNext(step))
     \/ (UpAt(c, "recordFailure") \/ UpAt(c, "publishFailed")) /\ UpEnd(c)
  /\ NoFault /\ UpHost /\ UNCHANGED pkTold

UpAnnounced(c) ==
  /\ UpAt(c, "publishCompleted")
  /\ IF pkPolicy # "never" THEN UpGoto(c, "reboot") ELSE UpEnd(c)
  /\ NoFault /\ UpHost /\ UNCHANGED pkTold

\* reboot_required: a file (apt) or a command that may be missing (dnf).
UpRebootAsked(c) ==
  /\ UpAt(c, "reboot")
  /\ IF pkReboot /\ pkSeesReboot THEN UpGoto(c, "publishReboot") ELSE UpEnd(c)
  /\ NoFault /\ UpHost /\ UNCHANGED pkTold

UpRebootTold(c) ==
  /\ UpAt(c, "publishReboot")
  /\ UpEnd(c)
  /\ pkTold' = pkReboot
  /\ NoFault /\ UpHost

\* The append raises, or needs-restarting cannot be started.
UpRaises(c) ==
  /\ \E step \in {"recordFailure", "recordFailed", "recordSuccess", "reboot"} :
       UpAt(c, step)
  /\ Raise(c) /\ UpEnd(c)
  /\ UpHost /\ UNCHANGED pkTold

-----------------------------------------------------------------------------
(* RequiredPackagesTool.run *)

PqAt(c, step) == Loaded("packages") /\ pkCheck[c].pc = step
PqGoto(c, r) == pkCheck' = [pkCheck EXCEPT ![c] = r]
PqEnd(c) ==
  PqGoto(c, PqNoRun(Ended(c))) /\ pkMeddled' = pkMeddled \ {c}
PqOthers == UNCHANGED <<pkRest, pkUpdates>>

PqBegin(c) ==
  /\ PqAt(c, Waiting(c))
  /\ PqGoto(c, IF pkDistro = "other"
               THEN [PqNoRun("record") EXCEPT !.failed = PkRequired]
               ELSE [PqNoRun("query") EXCEPT !.todo = PkRequired])
  /\ NoFault /\ PqOthers /\ UNCHANGED <<pkPresent, pkMeddled>>

\* is_installed, package by package.
PqQueried(c) ==
  /\ PqAt(c, "query")
  /\ LET r == pkCheck[c] IN
     \E p \in r.todo :
       LET missing == IF p \in pkPresent THEN r.missing
                      ELSE r.missing \union {p}
           left == r.todo \ {p}
       IN  PqGoto(c, [r EXCEPT
             !.missing = missing,
             !.pc = IF left # {} THEN "query"
                    ELSE IF missing = {} THEN "record" ELSE "announce",
             !.todo = IF left = {} THEN missing ELSE left])
  /\ NoFault /\ PqOthers /\ UNCHANGED <<pkPresent, pkMeddled>>

\* Each missing package is published; then they are installed.
PqAnnounced(c) ==
  /\ PqAt(c, "announce")
  /\ LET r == pkCheck[c] IN
     \E p \in r.missing :
       PqGoto(c, [r EXCEPT
         !.missing = @ \ {p},
         !.pc = IF r.missing = {p} THEN "install" ELSE "announce"])
  /\ NoFault /\ PqOthers /\ UNCHANGED <<pkPresent, pkMeddled>>

\* install: an error status and an exception are told alike, and the next
\* package is tried.
PqInstalled(c) ==
  /\ PqAt(c, "install")
  /\ LET r == pkCheck[c] IN
     \E p \in r.todo :
       LET left == [r EXCEPT !.todo = @ \ {p}, !.pc = "publish"]
       IN  \/ /\ pkPresent' = pkPresent \union {p}
              /\ PqGoto(c, left) /\ NoFault
           \/ /\ PqGoto(c, [left EXCEPT !.failed = @ \union {p}]) /\ Fault
              /\ UNCHANGED pkPresent
  /\ PqOthers /\ UNCHANGED pkMeddled

PqPublished(c) ==
  /\ PqAt(c, "publish")
  /\ PqGoto(c, [pkCheck[c] EXCEPT
                  !.pc = IF pkCheck[c].todo = {} THEN "record" ELSE "install"])
  /\ NoFault /\ PqOthers /\ UNCHANGED <<pkPresent, pkMeddled>>

PqRecorded(c) ==
  /\ PqAt(c, "record") /\ PqEnd(c)
  /\ NoFault /\ PqOthers /\ UNCHANGED pkPresent

\* is_installed has no handler; nor has the append.
PqRaises(c) ==
  /\ PqAt(c, "query") \/ PqAt(c, "record")
  /\ Raise(c) /\ PqEnd(c)
  /\ PqOthers /\ UNCHANGED pkPresent

-----------------------------------------------------------------------------
(* The host *)

PkMeddles ==
  /\ pkMeddles < PkMaxMeddles
  /\ pkMeddles' = pkMeddles + 1
  /\ NoFault /\ UNCHANGED <<pkConfig, pkReboot, pkTold, pkUpdate, pkCheck>>

\* An admin removes a package.
PkRemoved ==
  /\ "packages" \in enabled
  /\ PkMeddles
  /\ \E p \in pkPresent : pkPresent' = pkPresent \ {p}
  /\ pkMeddled' = {c \in PqCallers : pkCheck[c].pc \notin {Waiting(c), Ended(c)}}
  /\ UNCHANGED pkPending

PkUpdateOut ==
  /\ "security_update" \in enabled
  /\ PkMeddles
  /\ ~pkPending /\ pkPending' = TRUE
  /\ UNCHANGED <<pkPresent, pkMeddled>>

\* The host is rebooted, and the daemon with it.
PkRebooted ==
  /\ pkReboot /\ StopDaemon
  /\ pkReboot' = FALSE /\ pkTold' = FALSE
  /\ UNCHANGED <<pkRest, pkChecks, pkPending, pkUpdate>>

PkForget ==
  /\ pkUpdate' = [c \in UpCallers |-> Waiting(c)]
  /\ pkCheck' = [c \in PqCallers |-> PqNoRun(Waiting(c))]
  /\ pkMeddled' = {}
  /\ UNCHANGED <<pkRest, pkPending, pkReboot, pkTold, pkPresent>>

UpStep(c) ==
  UpUpgraded(c) \/ UpRecorded(c) \/ UpAnnounced(c) \/ UpRebootAsked(c)
  \/ UpRebootTold(c)
PqStep(c) ==
  PqQueried(c) \/ PqAnnounced(c) \/ PqInstalled(c) \/ PqPublished(c)
  \/ PqRecorded(c)

PackagesNext ==
  \/ \E c \in UpCallers : UpBegin(c) \/ UpStep(c) \/ UpRaises(c)
  \/ \E c \in PqCallers : PqBegin(c) \/ PqStep(c) \/ PqRaises(c)
  \/ PkRemoved \/ PkUpdateOut \/ PkRebooted

\* An interval or cron job would start a check at every tick; a command and a
\* publish return.
PackagesSpec ==
  /\ RunnerInit /\ PackagesInit
  /\ [][PackagesNext]_packagesVars
  /\ \A c \in PqCallers :
       WF_packagesVars(PqBegin(c)) /\ WF_packagesVars(PqStep(c))

-----------------------------------------------------------------------------
(* Properties *)

\* What a check does not report as failed is installed when it ends, although
\* it looked and installed over many awaits, and went on after each failure
\* (RequiredPackagesTool.run); unless an admin interfered.
PackagesReported ==
  \A c \in PqCallers :
    pkCheck[c].pc = "record" /\ c \notin pkMeddled =>
      PkRequired \ pkCheck[c].failed \subseteq pkPresent

\* The need of a reboot has been announced, unless that is switched off or the
\* need cannot be seen (SecurityUpdateTool.run).
RebootTold ==
  pkReboot /\ pkPolicy # "never" /\ ~pkDry /\ pkSeesReboot => pkTold

\* (user_stories/US-002-required-packages.md:12) The daemon checks packages on
\* startup and at an interval, so a package that is removed comes back.
PackagesHealed == \A p \in PkRequired : []<>(p \in pkPresent)
=============================================================================
