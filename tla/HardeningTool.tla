--------------------------- MODULE HardeningTool ---------------------------
(***************************************************************************)
(* The hardening tool (tools/hardening/tool.py): a run goes through the    *)
(* enabled checks and, with auto_remediate, repairs what fails by writing  *)
(* a drop-in file of its own, sysctl values, or by disabling services.     *)
(*                                                                         *)
(* The checks use blocking calls, so they hold the event loop: no other    *)
(* run gets a turn before the results are recorded.  An admin does.  A     *)
(* setting is abstracted to whether it is as the check wants it.           *)
(*                                                                         *)
(* Of several files that make a setting the tool takes the last.  So does  *)
(* pwquality; but sshd takes the first, and reads sshd_config last because *)
(* distributions include the drop-ins at its top.                          *)
(***************************************************************************)
EXTENDS ToolRuns, Sequences

CONSTANTS
  HdCheckSets,        \* what _enabled_checks may come to
  HdEarlierSets,      \* settings that a drop-in sorting before ours may spoil
  HdLaterSets,        \* settings that a file sorting after ours may spoil
  HdServices,         \* unnecessary_services
  HdMaxMeddles        \* bound: changes made by an admin

\* all_checks, in their order.
HdOrder == <<"ssh_disable_root_login", "ssh_disable_password_auth",
             "sysctl_hardening", "disable_unnecessary_services",
             "strong_password_policy">>
HdChecks == {HdOrder[i] : i \in DOMAIN HdOrder}
SshChecks == {"ssh_disable_root_login", "ssh_disable_password_auth"}
FileChecks == SshChecks \union {"strong_password_policy"}

ASSUME HardeningAssumption ==
  /\ HdCheckSets \subseteq SUBSET HdChecks
  /\ HdEarlierSets \subseteq SUBSET FileChecks
  /\ HdLaterSets \subseteq SUBSET FileChecks
  /\ HdMaxMeddles \in Nat

VARIABLES
  hdOn, hdAuto,       \* the enabled checks; auto_remediate
  hdMain,             \* settings sshd_config and pwquality.conf have right
  hdManaged,          \* settings in our 99-system-sentinel-hardening.conf
  hdEarlier, hdLater, \* settings a file before or after ours has wrong; fixed
  hdInForce,          \* SSH settings sshd has loaded
  hdSysctl,           \* the kernel has all the desired values
  hdEnabled,          \* unnecessary services that are enabled
  hdRun,
  hdMeddles,
  hdMeddled           \* history: callers whose run an admin interfered with

hdConfig == <<hdOn, hdAuto, hdEarlier, hdLater>>
hdFiles == <<hdMain, hdManaged>>
hdHost == <<hdFiles, hdInForce, hdSysctl, hdEnabled>>
hardeningVars == <<hdConfig, hdHost, hdRun, hdMeddles, hdMeddled, runnerVars>>

HdCallers == CallersOf("hardening")
HdResults == {"none", "pass", "fixed", "fail"}
HdSteps == {"idle", "due", "done", "check", "record", "publish"}
HdRuns == [pc : HdSteps, todo : Seq(HdChecks), result : [HdChecks -> HdResults],
           announce : SUBSET HdChecks]
HdNoRun(pc) == [pc |-> pc, todo |-> <<>>,
                result |-> [k \in HdChecks |-> "none"], announce |-> {}]

HardeningTypeOK ==
  /\ hdOn \subseteq HdChecks /\ hdAuto \in BOOLEAN
  /\ hdMain \subseteq FileChecks /\ hdManaged \subseteq FileChecks
  /\ hdEarlier \subseteq FileChecks /\ hdLater \subseteq FileChecks
  /\ hdInForce \subseteq SshChecks
  /\ hdSysctl \in BOOLEAN
  /\ hdEnabled \subseteq HdServices
  /\ hdRun \in [HdCallers -> HdRuns]
  /\ hdMeddles \in 0 .. HdMaxMeddles
  /\ hdMeddled \subseteq HdCallers

HdEffectiveWith(k, managed) ==
  k \notin hdLater /\ (k \in managed \/ k \in hdMain \ hdEarlier)

\* _effective_ssh_setting and _effective_pwquality_settings: of several files
\* that make a setting, the last in order counts.
HdEffective(k) == HdEffectiveWith(k, hdManaged)

\* The settings that are right in sshd once it has loaded the files.
SshdLoads(managed) ==
  {k \in SshChecks \ hdEarlier : k \in managed \/ k \in hdMain \ hdLater}

HardeningInit ==
  /\ IF "hardening" \in enabled
     THEN /\ hdOn \in HdCheckSets /\ hdAuto \in BOOLEAN
          /\ hdEarlier \in HdEarlierSets /\ hdLater \in HdLaterSets
     ELSE hdOn = {} /\ hdAuto = FALSE /\ hdEarlier = {} /\ hdLater = {}
  /\ hdMain \in SUBSET (FileChecks \intersect hdOn)
  /\ hdManaged = {}
  /\ hdInForce = SshdLoads(hdManaged)
  /\ hdSysctl = ("sysctl_hardening" \notin hdOn)
  /\ hdEnabled = IF "disable_unnecessary_services" \in hdOn THEN HdServices
                 ELSE {}
  /\ hdRun = [c \in HdCallers |-> HdNoRun(Waiting(c))]
  /\ hdMeddles = 0 /\ hdMeddled = {}

-----------------------------------------------------------------------------
(* HardeningTool.run *)

HdAt(c, step) == Loaded("hardening") /\ hdRun[c].pc = step
HdHoldsLoop(c) == hdRun[c].pc = "check"
HdCheck(c) == Head(hdRun[c].todo)
HdEnd(c) ==
  /\ hdRun' = [hdRun EXCEPT ![c] = HdNoRun(Ended(c))]
  /\ hdMeddled' = hdMeddled \ {c}

\* The enabled checks, in the order of all_checks.
HdIfOn(k) == IF k \in hdOn THEN <<k>> ELSE <<>>
HdEnabledChecks ==
  HdIfOn(HdOrder[1]) \o HdIfOn(HdOrder[2]) \o HdIfOn(HdOrder[3])
    \o HdIfOn(HdOrder[4]) \o HdIfOn(HdOrder[5])

HdBegin(c) ==
  /\ HdAt(c, Waiting(c))
  /\ \A d \in HdCallers : ~HdHoldsLoop(d)
  /\ hdRun' = [hdRun EXCEPT
       ![c].pc = IF HdEnabledChecks = <<>> THEN "record" ELSE "check",
       ![c].todo = HdEnabledChecks]
  /\ NoFault /\ UNCHANGED <<hdConfig, hdHost, hdMeddles, hdMeddled>>

\* The result of a check, and the next one.
HdResult(c, result) ==
  /\ HdAt(c, "check")
  /\ hdRun' = [hdRun EXCEPT
       ![c].result[HdCheck(c)] = result,
       ![c].todo = Tail(@),
       ![c].pc = IF Tail(hdRun[c].todo) = <<>> THEN "record" ELSE "check"]
  /\ UNCHANGED <<hdConfig, hdMeddles, hdMeddled>>

HdPasses(k) ==
  CASE k \in FileChecks -> HdEffective(k)
    [] k = "sysctl_hardening" -> hdSysctl
    [] k = "disable_unnecessary_services" -> hdEnabled = {}

HdAudited(c) ==
  \/ HdResult(c, "pass") /\ HdPasses(HdCheck(c)) /\ NoFault /\ UNCHANGED hdHost
  \/ HdResult(c, "fail") /\ ~HdPasses(HdCheck(c)) /\ ~hdAuto
     /\ NoFault /\ UNCHANGED hdHost

HdToFix(c, checks) ==
  /\ HdAt(c, "check")
  /\ HdCheck(c) \in checks
  /\ ~HdPasses(HdCheck(c)) /\ hdAuto

\* Mutant: _ensure_ssh_setting writes the file anew, with the one setting.
HdWritesAnew(c) ==
  hdManaged' = (hdManaged \ SshChecks) \union {HdCheck(c)}

\* _replace_or_append_key: the settings that are there stay.
HdWritesFile(c) == hdManaged' = hdManaged \union {HdCheck(c)}

\* _check_ssh_setting: the file is written, then sshd is to reload.  An error
\* of either is reported; a file that was written stays.
HdFixSsh(c) ==
  /\ HdToFix(c, SshChecks)
  /\ \/ /\ HdWritesFile(c)
        /\ hdInForce' = SshdLoads(hdManaged')
        /\ HdResult(c, "fixed")
        /\ NoFault
     \/ /\ hdManaged' = hdManaged \/ HdWritesFile(c)
        /\ HdResult(c, "fail")
        /\ Fault /\ UNCHANGED hdInForce
  /\ UNCHANGED <<hdMain, hdSysctl, hdEnabled>>

\* _check_password_policy: a file, and nothing to reload.
HdFixPassword(c) ==
  /\ HdToFix(c, {"strong_password_policy"})
  /\ \/ HdWritesFile(c) /\ HdResult(c, "fixed") /\ NoFault
     \/ HdResult(c, "fail") /\ Fault /\ UNCHANGED hdManaged
  /\ UNCHANGED <<hdMain, hdInForce, hdSysctl, hdEnabled>>

\* _check_sysctl_hardening: sysctl --system may fail and have set the values.
HdFixSysctl(c) ==
  /\ HdToFix(c, {"sysctl_hardening"})
  /\ \/ hdSysctl' = TRUE /\ HdResult(c, "fixed") /\ NoFault
     \/ hdSysctl' \in BOOLEAN /\ HdResult(c, "fail") /\ Fault
  /\ UNCHANGED <<hdFiles, hdInForce, hdEnabled>>

\* _check_services: every enabled service is tried, whichever of them fail.
HdFixServices(c) ==
  /\ HdToFix(c, {"disable_unnecessary_services"})
  /\ \/ hdEnabled' = {} /\ HdResult(c, "fixed") /\ NoFault
     \/ /\ hdEnabled' \in (SUBSET hdEnabled) \ {{}}
        /\ HdResult(c, "fail")
        /\ Fault
  /\ UNCHANGED <<hdFiles, hdInForce, hdSysctl>>

HdFixed(c) == {k \in HdChecks : hdRun[c].result[k] = "fixed"}

\* The record is in; each remediated check is published.
HdRecorded(c) ==
  /\ HdAt(c, "record")
  /\ IF HdFixed(c) = {}
     THEN HdEnd(c)
     ELSE /\ hdRun' = [hdRun EXCEPT ![c].pc = "publish",
                                    ![c].announce = HdFixed(c)]
          /\ UNCHANGED hdMeddled
  /\ NoFault /\ UNCHANGED <<hdConfig, hdHost, hdMeddles>>

HdPublished(c) ==
  /\ HdAt(c, "publish")
  /\ \E k \in hdRun[c].announce :
       IF hdRun[c].announce = {k}
       THEN HdEnd(c)
       ELSE /\ hdRun' = [hdRun EXCEPT ![c].announce = @ \ {k}]
            /\ UNCHANGED hdMeddled
  /\ NoFault /\ UNCHANGED <<hdConfig, hdHost, hdMeddles>>

\* A file that cannot be read or a command that is missing ends the run in the
\* middle of the checks; so does an append that raises after them.
HdRaises(c) ==
  /\ Loaded("hardening") /\ hdRun[c].pc \in {"check", "record"}
  /\ Raise(c)
  /\ HdEnd(c)
  /\ UNCHANGED <<hdConfig, hdHost, hdMeddles>>

-----------------------------------------------------------------------------
(* The host *)

HdBusy == {c \in HdCallers : hdRun[c].pc # Waiting(c) /\ hdRun[c].pc # Ended(c)}

\* An admin edits a file, removes ours, enables a service, sets a kernel value,
\* or has sshd reload.
HdMeddle ==
  /\ "hardening" \in enabled
  /\ hdMeddles < HdMaxMeddles
  /\ hdMeddles' = hdMeddles + 1
  /\ hdMeddled' = HdBusy
  /\ \/ \E k \in hdMain : hdMain' = hdMain \ {k}
        /\ UNCHANGED <<hdManaged, hdInForce, hdSysctl, hdEnabled>>
     \/ hdManaged' = {} /\ UNCHANGED <<hdMain, hdInForce, hdSysctl, hdEnabled>>
     \/ hdSysctl' = FALSE /\ "sysctl_hardening" \in hdOn
        /\ UNCHANGED <<hdFiles, hdInForce, hdEnabled>>
     \/ \E s \in HdServices : hdEnabled' = hdEnabled \union {s}
        /\ UNCHANGED <<hdFiles, hdInForce, hdSysctl>>
     \/ hdInForce' = SshdLoads(hdManaged)
        /\ UNCHANGED <<hdFiles, hdSysctl, hdEnabled>>
  /\ NoFault /\ UNCHANGED <<hdConfig, hdRun>>

HdForget ==
  /\ hdRun' = [c \in HdCallers |-> HdNoRun(Waiting(c))]
  /\ hdMeddled' = {}
  /\ UNCHANGED <<hdConfig, hdHost, hdMeddles>>

HdStep(c) ==
  \/ HdAudited(c) \/ HdFixSsh(c) \/ HdFixPassword(c) \/ HdFixSysctl(c)
  \/ HdFixServices(c) \/ HdRecorded(c) \/ HdPublished(c)

HardeningNext ==
  \/ \E c \in HdCallers : HdBegin(c) \/ HdStep(c) \/ HdRaises(c)
  \/ HdMeddle

-----------------------------------------------------------------------------
(* Properties *)

\* What a run reports as remediated is as it should be when the report goes
\* out, and sshd has loaded it, unless an admin interfered or another file
\* undoes it: for the tool one that sorts after ours, for sshd also one that
\* sorts before (HardeningTool.run, _check_ssh_setting).
HardeningReported ==
  \A c \in HdCallers : hdRun[c].pc \in {"record", "publish"} /\ c \notin hdMeddled =>
    \A k \in HdFixed(c) \ hdLater :
      HdPasses(k) /\ (k \in SshChecks \ hdEarlier => k \in hdInForce)

\* With auto_remediate, the enabled checks pass, again unless a file that sorts
\* after ours undoes it.
HardeningRepaired == hdAuto => \A k \in hdOn \ hdLater : HdPasses(k)
=============================================================================
