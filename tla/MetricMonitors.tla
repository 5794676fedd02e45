--------------------------- MODULE MetricMonitors ---------------------------
(***************************************************************************)
(* The monitors of CPU, RAM, disks, network and GPU (monitors/cpu.py,      *)
(* ram.py, disk.py, network.py, gpu.py): sample in a thread, alert with a  *)
(* cooldown, store the sample (MetricsRepository.insert).                  *)
(*                                                                         *)
(* A sample is the set of subjects over their threshold: mount points, or  *)
(* the host.  Of the network it is one byte counter; the other direction   *)
(* is treated alike.  What was alerted is known in memory only.            *)
(***************************************************************************)
EXTENDS MonitorPasses

CONSTANTS
  MtMounts,          \* mount points
  MtCooldown,        \* alert_cooldown, in ticks
  MtConsecutive,     \* alert_consecutive_intervals, of the CPU
  MtBytes,           \* alert_threshold_bytes_sent
  MtMaxTraffic,      \* bound: bytes that are sent
  MtMaxResets        \* bound: how often the counter starts again

ASSUME MetricsAssumption ==
  /\ MtCooldown \in Nat /\ MtConsecutive \in Nat /\ MtBytes \in Nat
  /\ MtMaxTraffic \in Nat /\ MtMaxResets \in Nat

VARIABLES
  mtRun,             \* what collect awaits, and what it has found
  mtStreak,          \* _high_streak
  mtLast,            \* _last_alert_at, _last_alert_at_by_mountpoint
  mtBackend,         \* of the GPU, once _detection_done
  mtCounter,         \* the counter of the kernel
  mtPrev,            \* _prev_bytes_sent
  mtStored,          \* bytes in system_metrics
  mtTraffic,         \* history: bytes that were sent
  mtGap, mtLost,     \* history: bytes before a baseline; bytes not stored
  mtResets,
  mtAlerts           \* history: the alerts published, of which life

metricVars == <<mtRun, mtStreak, mtLast, mtBackend, mtCounter, mtPrev,
                mtStored, mtTraffic, mtGap, mtLost, mtResets, mtAlerts>>

MtKinds == {"cpu", "ram", "disk", "network", "gpu"}
MtSubjects == IF watched = "disk" THEN MtMounts ELSE {"host"}
MtSteps == {"asleep", "detect", "sample", "publish", "insert"}
MtIdle == [pc |-> "asleep", over |-> {}, todo |-> {}, at |-> 0, bytes |-> 0]

MetricsTypeOK ==
  /\ mtRun \in [pc : MtSteps, over : SUBSET MtSubjects,
                todo : SUBSET MtSubjects, at : MoTimes, bytes : Nat]
  /\ mtStreak \in Nat
  /\ mtLast \in [MtSubjects -> MoStamps]
  /\ mtBackend \in {"unknown", "none", "found"}
  /\ mtCounter \in 0 .. MtMaxTraffic
  /\ mtPrev \in 0 .. MtMaxTraffic \union {NotYet}
  /\ {mtStored, mtTraffic, mtGap, mtLost} \subseteq Nat
  /\ mtResets \in 0 .. MtMaxResets
  /\ mtAlerts \in Seq([subject : MtSubjects, at : MoTimes, life : Nat])

MetricsInit ==
  /\ mtRun = MtIdle
  /\ mtStreak = 0
  /\ mtLast = [m \in MtSubjects |-> NotYet]
  /\ mtBackend = "unknown"
  /\ mtCounter = 0 /\ mtPrev = NotYet
  /\ mtStored = 0 /\ mtTraffic = 0 /\ mtGap = 0 /\ mtLost = 0 /\ mtResets = 0
  /\ mtAlerts = <<>>

-----------------------------------------------------------------------------
(* collect *)

MtAt(pc) == watched \in MtKinds /\ moUp /\ mtRun.pc = pc
MtGoto(pc) == mtRun' = [mtRun EXCEPT !.pc = pc]
MtNetwork == <<mtCounter, mtTraffic, mtResets>>
MtTotals == <<mtStored, mtGap, mtLost>>

\* _detect_backend_once: without a GPU nothing is sampled.
MtBegin ==
  /\ MtAt("asleep") /\ PassBegins
  /\ IF watched # "gpu" THEN MtGoto("sample") /\ PassGoesOn
     ELSE CASE mtBackend = "unknown" -> MtGoto("detect") /\ PassGoesOn
            [] mtBackend = "found" -> MtGoto("sample") /\ PassGoesOn
            [] mtBackend = "none" -> UNCHANGED mtRun /\ PassEnds
  /\ UNCHANGED <<mtStreak, mtLast, mtBackend, mtPrev, MtNetwork, MtTotals,
                 mtAlerts>>

\* nvidia-smi, then rocm-smi; one that hangs raises, and is asked again.
MtDetected ==
  /\ MtAt("detect")
  /\ \/ mtBackend' = "found" /\ MtGoto("sample") /\ PassGoesOn
     \/ mtBackend' = "none" /\ MtGoto("asleep") /\ PassEnds
     \/ UNCHANGED mtBackend /\ MtGoto("asleep") /\ PassRaises
  /\ UNCHANGED <<mtStreak, mtLast, mtPrev, MtNetwork, MtTotals, mtAlerts>>

\* _high_streak, which only the CPU has.
MtStreakAfter(over) ==
  IF watched = "cpu" /\ over # {} THEN mtStreak + 1 ELSE 0

MtCooled(m) == mtLast[m] = NotYet \/ Elapsed(mtLast[m]) >= MtCooldown

\* The subjects that an alert is due for, given those over their threshold.
MtDue(over) ==
  IF watched = "cpu" /\ MtStreakAfter(over) <= MtConsecutive THEN {}
  ELSE {m \in over : MtCooled(m)}

MtJudge(over, bytes) ==
  /\ mtStreak' = MtStreakAfter(over)
  /\ mtRun' = [pc |-> IF MtDue(over) = {} THEN "insert" ELSE "publish",
               over |-> over, todo |-> MtDue(over), at |-> moNow,
               bytes |-> bytes]
  /\ PassGoesOn

MtSampled ==
  /\ MtAt("sample") /\ watched # "network"
  /\ \E over \in SUBSET MtSubjects : MtJudge(over, 0)
  /\ UNCHANGED <<mtLast, mtBackend, mtPrev, MtNetwork, MtTotals, mtAlerts>>

\* A counter that is lower than before has started again.
MtDelta == IF mtCounter < mtPrev THEN mtCounter ELSE mtCounter - mtPrev

\* The first sample is the baseline.
MtCounted ==
  /\ MtAt("sample") /\ watched = "network"
  /\ mtPrev' = mtCounter
  /\ IF mtPrev = NotYet
     THEN /\ mtGap' = mtTraffic - mtStored - mtLost
          /\ MtGoto("asleep") /\ PassEnds /\ UNCHANGED mtStreak
     ELSE /\ MtJudge(IF MtDelta > MtBytes THEN MtSubjects ELSE {}, MtDelta)
          /\ UNCHANGED mtGap
  /\ UNCHANGED <<mtLast, mtBackend, MtNetwork, mtStored, mtLost, mtAlerts>>

\* The sample fails; or there is none, of a GPU or of a host without interfaces.
MtUnsampled ==
  /\ MtAt("sample")
  /\ MtGoto("asleep")
  /\ PassRaises \/ (watched \in {"gpu", "network"} /\ PassEnds)
  /\ UNCHANGED <<mtStreak, mtLast, mtBackend, mtPrev, MtNetwork, MtTotals,
                 mtAlerts>>

\* The handlers of the alert are done; the time is the one of the sample.
MtPublished(m) ==
  /\ MtAt("publish") /\ m \in mtRun.todo
  /\ mtLast' = [mtLast EXCEPT ![m] = mtRun.at]
  /\ mtAlerts' =
       Append(mtAlerts, [subject |-> m, at |-> mtRun.at, life |-> moStops])
  /\ mtRun' = [mtRun EXCEPT !.todo = @ \ {m},
                 !.pc = IF mtRun.todo = {m} THEN "insert" ELSE "publish"]
  /\ PassGoesOn
  /\ UNCHANGED <<mtStreak, mtBackend, mtPrev, MtNetwork, MtTotals>>

MtInserted ==
  /\ MtAt("insert")
  /\ mtRun' = MtIdle
  /\ \/ mtStored' = mtStored + mtRun.bytes /\ PassEnds /\ UNCHANGED mtLost
     \/ mtLost' = mtLost + mtRun.bytes /\ PassRaises /\ UNCHANGED mtStored
  /\ UNCHANGED <<mtStreak, mtLast, mtBackend, mtPrev, MtNetwork, mtGap,
                 mtAlerts>>

\* A new process knows of no alert and of no earlier counter.
MtForget ==
  /\ mtRun' = MtIdle /\ mtStreak' = 0
  /\ mtLast' = [m \in MtSubjects |-> NotYet]
  /\ mtBackend' = "unknown" /\ mtPrev' = NotYet
  /\ mtLost' = mtLost + mtRun.bytes
  /\ UNCHANGED <<MtNetwork, mtStored, mtGap, mtAlerts>>

-----------------------------------------------------------------------------
(* The host *)

MtSends ==
  /\ watched = "network" /\ mtTraffic < MtMaxTraffic
  /\ mtTraffic' = mtTraffic + 1 /\ mtCounter' = mtCounter + 1
  /\ PassGoesOn
  /\ UNCHANGED <<mtRun, mtStreak, mtLast, mtBackend, mtPrev, MtTotals,
                 mtResets, mtAlerts>>

\* The interface is taken down and up, or the host boots.
MtResets ==
  /\ watched = "network" /\ mtResets < MtMaxResets /\ mtCounter > 0
  /\ mtResets' = mtResets + 1 /\ mtCounter' = 0
  /\ PassGoesOn
  /\ UNCHANGED <<mtRun, mtStreak, mtLast, mtBackend, mtPrev, MtTotals,
                 mtTraffic, mtAlerts>>

MetricsNext ==
  \/ MtBegin \/ MtDetected \/ MtSampled \/ MtCounted \/ MtUnsampled
  \/ \E m \in MtSubjects : MtPublished(m)
  \/ MtInserted \/ MtSends \/ MtResets

-----------------------------------------------------------------------------
(* Properties *)

\* Two alerts of one subject are a cooldown apart, counted from sample to
\* sample, unless the daemon was restarted in between.
MetricAlertsSpaced ==
  \A i, j \in 1 .. Len(mtAlerts) :
    i < j /\ mtAlerts[i].subject = mtAlerts[j].subject
          /\ mtAlerts[i].life = mtAlerts[j].life =>
      mtAlerts[j].at - mtAlerts[i].at >= MtCooldown

\* Whatever is over its threshold when the alerts are out has been told now or
\* within the cooldown; only the CPU may be so for a number of intervals untold.
BreachesTold ==
  moUp /\ mtRun.pc = "insert" => \A m \in mtRun.over :
    \/ watched = "cpu" /\ mtStreak <= MtConsecutive
    \/ \E i \in 1 .. Len(mtAlerts) :
         /\ mtAlerts[i].subject = m
         /\ mtAlerts[i].life = moStops
         /\ \/ mtAlerts[i].at = mtRun.at
            \/ mtRun.at - mtAlerts[i].at < MtCooldown

\* A byte is counted in one interval: nothing is counted twice, and nothing is
\* left out but what a reset of the counter hides.
TrafficCounted ==
  LET counted == mtStored + mtLost + mtRun.bytes + mtGap
      since == mtCounter - mtPrev
  IN mtPrev # NotYet /\ watched = "network" =>
       /\ counted <= mtTraffic
       /\ mtResets = 0 => counted + since = mtTraffic
=============================================================================
