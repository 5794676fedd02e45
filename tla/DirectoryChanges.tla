-------------------------- MODULE DirectoryChanges --------------------------
(***************************************************************************)
(* The monitor of watched directories (monitors/directory_changes.py and   *)
(* its repository).  Its collect only starts an observer, once; the        *)
(* threads of watchdog then create a task in the event loop for every      *)
(* change, and the tasks run beside each other.                            *)
(*                                                                         *)
(* A task runs from one await to the next: it looks whether its path is in *)
(* its cooldown and awaits the append of the change, remembers the alert,  *)
(* and awaits the handlers of the event.                                   *)
(***************************************************************************)
EXTENDS MonitorPasses

CONSTANTS
  DcDirs,            \* watched_directories
  DcPaths,           \* where changes happen; of a rename, the new path
  DcDirOf,           \* the directory a path is below
  DcWhitelisted,     \* the paths whitelist_globs and whitelist_regex match
  DcCooldown,        \* alert_cooldown, in ticks
  DcMaxChanges       \* bound: changes

ASSUME DirectoriesAssumption ==
  /\ DcDirOf \in [DcPaths -> DcDirs]
  /\ DcWhitelisted \subseteq DcPaths
  /\ DcCooldown \in Nat /\ DcMaxChanges \in Nat

VARIABLES
  dcThere,           \* the directories that exist
  dcObserved,        \* the directories the observer watches
  dcLast,            \* _last_alerted_by_path
  dcSeen,            \* changes the observer has seen
  dcTask,            \* their tasks
  dcEvents,          \* directory_change_events
  dcTold             \* history: the changes that were told

directoryVars == <<dcThere, dcObserved, dcLast, dcSeen, dcTask, dcEvents,
                   dcTold>>

DcChanges == 1 .. DcMaxChanges
DcSteps == {"none", "queued", "record", "publish", "done", "failed", "gone"}
\* "cooldown": alert_suppressed; "alert": to be told.
DcVerdicts == {"none", "whitelist", "cooldown", "alert"}
DcTasks == [pc : DcSteps, path : DcPaths \union {"none"}, at : MoTimes,
            begun : SUBSET DcChanges, verdict : DcVerdicts]
DcNoTask == [pc |-> "none", path |-> "none", at |-> 0, begun |-> {},
             verdict |-> "none"]

DirectoriesTypeOK ==
  /\ dcThere \subseteq DcDirs /\ dcObserved \subseteq DcDirs
  /\ dcLast \in [DcPaths -> MoStamps]
  /\ dcSeen \in 0 .. DcMaxChanges
  /\ dcTask \in [DcChanges -> DcTasks]
  /\ dcEvents \subseteq DcChanges /\ dcTold \subseteq DcChanges

DirectoriesInit ==
  /\ dcThere \in {{}} \union
       IF watched = "directory_changes" THEN {{d} : d \in DcDirs} ELSE {}
  /\ dcObserved = {}
  /\ dcLast = [p \in DcPaths |-> NotYet]
  /\ dcSeen = 0
  /\ dcTask = [c \in DcChanges |-> DcNoTask]
  /\ dcEvents = {} /\ dcTold = {}

-----------------------------------------------------------------------------

DcOn == watched = "directory_changes" /\ moUp
DcGoto(c, pc) == dcTask' = [dcTask EXCEPT ![c].pc = pc]

\* _start_observer: those directories that are there; the observer is started
\* once there is one, and never gets another.
DcCollect ==
  /\ DcOn /\ PassBegins
  /\ dcObserved' = IF dcObserved = {} THEN dcThere ELSE dcObserved
  /\ PassEnds
  /\ UNCHANGED <<dcThere, dcLast, dcSeen, dcTask, dcEvents, dcTold>>

DcMakeDirectory(d) ==
  /\ watched = "directory_changes"
  /\ d \notin dcThere
  /\ dcThere' = dcThere \union {d}
  /\ PassGoesOn
  /\ UNCHANGED <<dcObserved, dcLast, dcSeen, dcTask, dcEvents, dcTold>>

\* enqueue_change, in a thread of the observer: the change has its time, and a
\* task in the queue of the loop.
DcEnqueue(p) ==
  /\ DcOn /\ dcSeen < DcMaxChanges
  /\ DcDirOf[p] \in dcObserved
  /\ dcSeen' = dcSeen + 1
  /\ dcTask' = [dcTask EXCEPT ![dcSeen + 1] =
                  [DcNoTask EXCEPT !.pc = "queued", !.path = p, !.at = moNow]]
  /\ PassGoesOn
  /\ UNCHANGED <<dcThere, dcObserved, dcLast, dcEvents, dcTold>>

\* _is_cooldown_active
DcCooling(p, at) ==
  DcCooldown > 0 /\ dcLast[p] # NotYet /\ at - dcLast[p] < DcCooldown

DcVerdict(p, at) ==
  IF p \in DcWhitelisted THEN "whitelist"
  ELSE IF DcCooling(p, at) THEN "cooldown" ELSE "alert"

\* Mutant: the alert is remembered when it is decided.
DcRemembersAhead(c) ==
  /\ DcOn /\ dcTask[c].pc = "queued"
  /\ \A d \in DcChanges : dcTask[d].pc = "queued" => c <= d
  /\ LET p == dcTask[c].path
         verdict == DcVerdict(p, dcTask[c].at)
     IN /\ dcTask' = [dcTask EXCEPT ![c].pc = "record", ![c].verdict = verdict]
        /\ dcLast' = IF verdict = "alert"
                     THEN [dcLast EXCEPT ![p] = dcTask[c].at] ELSE dcLast
  /\ PassGoesOn
  /\ UNCHANGED <<dcThere, dcObserved, dcSeen, dcEvents, dcTold>>

\* _handle_change up to its first await; the loop takes the tasks in order.
DcHandled(c) ==
  /\ DcOn /\ dcTask[c].pc = "queued"
  /\ \A d \in DcChanges : dcTask[d].pc = "queued" => c <= d
  /\ dcTask' = [dcTask EXCEPT
       ![c].pc = "record",
       ![c].verdict = DcVerdict(dcTask[c].path, dcTask[c].at),
       ![c].begun = {d \in DcChanges : dcTask[d].pc = "record"}]
  /\ PassGoesOn
  /\ UNCHANGED <<dcThere, dcObserved, dcLast, dcSeen, dcEvents, dcTold>>

\* The append is made: the alert is remembered, and published.
DcRecorded(c) ==
  /\ DcOn /\ dcTask[c].pc = "record"
  /\ dcEvents' = dcEvents \union {c}
  /\ IF dcTask[c].verdict = "alert"
     THEN /\ dcLast' = [dcLast EXCEPT ![dcTask[c].path] = dcTask[c].at]
          /\ dcTold' = dcTold \union {c}
          /\ DcGoto(c, "publish")
     ELSE DcGoto(c, "done") /\ UNCHANGED <<dcLast, dcTold>>
  /\ PassGoesOn
  /\ UNCHANGED <<dcThere, dcObserved, dcSeen>>

DcPublished(c) ==
  /\ DcOn /\ dcTask[c].pc = "publish"
  /\ DcGoto(c, "done")
  /\ PassGoesOn
  /\ UNCHANGED <<dcThere, dcObserved, dcLast, dcSeen, dcEvents, dcTold>>

\* The append raises, which ends the task; nobody awaits it.
DcFails(c) ==
  /\ DcOn /\ dcTask[c].pc = "record"
  /\ DcGoto(c, "failed")
  /\ Tolerated
  /\ UNCHANGED <<dcThere, dcObserved, dcLast, dcSeen, dcEvents, dcTold>>

\* A new process has no tasks and no memory of alerts, and no observer yet.
DcForget ==
  /\ dcObserved' = {}
  /\ dcLast' = [p \in DcPaths |-> NotYet]
  /\ dcTask' = [c \in DcChanges |->
                  IF dcTask[c].pc \in {"queued", "record", "publish"}
                  THEN [dcTask[c] EXCEPT !.pc = "gone"] ELSE dcTask[c]]
  /\ UNCHANGED <<dcThere, dcSeen, dcEvents, dcTold>>

DirectoriesNext ==
  \/ DcCollect
  \/ \E d \in DcDirs : DcMakeDirectory(d)
  \/ \E p \in DcPaths : DcEnqueue(p)
  \/ \E c \in DcChanges :
       DcHandled(c) \/ DcRecorded(c) \/ DcPublished(c) \/ DcFails(c)

-----------------------------------------------------------------------------
(* Properties *)

\* A change that is recorded as suppressed by the cooldown has another of its
\* path, told within the cooldown; the alert of one that fails to be recorded
\* silences nothing.
SilencedByAnAlert ==
  \A c \in DcChanges : dcTask[c].verdict = "cooldown" =>
    \E d \in dcTold \ {c} :
      /\ dcTask[d].path = dcTask[c].path
      /\ dcTask[c].at - dcTask[d].at < DcCooldown

\* Of two changes of a path within the cooldown only one is told, unless the
\* daemon was restarted or a change of the path was handled while another was
\* being recorded: the cooldown is looked up before that await and set after it.
ChangeAlertsSpaced ==
  \A c, d \in dcTold :
    c < d /\ dcTask[c].path = dcTask[d].path =>
      \/ dcTask[d].at - dcTask[c].at >= DcCooldown
      \/ \E e \in DcChanges : dcTask[e].path = dcTask[c].path /\
           \E f \in dcTask[e].begun : dcTask[f].path = dcTask[c].path
      \/ moStops > 0
=============================================================================
