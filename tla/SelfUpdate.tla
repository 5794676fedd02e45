----------------------------- MODULE SelfUpdate -----------------------------
(***************************************************************************)
(* The daemon updates itself: _self_update_loop and the shutdown of        *)
(* run_daemon (core/daemon.py), SelfUpdateMonitor (core/self_update.py),   *)
(* SnapshotManager (core/snapshots.py) and the re-execution of the process *)
(* (cli/main.py).  Every git, pip and snapshot command and every audit     *)
(* append is awaited; a signal, a crash or a new release may come between  *)
(* any two of them.                                                        *)
(*                                                                         *)
(* A version is a number: the branch only moves forward.  A snapshot       *)
(* matters for the version of the source tree it preserves.                *)
(***************************************************************************)
EXTENDS Naturals, FiniteSets

CONSTANTS
  MaxVersion,   \* bound: the last release
  MaxKeep,      \* bound: the largest snapshots.keep_last
  Slack,        \* how many more snapshots than keep_last are listed
  MaxShots,     \* bound: how many snapshots are ever made
  MaxErrors,    \* bound: how many commands and appends fail
  MaxStops      \* bound: how many signals and crashes there are

ASSUME UpdateAssumption ==
  /\ MaxVersion \in Nat /\ MaxKeep \in Nat /\ Slack \in Nat \ {0}
  /\ MaxShots \in Nat /\ MaxErrors \in Nat /\ MaxStops \in Nat

Versions == 0 .. MaxVersion
Shots == 1 .. MaxShots      \* numbered as they are made

\* reinstall: the key is on and there is a pip to run.  keepLast 0: no pruning.
Config == [snapshots : BOOLEAN, keepLast : 0 .. MaxKeep, reinstall : BOOLEAN]

VARIABLES
  config,       \* fixed when the daemon starts
  upstream,     \* the newest version of the remote branch
  head,         \* the version of the source tree
  installed,    \* the version pip install -e last ran for
  running,      \* the version of the code in the process
  phase,        \* of the process
  restartRequested, signalled,
  task,         \* what _self_update_loop awaits
  round,        \* the snapshot it makes is pre- or post-update
  before,       \* head before the last pull
  shots,        \* the snapshots that exist
  made,         \* how many were made
  versionOf,    \* the version each preserves
  victims,      \* what _prune_snapshots has yet to delete
  victim,       \* what it deleted last; 0: nothing yet
  errors, stops,
  created,      \* history: snapshots whose creation is on record
  deleted,      \* history: snapshots whose deletion is on record
  cuts,         \* history: how often a stop cut a check off
  stranded      \* history: has pip failed in this process?

treeVars == <<upstream, head, installed, before>>
processVars == <<running, phase, restartRequested, signalled, stops, cuts>>
shotVars == <<shots, made, versionOf, victims, victim, created, deleted>>
vars == <<config, treeVars, processVars, task, round, shotVars, errors,
          stranded>>

RecordTasks == {"recordCreated", "recordNotCreated", "recordDelete"}
SnapshotTasks == {"create", "list", "delete", "warn"} \union RecordTasks
Working == {"check", "announce", "pull", "pip"} \union SnapshotTasks
Tasks == Working \union {"asleep", "finished", "dead", "none"}

TypeOK ==
  /\ config \in Config
  /\ upstream \in Versions /\ head \in Versions /\ installed \in Versions
  /\ running \in Versions /\ before \in Versions
  /\ phase \in {"up", "stopping", "down"}
  /\ restartRequested \in BOOLEAN /\ signalled \in BOOLEAN
  /\ task \in Tasks
  /\ round \in {"pre", "post"}
  /\ made \in 0 .. MaxShots
  /\ shots \subseteq 1 .. made
  /\ victims \subseteq shots /\ victim \in 0 .. made
  /\ versionOf \in [Shots -> Versions]
  /\ errors \in 0 .. MaxErrors /\ stops \in 0 .. MaxStops
  /\ created \subseteq 1 .. made /\ deleted \subseteq 1 .. made
  /\ cuts \in Nat
  /\ stranded \in BOOLEAN

Init ==
  /\ config \in Config
  /\ upstream = 0 /\ head = 0 /\ installed = 0 /\ running = 0 /\ before = 0
  /\ phase = "up" /\ restartRequested = FALSE /\ signalled = FALSE
  /\ task = "check" /\ round = "pre"
  /\ shots = {} /\ made = 0 /\ victims = {} /\ victim = 0
  /\ versionOf = [s \in Shots |-> 0]
  /\ errors = 0 /\ stops = 0
  /\ created = {} /\ deleted = {} /\ cuts = 0 /\ stranded = FALSE

-----------------------------------------------------------------------------
(* What the loop does next *)

\* Once the stop event is set, the shutdown cancels the task before what it
\* awaits can matter.  (A command that ends in the very turn of the event loop
\* in which the signal comes may still be followed by one step of the task;
\* that turn is taken to be over before the signal.)
At(t) == phase = "up" /\ task = t

Goto(t) == task' = t

\* A command exits with an error, or an append raises.
Error == errors < MaxErrors /\ errors' = errors + 1

\* Mutant: the restart is requested, but nothing stops the daemon.
FinishQuietly ==
  /\ Goto("finished")
  /\ restartRequested' = TRUE
  /\ UNCHANGED phase

\* The update is applied: restart_requested and stop_event are set.
Finish ==
  /\ Goto("finished")
  /\ restartRequested' = TRUE
  /\ phase' = "stopping"

NotFinished == UNCHANGED <<restartRequested, phase>>

\* The snapshot is made, or it failed and chat was warned.
AfterSnapshot ==
  IF round = "pre" THEN Goto("announce") /\ NotFinished ELSE Finish

AfterInstall ==
  IF config.snapshots THEN Goto("create") /\ NotFinished ELSE Finish

otherVars == <<running, signalled, stops, cuts>>

-----------------------------------------------------------------------------
(* SelfUpdateMonitor.check_and_apply_update *)

Wake ==
  /\ At("asleep")
  /\ Goto("check")
  /\ UNCHANGED <<config, treeVars, processVars, round, shotVars, errors,
                 stranded>>

\* git fetch and two git rev-parse: is there anything new?
Check ==
  /\ At("check")
  /\ round' = "pre"
  /\ Goto(CASE head = upstream  -> "asleep"
            [] head # upstream -> IF config.snapshots THEN "create"
                                  ELSE "announce")
  /\ UNCHANGED <<config, treeVars, processVars, shotVars, errors, stranded>>

\* SelfUpdateError: the loop logs it and sleeps.
CommandFails ==
  /\ At("check") \/ At("pull")
  /\ Error
  /\ Goto("asleep")
  /\ UNCHANGED <<config, treeVars, processVars, round, shotVars, stranded>>

\* Chat is told; a broadcast raises nothing.
Announce ==
  /\ At("announce")
  /\ Goto("pull")
  /\ UNCHANGED <<config, treeVars, processVars, round, shotVars, errors,
                 stranded>>

\* git pull fetches again: it may bring more than the check has seen.
Pull ==
  /\ At("pull")
  /\ before' = head
  /\ head' = upstream
  /\ round' = "post"
  /\ IF config.reinstall THEN Goto("pip") /\ NotFinished ELSE AfterInstall
  /\ UNCHANGED <<config, upstream, installed, otherVars, shotVars, errors,
                 stranded>>

\* Where pip may not write to the source tree, the update goes on without it.
PipRuns ==
  \/ installed' = head /\ UNCHANGED errors
  \/ Error /\ UNCHANGED installed

Reinstall ==
  /\ At("pip")
  /\ PipRuns
  /\ AfterInstall
  /\ UNCHANGED <<config, upstream, head, before, otherVars, round, shotVars,
                 stranded>>

\* The tree is new, so no later check finds anything to do.
ReinstallFails ==
  /\ At("pip")
  /\ Error
  /\ stranded' = TRUE
  /\ Goto("asleep")
  /\ UNCHANGED <<config, treeVars, processVars, round, shotVars>>

-----------------------------------------------------------------------------
(* SnapshotManager.create_snapshot *)

MakeShot ==
  /\ made < MaxShots
  /\ made' = made + 1
  /\ shots' = shots \union {made + 1}
  /\ versionOf' = [versionOf EXCEPT ![made + 1] = head]

Create ==
  /\ At("create")
  /\ MakeShot
  /\ Goto("recordCreated")
  /\ UNCHANGED <<config, treeVars, processVars, round, victims, victim,
                 created, deleted, errors, stranded>>

\* Timeshift makes the snapshot and then lists it, and the listing may fail.
CreateFails ==
  /\ At("create")
  /\ Error
  /\ MakeShot \/ UNCHANGED <<shots, made, versionOf>>
  /\ Goto("recordNotCreated")
  /\ UNCHANGED <<config, treeVars, processVars, round, victims, victim,
                 created, deleted, stranded>>

RecordCreated ==
  /\ At("recordCreated")
  /\ created' = created \union {made}
  /\ IF config.keepLast > 0 THEN Goto("list") /\ NotFinished ELSE AfterSnapshot
  /\ UNCHANGED <<config, treeVars, otherVars, round, shots, made, versionOf,
                 victims, victim, deleted, errors, stranded>>

RecordNotCreated ==
  /\ At("recordNotCreated")
  /\ Goto("warn")
  /\ UNCHANGED <<config, treeVars, processVars, round, shotVars, errors,
                 stranded>>

\* The place of a snapshot in the listing, newest first, from 0.
Place(s) == Cardinality({t \in shots : t > s})

\* Mutant: the slice begins one place too early.
ExcessFromLastKept ==
  {s \in shots : config.keepLast <= Place(s) + 1
                 /\ Place(s) < config.keepLast + Slack}

\* Mutant: the listing shows snapshots that are gone.
ExcessOfMade ==
  {s \in 1 .. made : config.keepLast <= Place(s)
                     /\ Place(s) < config.keepLast + Slack}

\* _prune_snapshots: what the listing shows beyond the first keep_last.
Excess ==
  {s \in shots : config.keepLast <= Place(s)
                 /\ Place(s) < config.keepLast + Slack}

Prune ==
  /\ At("list")
  /\ victims' = Excess
  /\ IF Excess # {} THEN Goto("delete") /\ NotFinished ELSE AfterSnapshot
  /\ UNCHANGED <<config, treeVars, otherVars, round, shots, made, versionOf,
                 victim, created, deleted, errors, stranded>>

\* The listing fails: create_snapshot fails, although there is a snapshot.
PruneFails ==
  /\ At("list")
  /\ Error
  /\ Goto("warn")
  /\ UNCHANGED <<config, treeVars, processVars, round, shotVars, stranded>>

\* One turn of the loop over the excess; a deletion that fails is recorded as
\* such and the loop goes on.
Delete ==
  /\ At("delete")
  /\ \E s \in victims :
       /\ victims' = victims \ {s}
       /\ victim' = s
       /\ \/ shots' = shots \ {s} /\ UNCHANGED errors
          \/ Error /\ UNCHANGED shots
  /\ Goto("recordDelete")
  /\ UNCHANGED <<config, treeVars, processVars, round, made, versionOf,
                 created, deleted, stranded>>

DeletedNow == IF victim \notin shots THEN deleted \union {victim} ELSE deleted

RecordDelete ==
  /\ At("recordDelete")
  /\ deleted' = DeletedNow
  /\ IF victims # {} THEN Goto("delete") /\ NotFinished ELSE AfterSnapshot
  /\ UNCHANGED <<config, treeVars, otherVars, round, shots, made, versionOf,
                 victims, victim, created, errors, stranded>>

\* _on_snapshot_warning: before the update it is skipped, after it nothing
\* else changes.
Warn ==
  /\ At("warn")
  /\ IF round = "pre" THEN Goto("asleep") /\ NotFinished ELSE Finish
  /\ UNCHANGED <<config, treeVars, otherVars, round, shotVars, errors, stranded>>

\* The append raises something that neither create_snapshot nor the loop
\* catches: the task is over, and nobody looks at it before the shutdown.
AppendFails ==
  /\ \E t \in RecordTasks : At(t)
  /\ Error
  /\ Goto("dead")
  /\ UNCHANGED <<config, treeVars, processVars, round, shotVars, stranded>>

-----------------------------------------------------------------------------
(* Signals, the end of the process, and its next start *)

Signal ==
  /\ phase # "down" /\ ~signalled
  /\ stops < MaxStops
  /\ stops' = stops + 1
  /\ signalled' = TRUE
  /\ phase' = "stopping"
  /\ UNCHANGED <<config, treeVars, running, restartRequested, cuts, task, round,
                 shotVars, errors, stranded>>

\* What the end of the process does to the command it awaits: done or not.
CutOff ==
  /\ cuts' = IF task \in Working THEN cuts + 1 ELSE cuts
  /\ \/ UNCHANGED <<treeVars, shots, made, versionOf>>
     \/ /\ task = "pull" /\ before' = head /\ head' = upstream
        /\ UNCHANGED <<upstream, installed, shots, made, versionOf>>
     \/ /\ task = "pip" /\ installed' = head
        /\ UNCHANGED <<upstream, head, before, shots, made, versionOf>>
     \/ /\ task = "create" /\ MakeShot
        /\ UNCHANGED treeVars
     \/ /\ task = "delete"
        /\ \E s \in victims : shots' = shots \ {s}
        /\ UNCHANGED <<treeVars, made, versionOf>>
  /\ victims' = {}
  /\ task' = "none"
  /\ UNCHANGED <<config, upstream, round, victim, created, deleted>>

\* The shutdown cancels the task.  If the task has died, its exception ends
\* the shutdown then and there; the process is gone in either case.
Exit ==
  /\ phase = "stopping"
  /\ ~restartRequested
  /\ phase' = "down"
  /\ CutOff
  /\ UNCHANGED <<running, restartRequested, signalled, stops, errors, stranded>>

\* os.execv: the same process, with the code of the source tree.  It fails
\* only with an error, and systemd starts the service again.
Reexec ==
  /\ phase = "stopping"
  /\ restartRequested
  /\ phase' = "up"
  /\ running' = head
  /\ task' = "check"
  /\ restartRequested' = FALSE /\ signalled' = FALSE
  /\ stranded' = FALSE
  /\ round' = "pre"
  /\ UNCHANGED <<config, treeVars, stops, cuts, shotVars, errors>>

Crash ==
  /\ phase # "down"
  /\ stops < MaxStops
  /\ stops' = stops + 1
  /\ phase' = "down"
  /\ CutOff
  /\ UNCHANGED <<running, restartRequested, signalled, errors, stranded>>

\* systemd, after a crash, or an administrator.
Start ==
  /\ phase = "down"
  /\ phase' = "up"
  /\ running' = head
  /\ task' = "check"
  /\ restartRequested' = FALSE /\ signalled' = FALSE
  /\ stranded' = FALSE
  /\ round' = "pre"
  /\ UNCHANGED <<config, treeVars, stops, cuts, shotVars, errors>>

Release ==
  /\ upstream < MaxVersion
  /\ upstream' = upstream + 1
  /\ UNCHANGED <<config, head, installed, before, processVars, task, round,
                 shotVars, errors, stranded>>

\* What the task does when the command it awaits succeeds.
Proceed ==
  \/ Wake \/ Check \/ Announce \/ Pull \/ Reinstall
  \/ Create \/ RecordCreated \/ RecordNotCreated
  \/ Prune \/ Delete \/ RecordDelete \/ Warn

Next ==
  \/ Proceed
  \/ CommandFails \/ ReinstallFails
  \/ CreateFails \/ PruneFails \/ AppendFails
  \/ Signal \/ Exit \/ Reexec \/ Crash \/ Start
  \/ Release

Spec == Init /\ [][Next]_vars

\* Commands end, the sleep is over, and a shutdown that has begun goes on.
\* Nothing has to fail, to be released, or to start a stopped daemon.
FairSpec ==
  Spec /\ WF_vars(Proceed) /\ WF_vars(Exit) /\ WF_vars(Reexec)

-----------------------------------------------------------------------------
(* Properties *)

\* From the pull to the restart there is a snapshot of what was pulled over,
\* if snapshots are on, even though the post-update snapshot prunes; with
\* keep_last 1 it prunes that one (user_stories/US-011).
RollbackPoint ==
  /\ config.snapshots /\ config.keepLast # 1
  /\ phase # "down" /\ round = "post"
  /\ task \in {"pip", "finished"} \union SnapshotTasks
  => \E s \in shots : versionOf[s] = before

\* However often checks fail or are cut off, there are at most keep_last
\* snapshots, the one that is being made, and one for each error and each
\* cut (_prune_snapshots).
SnapshotsBounded ==
  config.keepLast > 0 =>
    Cardinality(shots) <=
      config.keepLast + errors + cuts
        + (IF task \in {"recordCreated", "list", "delete", "recordDelete"}
           THEN 1 ELSE 0)

\* Every snapshot that was made or deleted is on record, but for those of an
\* error or a cut and the one whose append is awaited (user_stories/US-011).
SnapshotsAudited ==
  Cardinality((1 .. made) \ created)
    + Cardinality(((1 .. made) \ shots) \ deleted)
  <= errors + cuts
       + (IF task \in {"recordCreated", "recordDelete"} THEN 1 ELSE 0)

\* The process runs with what pip installed for its version, unless pip
\* failed or a stop came between pull and pip.
InstalledWithCode ==
  config.reinstall /\ phase = "up" /\ running # installed =>
    \/ errors > 0 \/ cuts > 0
    \/ round = "post"      \* the restart is yet to come

\* The daemon gets to the newest version again and again, unless it is
\* stopped, its task has died, or pip has failed since it started
\* (user_stories/US-040).
StaysCurrent ==
  []<>(\/ running = upstream
       \/ phase = "down"
       \/ task = "dead"
       \/ stranded)
=============================================================================
