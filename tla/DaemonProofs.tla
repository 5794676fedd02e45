----------------------------- MODULE DaemonProofs -----------------------------
(***************************************************************************)
(* What the process of the daemon guarantees, in each of its views: its    *)
(* types, that a shutdown that returns left nothing behind, that the       *)
(* policy of chat follows its file, and that what chat is refused, or told *)
(* of analyses, is on record.  What holds of updates is in                 *)
(* SelfUpdateProofs.                                                       *)
(***************************************************************************)
EXTENDS MCDaemon, SelfUpdateProofs, SequenceTheorems

-----------------------------------------------------------------------------
(* Types *)

LEMMA LifeTypeInit == LifeInit => LifeTypeOK
<1>1. 0 \in 0 .. DlMaxFaults /\ 0 \in 0 .. DlMaxStops
  BY DaemonAssumption
<1> QED
  BY <1>1 DEF LifeInit, LifeTypeOK, Phases, StartPhases

\* The counters stay within their bounds.
LEMMA LifeFaultType ==
  LifeTypeOK /\ LifeFault => dlFaults' \in 0 .. DlMaxFaults /\ dlFaults' > 0
  BY DaemonAssumption DEF LifeTypeOK, LifeFault

LEMMA StopsType ==
  LifeTypeOK /\ dlStops < DlMaxStops => dlStops + 1 \in 0 .. DlMaxStops
  BY DaemonAssumption DEF LifeTypeOK

LEMMA LifeTypeStep == LifeTypeOK /\ [LifeNext]_lifeVars => LifeTypeOK'
<1> SUFFICES ASSUME LifeTypeOK, [LifeNext]_lifeVars PROVE LifeTypeOK'
  OBVIOUS
<1> USE DEF Await, restVars
<1>1. CASE Startup
  <2>1. CASE Connect
    BY <2>1 DEF Connect, StartRegistry, LifeTypeOK, Phases, StartPhases, Parts
  <2>2. CASE AdaptersStarted
    BY <2>2 DEF AdaptersStarted, LifeTypeOK, Phases, StartPhases
  <2>3. CASE Greet
    BY <2>3 DEF Greet, StartRegistry, LifeTypeOK, Phases, StartPhases, Parts
  <2>4. CASE StartExporter
    BY <2>4 DEF StartExporter, LifeTypeOK, Phases, StartPhases, Parts
  <2>5. CASE RunToolsOnStartup
    BY <2>5 DEF RunToolsOnStartup, LifeTypeOK, Phases
  <2> QED
    BY <1>1, <2>1, <2>2, <2>3, <2>4, <2>5 DEF Startup
<1>2. CASE Shutdown
  <2>1. CASE BeginShutdown
    BY <2>1 DEF BeginShutdown, CancelUpdater, Raised, LifeTypeOK, Phases,
                StopPhases
  <2>2. CASE StopScheduler
    BY <2>2 DEF StopScheduler, Stopped, LifeTypeOK, Phases, StopPhases
  <2>3. CASE StopExporter
    BY <2>3 DEF StopExporter, Stopped, LifeTypeOK, Phases, StopPhases
  <2>4. CASE StopRegistry
    BY <2>4 DEF StopRegistry, Stopped, LifeTypeOK, Phases, StopPhases
  <2>5. CASE StopAdapters
    BY <2>5 DEF StopAdapters, Stopped, LifeTypeOK, Phases, StopPhases
  <2>6. CASE CloseDatabase
    BY <2>6 DEF CloseDatabase, Stopped, LifeTypeOK, Phases
  <2> QED
    BY <1>2, <2>1, <2>2, <2>3, <2>4, <2>5, <2>6 DEF Shutdown
<1>3. CASE LifeFails
  <2>1. LifeFault /\ Raised
    BY <1>3 DEF LifeFails, ConnectFails, StartExporterFails, ToolRaises,
                StopAdaptersFails
  <2> QED
    BY <2>1, LifeFaultType DEF Raised, LifeTypeOK, Phases
<1>4. CASE Ready
  BY <1>4 DEF Ready, LifeTypeOK
<1>5. CASE Updated
  BY <1>5 DEF Updated, LifeTypeOK
<1>6. CASE UpdaterDies
  BY <1>6, LifeFaultType DEF UpdaterDies, LifeTypeOK
<1>7. CASE Asked
  <2>1. dlStops' \in 0 .. DlMaxStops
    BY <1>7, StopsType DEF Asked
  <2> QED
    BY <1>7, <2>1 DEF Asked, LifeTypeOK, Phases
<1>8. CASE Killed
  <2>1. dlStops' \in 0 .. DlMaxStops
    BY <1>8, StopsType DEF Killed
  <2> QED
    BY <1>8, <2>1 DEF Killed, LifeTypeOK, Phases
<1>9. CASE StartProcess
  BY <1>9 DEF StartProcess, LifeTypeOK, Phases, StartPhases, Parts
<1>10. CASE UNCHANGED lifeVars
  BY <1>10 DEF lifeVars, LifeTypeOK
<1> QED
  BY <1>1, <1>2, <1>3, <1>4, <1>5, <1>6, <1>7, <1>8, <1>9, <1>10 DEF LifeNext

\* The type invariant of the life of the daemon (run_daemon, core/daemon.py).
THEOREM LifeTypeCorrect == LifeSpec => []LifeTypeOK
  BY LifeTypeInit, LifeTypeStep, PTL DEF LifeSpec

-----------------------------------------------------------------------------
(* Shutdown *)

\* OrderlyShutdown says nothing of what a running process has started; that its
\* database is open, and how far its shutdown has come, is what keeps it.
NotYetStarted == dlPhase = "connect" => dlStarted = {}
NotYetEnded == dlPhase # "down" => dlExit = "none"
DatabaseOpen == dlPhase \notin {"down", "connect"} => "database" \in dlStarted
StoppedInOrder ==
  /\ dlPhase \in StopPhases \ {"stopReloads"} => "scheduler" \notin dlStarted
  /\ dlPhase \in {"stopRegistry", "stopAdapters", "closeDatabase"} =>
       "exporter" \notin dlStarted
  /\ dlPhase \in {"stopAdapters", "closeDatabase"} => "registry" \notin dlStarted
  /\ dlPhase = "closeDatabase" => "adapters" \notin dlStarted
DeadOfAFault == dlUpdater = "dead" => dlFaults > 0

ShutdownInv ==
  /\ LifeTypeOK /\ OrderlyShutdown
  /\ NotYetStarted /\ NotYetEnded /\ DatabaseOpen /\ StoppedInOrder
  /\ DeadOfAFault

LEMMA ShutdownInit == LifeInit => ShutdownInv
  BY LifeTypeInit
  DEF LifeInit, ShutdownInv, OrderlyShutdown, NotYetStarted, NotYetEnded,
      DatabaseOpen, StoppedInOrder, DeadOfAFault, StopPhases

\* What ends without being stopped leaves everything as it was.
Ends ==
  /\ dlPhase # "down" /\ dlPhase' = "down"
  /\ dlStarted' = dlStarted /\ dlUpdater' = dlUpdater
  /\ dlFaults' \in Nat /\ dlFaults' >= dlFaults
  /\ dlExit' = "killed" \/ (dlExit' = "raised" /\ dlFaults' > 0)

LEMMA LeftBehind ==
  ShutdownInv /\ Ends =>
    /\ OrderlyShutdown' /\ NotYetStarted' /\ NotYetEnded' /\ DatabaseOpen'
    /\ StoppedInOrder' /\ DeadOfAFault'
<1> SUFFICES ASSUME ShutdownInv, Ends
             PROVE  /\ OrderlyShutdown' /\ NotYetStarted' /\ NotYetEnded'
                    /\ DatabaseOpen' /\ StoppedInOrder' /\ DeadOfAFault'
  OBVIOUS
<1>1. OrderlyShutdown' /\ NotYetStarted' /\ NotYetEnded' /\ DatabaseOpen'
  BY DEF Ends, ShutdownInv, OrderlyShutdown, NotYetStarted, NotYetEnded,
         DatabaseOpen
<1>2. StoppedInOrder'
  BY DEF Ends, StoppedInOrder, StopPhases
<1>3. dlFaults \in Nat
  BY DEF ShutdownInv, LifeTypeOK
<1>4. DeadOfAFault'
  BY <1>3 DEF Ends, ShutdownInv, DeadOfAFault
<1> QED
  BY <1>1, <1>2, <1>4

LEMMA ShutdownStep == ShutdownInv /\ [LifeNext]_lifeVars => ShutdownInv'
<1> SUFFICES ASSUME ShutdownInv, [LifeNext]_lifeVars PROVE ShutdownInv'
  OBVIOUS
<1>0. LifeTypeOK /\ LifeTypeOK' /\ dlFaults \in Nat /\ dlFaults' \in Nat
  BY LifeTypeStep DEF ShutdownInv, LifeTypeOK
<1> SUFFICES OrderlyShutdown' /\ NotYetStarted' /\ NotYetEnded' /\ DatabaseOpen'
               /\ StoppedInOrder' /\ DeadOfAFault'
  BY <1>0 DEF ShutdownInv
<1> USE DEF Await, restVars
<1>1. CASE Startup
  <2>1. dlPhase' \in {"adapters", "greet", "exporter", "tools", "running"}
          /\ dlExit' = dlExit /\ dlPhase # "down"
          /\ dlFaults' = dlFaults
    BY <1>1 DEF Startup, Connect, AdaptersStarted, Greet, StartRegistry,
                StartExporter, RunToolsOnStartup
  <2>2. "database" \in dlStarted'
    BY <1>1 DEF Startup, Connect, AdaptersStarted, Greet, StartRegistry,
                StartExporter, RunToolsOnStartup, ShutdownInv, DatabaseOpen
  <2>3. dlUpdater' # "dead" \/ dlUpdater' = dlUpdater
    BY <1>1 DEF Startup, Connect, AdaptersStarted, Greet, StartRegistry,
                StartExporter, RunToolsOnStartup
  <2> QED
    BY <2>1, <2>2, <2>3
    DEF ShutdownInv, OrderlyShutdown, NotYetStarted, NotYetEnded, DatabaseOpen,
        StoppedInOrder, StopPhases, DeadOfAFault
<1>2. CASE BeginShutdown
  <2>1. CASE dlUpdater = "dead" /\ Raised
    <3>1. Ends
      BY <1>0, <1>2, <2>1
      DEF BeginShutdown, Raised, ShutdownInv, DeadOfAFault, Ends
    <3> QED
      BY <3>1, LeftBehind
  <2>2. CASE dlUpdater # "dead" /\ dlUpdater' = "none"
               /\ dlPhase' = "stopReloads" /\ UNCHANGED <<dlStarted, restVars>>
    BY <1>2, <2>2
    DEF BeginShutdown, ShutdownInv, OrderlyShutdown, NotYetStarted, NotYetEnded,
        DatabaseOpen, StoppedInOrder, StopPhases, DeadOfAFault
  <2> QED
    BY <1>2, <2>1, <2>2 DEF BeginShutdown, CancelUpdater
<1>3. CASE StopScheduler
  BY <1>3
  DEF StopScheduler, Stopped, ShutdownInv, OrderlyShutdown, NotYetStarted,
      NotYetEnded, DatabaseOpen, StoppedInOrder, StopPhases, DeadOfAFault
<1>4. CASE StopExporter
  BY <1>4
  DEF StopExporter, Stopped, ShutdownInv, OrderlyShutdown, NotYetStarted,
      NotYetEnded, DatabaseOpen, StoppedInOrder, StopPhases, DeadOfAFault
<1>5. CASE StopRegistry
  BY <1>5
  DEF StopRegistry, Stopped, ShutdownInv, OrderlyShutdown, NotYetStarted,
      NotYetEnded, DatabaseOpen, StoppedInOrder, StopPhases, DeadOfAFault
<1>6. CASE StopAdapters
  BY <1>6
  DEF StopAdapters, Stopped, ShutdownInv, OrderlyShutdown, NotYetStarted,
      NotYetEnded, DatabaseOpen, StoppedInOrder, StopPhases, DeadOfAFault
<1>7. CASE CloseDatabase
  \* Everything else has been stopped by now.
  <2>1. dlStarted \subseteq {"database"}
    BY <1>7
    DEF CloseDatabase, ShutdownInv, LifeTypeOK, Parts, StoppedInOrder, StopPhases
  <2>2. dlStarted' = {} /\ dlPhase' = "down" /\ dlFaults' = dlFaults
          /\ dlUpdater' = dlUpdater /\ dlExit' \in {"restart", "returned"}
    BY <1>7, <2>1 DEF CloseDatabase, Stopped
  <2> QED
    BY <2>2
    DEF ShutdownInv, OrderlyShutdown, NotYetStarted, NotYetEnded, DatabaseOpen,
        StoppedInOrder, StopPhases, DeadOfAFault
<1>8. CASE LifeFails
  <2>1. LifeFault /\ Raised /\ dlPhase # "down"
    BY <1>8 DEF LifeFails, ConnectFails, StartExporterFails, ToolRaises,
                StopAdaptersFails
  <2>2. Ends
    BY <1>0, <2>1 DEF LifeFault, Raised, Ends
  <2> QED
    BY <2>2, LeftBehind
<1>9. CASE Ready
  BY <1>9
  DEF Ready, ShutdownInv, OrderlyShutdown, NotYetStarted, NotYetEnded,
      DatabaseOpen, StoppedInOrder, StopPhases, DeadOfAFault
<1>10. CASE Updated
  BY <1>10
  DEF Updated, ShutdownInv, OrderlyShutdown, NotYetStarted, NotYetEnded,
      DatabaseOpen, StoppedInOrder, StopPhases, DeadOfAFault
<1>11. CASE UpdaterDies
  <2>1. dlFaults' > 0 /\ UNCHANGED <<dlPhase, dlStarted, dlExit>>
    BY <1>0, <1>11 DEF UpdaterDies, LifeFault
  <2> QED
    BY <2>1
    DEF ShutdownInv, OrderlyShutdown, NotYetStarted, NotYetEnded, DatabaseOpen,
        StoppedInOrder, StopPhases, DeadOfAFault
<1>12. CASE Asked
  <2>1. CASE dlPhase = "connect"
    <3>1. Ends
      BY <1>0, <1>12, <2>1 DEF Asked, Ends
    <3> QED
      BY <3>1, LeftBehind
  <2>2. CASE dlPhase # "connect"
    BY <1>12, <2>2
    DEF Asked, ShutdownInv, OrderlyShutdown, NotYetStarted, NotYetEnded,
        DatabaseOpen, StoppedInOrder, StopPhases, DeadOfAFault
  <2> QED
    BY <2>1, <2>2
<1>13. CASE Killed
  <2>1. Ends
    BY <1>0, <1>13 DEF Killed, Ends
  <2> QED
    BY <2>1, LeftBehind
<1>14. CASE StartProcess
  BY <1>14
  DEF StartProcess, ShutdownInv, OrderlyShutdown, NotYetStarted, NotYetEnded,
      DatabaseOpen, StoppedInOrder, StopPhases, DeadOfAFault
<1>15. CASE UNCHANGED lifeVars
  BY <1>15
  DEF lifeVars, ShutdownInv, OrderlyShutdown, NotYetStarted, NotYetEnded,
      DatabaseOpen, StoppedInOrder, StopPhases, DeadOfAFault
<1> QED
  BY <1>1, <1>2, <1>3, <1>4, <1>5, <1>6, <1>7, <1>8, <1>9, <1>10, <1>11, <1>12,
     <1>13, <1>14, <1>15
  DEF LifeNext, Shutdown

\* A shutdown that returns has stopped everything it started, the database last;
\* only an exception or a kill leaves something running (run_daemon).
THEOREM ShutdownsAreOrderly == LifeSpec => []OrderlyShutdown
<1>1. ShutdownInv => OrderlyShutdown
  BY DEF ShutdownInv
<1> QED
  BY <1>1, ShutdownInit, ShutdownStep, PTL DEF LifeSpec

allVars == <<lifeVars, accessVars>>

-----------------------------------------------------------------------------
(* The policy follows the file *)

\* A reload that is still to come is counted, so that it is not forgotten.
PolicyInv == acReloads \in Nat /\ AccessFollowsConfig

LEMMA PolicyInit == AccessInit => PolicyInv
  BY DEF AccessInit, PolicyInv, AccessFollowsConfig

\* Messages leave the file, the policy and the reloads alone.
PolicyAlone ==
  /\ dlPhase' = dlPhase
  /\ UNCHANGED <<acFile, acPolicy, acReloads, acUnsignalled>>

LEMMA MessagesLeavePolicyAlone ==
  ASSUME NEW u \in AcUsers,
         \/ \E c \in Commands : Receive(u, c)
         \/ Rejected(u) \/ Published(u) \/ Handled(u) \/ CommandDone(u)
         \/ Confirm(u)
  PROVE  PolicyAlone
  BY DEF Receive, Rejected, Published, Handled, CommandDone, Confirm,
         PolicyAlone, policyVars, messageRest, taskVars, lifeVars

LEMMA PolicyAloneKeeps == PolicyInv /\ PolicyAlone => PolicyInv'
  BY DEF PolicyInv, PolicyAlone, AccessFollowsConfig

LEMMA PolicyStep == PolicyInv /\ [AccessNext]_allVars => PolicyInv'
<1> SUFFICES ASSUME PolicyInv, [AccessNext]_allVars PROVE PolicyInv'
  OBVIOUS
<1>1. CASE WithDaemon
  <2>1. CASE dlPhase' = "down"
    BY <1>1, <2>1
    DEF WithDaemon, AccessCutOff, PolicyInv, AccessFollowsConfig
  <2>2. CASE dlPhase' # "down" /\ dlPhase = "down"
    BY <1>1, <2>2
    DEF WithDaemon, AccessLoaded, taskVars, PolicyInv, AccessFollowsConfig
  <2>3. CASE dlPhase = "stopReloads" /\ dlPhase' = "stopExporter"
    <3>1. acReloads' = 0 /\ acUnsignalled' = (acUnsignalled \/ acReloads > 0)
            /\ UNCHANGED <<acFile, acPolicy>>
      BY <1>1, <2>3 DEF WithDaemon, ReloadsCancelled
    <3>2. acReloads > 0 \/ acReloads = 0
      BY DEF PolicyInv
    <3>3. ~acUnsignalled' => ~acUnsignalled /\ acReloads = 0
      BY <3>1, <3>2, Zenon
    <3> QED
      BY <2>3, <3>1, <3>3 DEF PolicyInv, AccessFollowsConfig
  <2>4. CASE dlPhase # "down" /\ dlPhase' # "down" /\ UNCHANGED accessVars
    BY <2>4
    DEF accessVars, taskVars, PolicyInv, AccessFollowsConfig
  <2> QED
    BY <1>1, <2>1, <2>2, <2>3, <2>4 DEF WithDaemon
<1>2. CASE Edit
  BY <1>2 DEF Edit, taskVars, PolicyInv, AccessFollowsConfig
<1>3. CASE ReloadSignal
  <2>1. acReloads' \in Nat /\ acReloads' # 0
    BY <1>3 DEF ReloadSignal, NewReload, PolicyInv
  <2> QED
    BY <2>1 DEF PolicyInv, AccessFollowsConfig
<1>4. CASE Reload
  <2>1. acReloads' \in Nat
    BY <1>4 DEF Reload, PolicyInv
  <2>2. acFile' = acFile
          /\ acPolicy' = IF acFile.loads THEN PolicyOf(acFile) ELSE acPolicy
    BY <1>4 DEF Reload
  <2> QED
    BY <2>1, <2>2 DEF PolicyInv, AccessFollowsConfig
<1>5. CASE ReloadDone
  BY <1>5, PolicyAloneKeeps DEF ReloadDone, PolicyAlone, lifeVars
<1>6. ASSUME NEW u \in AcUsers,
             \/ \E c \in Commands : Receive(u, c)
             \/ Rejected(u) \/ Published(u) \/ Handled(u) \/ CommandDone(u)
             \/ Confirm(u)
      PROVE  PolicyInv'
  BY <1>6, MessagesLeavePolicyAlone, PolicyAloneKeeps
<1>7. CASE UNCHANGED allVars
  BY <1>7, PolicyAloneKeeps
  DEF allVars, lifeVars, accessVars, taskVars, PolicyAlone
<1> QED
  BY <1>1, <1>2, <1>3, <1>4, <1>5, <1>6, <1>7 DEF AccessNext

\* Once the signal after an edit has been dealt with, the policy is that of the
\* file, whatever was under way (_on_reload_signal, _reload_chat_access_config).
THEOREM PolicyFollowsFile == AccessSpec => []AccessFollowsConfig
<1>1. PolicyInv => AccessFollowsConfig
  BY DEF PolicyInv
<1>2. AccessSpec => AccessInit /\ [][AccessNext]_allVars
  BY DEF AccessSpec, allVars
<1> QED
  BY <1>1, <1>2, PolicyInit, PolicyStep, PTL

-----------------------------------------------------------------------------
(* Refusals are on record *)

Ats == {"none", "publish", "handle", "record", "reject"}

RecordInv ==
  /\ acAt \in [AcUsers -> Ats]
  /\ acRefused \in Nat /\ acOnRecord \in Nat /\ acUnrecorded \in Nat
  /\ RefusalsOnRecord

LEMMA RefusalsAreFinite ==
  IsFiniteSet(Refusals) /\ Cardinality(Refusals) \in Nat
<1>1. IsFiniteSet(Refusals)
  BY AccessAssumption, FS_Subset DEF Refusals
<1> QED
  BY <1>1, FS_CardinalityType

LEMMA RecordInit == AccessInit => RecordInv
<1> SUFFICES ASSUME AccessInit PROVE RecordInv
  OBVIOUS
<1>1. Refusals = {}
  BY DEF AccessInit, Refusals
<1>2. Cardinality(Refusals) = 0
  BY <1>1, FS_EmptySet
<1> QED
  BY <1>2 DEF AccessInit, RecordInv, RefusalsOnRecord, Ats

\* A message of u goes from one place to another.
Moves(u, from, to) ==
  /\ acAt[u] = from /\ from \in Ats /\ to \in Ats
  /\ acAt' = [acAt EXCEPT ![u] = to]

LEMMA MovedRefusals ==
  ASSUME acAt \in [AcUsers -> Ats], NEW u \in AcUsers,
         NEW from, NEW to, Moves(u, from, to)
  PROVE  /\ acAt' \in [AcUsers -> Ats]
         /\ from # "reject" /\ to # "reject" => Refusals' = Refusals
         /\ from # "reject" /\ to = "reject" =>
              Cardinality(Refusals') = Cardinality(Refusals) + 1
         /\ from = "reject" /\ to # "reject" =>
              Cardinality(Refusals') = Cardinality(Refusals) - 1
<1>1. acAt' \in [AcUsers -> Ats]
  BY DEF Moves
<1>2. \A v \in AcUsers : acAt'[v] = IF v = u THEN to ELSE acAt[v]
  BY DEF Moves
<1>3. from # "reject" /\ to # "reject" => Refusals' = Refusals
  BY <1>2 DEF Moves, Refusals
<1>4. from # "reject" /\ to = "reject" =>
        Refusals' = Refusals \union {u} /\ u \notin Refusals
  BY <1>2 DEF Moves, Refusals
<1>5. from = "reject" /\ to # "reject" =>
        Refusals' = Refusals \ {u} /\ u \in Refusals
  BY <1>2 DEF Moves, Refusals
<1> QED
  BY <1>1, <1>3, <1>4, <1>5, RefusalsAreFinite, FS_AddElement,
     FS_RemoveElement

LEMMA MessageKeepsRecord ==
  ASSUME RecordInv, NEW u \in AcUsers,
         \/ \E c \in Commands : Receive(u, c)
         \/ Rejected(u) \/ Published(u) \/ Handled(u) \/ CommandDone(u)
         \/ Confirm(u)
  PROVE  RecordInv'
<1>0. acAt \in [AcUsers -> Ats] /\ Cardinality(Refusals) \in Nat
  BY RefusalsAreFinite DEF RecordInv
<1>1. CASE \E c \in Commands : Receive(u, c)
  <2>1. CASE Moves(u, "none", "publish") /\ UNCHANGED countVars
    <3>1. acAt' \in [AcUsers -> Ats] /\ Refusals' = Refusals
      BY <1>0, <2>1, MovedRefusals
    <3> QED
      BY <2>1, <3>1 DEF RecordInv, RefusalsOnRecord, countVars
  <2>2. CASE Moves(u, "none", "reject") /\ acRefused' = acRefused + 1
               /\ UNCHANGED <<acOnRecord, acUnrecorded>>
    <3>1. acAt' \in [AcUsers -> Ats]
            /\ Cardinality(Refusals') = Cardinality(Refusals) + 1
      BY <1>0, <2>2, MovedRefusals
    <3> QED
      BY <1>0, <2>2, <3>1 DEF RecordInv, RefusalsOnRecord
  <2> QED
    BY <1>1, <2>1, <2>2
    DEF Receive, Refuse, MessageAt, Moves, Ats, countVars
<1>2. CASE Rejected(u)
  <2>1. Moves(u, "reject", "none") /\ acRefused' = acRefused
    BY <1>2 DEF Rejected, Over, MessageAt, Moves, Ats
  <2>2. acAt' \in [AcUsers -> Ats]
          /\ Cardinality(Refusals') = Cardinality(Refusals) - 1
    BY <1>0, <2>1, MovedRefusals
  <2>3. \/ acOnRecord' = acOnRecord + 1 /\ acUnrecorded' = acUnrecorded
        \/ acUnrecorded' = acUnrecorded + 1 /\ acOnRecord' = acOnRecord
    BY <1>2 DEF Rejected
  <2> QED
    BY <1>0, <2>1, <2>2, <2>3 DEF RecordInv, RefusalsOnRecord
<1>3. CASE Published(u) \/ Handled(u) \/ CommandDone(u)
  <2>1. UNCHANGED countVars
    BY <1>3 DEF Published, Handled, CommandDone, messageRest
  <2>2. PICK from \in Ats \ {"reject"}, to \in Ats \ {"reject"} :
          Moves(u, from, to)
    BY <1>3 DEF Published, Handled, CommandDone, Over, MessageAt, Moves, Ats
  <2>3. acAt' \in [AcUsers -> Ats] /\ Refusals' = Refusals
    BY <1>0, <2>2, MovedRefusals
  <2> QED
    BY <2>1, <2>3 DEF RecordInv, RefusalsOnRecord, countVars
<1>4. CASE Confirm(u)
  <2>1. UNCHANGED <<acAt, countVars>>
    BY <1>4 DEF Confirm
  <2>2. Refusals' = Refusals
    BY <2>1 DEF Refusals
  <2> QED
    BY <2>1, <2>2 DEF RecordInv, RefusalsOnRecord, countVars
<1> QED
  BY <1>1, <1>2, <1>3, <1>4

LEMMA RecordStep == RecordInv /\ [AccessNext]_allVars => RecordInv'
<1> SUFFICES ASSUME RecordInv, [AccessNext]_allVars PROVE RecordInv'
  OBVIOUS
<1>0. Cardinality(Refusals) \in Nat
  BY RefusalsAreFinite
<1>1. CASE UNCHANGED <<acAt, countVars>>
  <2>1. Refusals' = Refusals
    BY <1>1 DEF Refusals
  <2> QED
    BY <1>1, <2>1 DEF RecordInv, RefusalsOnRecord, countVars
<1>2. CASE AccessCutOff
  <2>1. acAt' \in [AcUsers -> Ats] /\ Refusals' = {}
    BY <1>2 DEF AccessCutOff, Refusals, Ats
  <2>2. Cardinality(Refusals') = 0
    BY <2>1, FS_EmptySet
  <2> QED
    BY <1>0, <1>2, <2>1, <2>2
    DEF AccessCutOff, RecordInv, RefusalsOnRecord
<1>3. WithDaemon => AccessCutOff \/ UNCHANGED <<acAt, countVars>>
  BY DEF WithDaemon, AccessLoaded, ReloadsCancelled, accessVars, messageVars
<1>4. Edit \/ ReloadSignal \/ Reload \/ ReloadDone =>
        UNCHANGED <<acAt, countVars>>
  BY DEF Edit, ReloadSignal, Reload, ReloadDone, messageVars
<1>5. UNCHANGED allVars => UNCHANGED <<acAt, countVars>>
  BY DEF allVars, accessVars, messageVars
<1> QED
  BY <1>1, <1>2, <1>3, <1>4, <1>5, MessageKeepsRecord DEF AccessNext

\* Every refusal is on record, is being recorded, or is among those whose record
\* failed or was cut off (_handle_inbound_message, audit_rejection).
THEOREM RefusalsAreRecorded == AccessSpec => []RefusalsOnRecord
<1>1. RecordInv => RefusalsOnRecord
  BY DEF RecordInv
<1>2. AccessSpec => AccessInit /\ [][AccessNext]_allVars
  BY DEF AccessSpec, allVars
<1> QED
  BY <1>1, <1>2, RecordInit, RecordStep, PTL

-----------------------------------------------------------------------------
(* The types of what chat may tell the daemon *)

\* Every reload comes from a signal, and every refusal from a message; that is
\* what keeps them within their bounds.
AccessTypes ==
  /\ acFile \in AcFiles
  /\ acPolicy \in Policies
  /\ acAsked \in [AcUsers -> Commands]
  /\ acPending \subseteq AcUsers
  /\ acUnsignalled \in BOOLEAN
ReloadsCounted ==
  /\ acReloads \in Nat /\ acRecords \in Nat
  /\ acEdits \in 0 .. AcMaxEdits /\ acSignals \in 0 .. AcMaxSignals
  /\ acReloads + acRecords <= acSignals
MessagesCounted ==
  acMessages \in 0 .. AcMaxMessages /\ acRefused \in 0 .. acMessages

AccessInv ==
  AccessTypes /\ ReloadsCounted /\ MessagesCounted /\ RecordInv

\* A file always makes a policy: the last of the entries for a user is one.
LEMMA PolicyType ==
  ASSUME NEW file \in AcFiles
  PROVE  PolicyOf(file) \in Policies
<1>0. file \in AcFileType
  BY AccessAssumption
<1>1. file.readonly \in SUBSET {"query", "change"}
  BY <1>0 DEF AcFileType
<1>2. ReadonlyCommands(file) \in SUBSET Commands
  BY <1>1 DEF ReadonlyCommands, Commands
<1>3. DeniesByMessage(file) \in BOOLEAN
  BY DEF DeniesByMessage
<1>4. ASSUME NEW u \in AcUsers PROVE RoleIn(file, u) \in Roles
  <2> DEFINE entries == EntriesFor(file, u)
             last == CHOOSE i \in entries : \A j \in entries : j <= i
  <2>1. CASE entries = {}
    BY <2>1 DEF RoleIn, Roles
  <2>2. CASE entries # {}
    <3>1. Len(file.allowed) \in Nat
            /\ DOMAIN file.allowed = 1 .. Len(file.allowed)
            /\ \A i \in DOMAIN file.allowed : file.allowed[i].form \in EntryForms
      <4>1. file.allowed \in Seq([id : AcUsers, form : EntryForms])
        BY <1>0 DEF AcFileType
      <4> HIDE DEF entries
      <4>2. \A i \in 1 .. Len(file.allowed) :
              file.allowed[i] \in [id : AcUsers, form : EntryForms]
        BY <4>1, ElementOfSeq
      <4>3. Len(file.allowed) \in Nat
              /\ DOMAIN file.allowed = 1 .. Len(file.allowed)
        BY <4>1, LenProperties
      <4> QED
        BY <4>2, <4>3
    <3>2. entries \in SUBSET (1 .. Len(file.allowed))
      BY <3>1 DEF EntriesFor
    <3> HIDE DEF entries
    <3>3. \E i \in entries : \A j \in entries : j <= i
      BY <2>2, <3>1, <3>2, GreatestOf
    <3>4. last \in entries
      BY <3>3
    <3> HIDE DEF last
    <3>5. file.allowed[last].form \in EntryForms
      BY <3>1, <3>2, <3>4
    <3>6. RoleOfForm(file.allowed[last].form) \in Roles
      BY <3>5 DEF RoleOfForm, Roles, EntryForms
    <3> QED
      BY <2>2, <3>6 DEF RoleIn, entries, last
  <2> QED
    BY <2>1, <2>2
<1>5. [u \in AcUsers |-> RoleIn(file, u)] \in [AcUsers -> Roles]
  BY <1>4
<1> QED
  BY <1>2, <1>3, <1>5 DEF PolicyOf, Policies

LEMMA AccessInvInit == AccessInit => AccessInv
<1> SUFFICES ASSUME AccessInit PROVE AccessInv
  OBVIOUS
<1>1. acFile \in AcFiles /\ acPolicy \in Policies
  BY PolicyType DEF AccessInit
<1>2. acAsked \in [AcUsers -> Commands]
  BY DEF AccessInit, Commands
<1>3. ReloadsCounted /\ MessagesCounted
  BY AccessAssumption DEF AccessInit, ReloadsCounted, MessagesCounted
<1> QED
  BY <1>1, <1>2, <1>3, RecordInit DEF AccessInit, AccessInv, AccessTypes

LEMMA MessageKeepsTypes ==
  ASSUME AccessInv, NEW u \in AcUsers,
         \/ \E c \in Commands : Receive(u, c)
         \/ Rejected(u) \/ Published(u) \/ Handled(u) \/ CommandDone(u)
         \/ Confirm(u)
  PROVE  AccessTypes' /\ ReloadsCounted' /\ MessagesCounted'
<1>0. AccessTypes /\ ReloadsCounted /\ MessagesCounted
  BY DEF AccessInv
<1>1. UNCHANGED <<acFile, acPolicy, acReloads, acRecords, acEdits, acSignals,
                  acUnsignalled>>
  BY DEF Receive, Rejected, Published, Handled, CommandDone, Confirm,
         policyVars, messageRest, taskVars
<1>2. acAsked' \in [AcUsers -> Commands] /\ acPending' \subseteq AcUsers
  BY <1>0
  DEF AccessTypes, Receive, Rejected, Published, Handled, CommandDone, Confirm,
      Over, Asks, messageRest, Commands
<1>3. MessagesCounted'
  <2>1. \/ /\ acMessages < AcMaxMessages /\ acMessages' = acMessages + 1
           /\ acRefused' \in {acRefused, acRefused + 1}
        \/ acMessages' = acMessages /\ acRefused' = acRefused
    BY DEF Receive, Refuse, Rejected, Published, Handled, CommandDone, Confirm,
           Listening, messageRest, countVars
  <2> QED
    BY <1>0, <2>1, AccessAssumption DEF MessagesCounted
<1> QED
  BY <1>0, <1>1, <1>2, <1>3 DEF AccessTypes, ReloadsCounted

LEMMA AccessInvStep == AccessInv /\ [AccessNext]_allVars => AccessInv'
<1> SUFFICES ASSUME AccessInv, [AccessNext]_allVars PROVE AccessInv'
  OBVIOUS
<1>0. AccessTypes /\ ReloadsCounted /\ MessagesCounted
  BY DEF AccessInv
<1>1. RecordInv'
  BY RecordStep DEF AccessInv
<1> SUFFICES AccessTypes' /\ ReloadsCounted' /\ MessagesCounted'
  BY <1>1 DEF AccessInv
<1> USE DEF taskVars, messageVars, boundVars, countVars
<1>2. CASE AccessCutOff
  <2>1. acAsked' \in [AcUsers -> Commands]
    BY <1>2 DEF AccessCutOff, Commands
  <2> QED
    BY <1>0, <1>2, <2>1
    DEF AccessCutOff, AccessTypes, ReloadsCounted, MessagesCounted
<1>3. CASE AccessLoaded
  BY <1>0, <1>3, PolicyType
  DEF AccessLoaded, AccessTypes, ReloadsCounted, MessagesCounted
<1>4. CASE ReloadsCancelled
  <2>1. acUnsignalled' \in BOOLEAN
    BY <1>0, <1>4 DEF ReloadsCancelled, AccessTypes
  <2> QED
    BY <1>0, <1>4, <2>1
    DEF ReloadsCancelled, AccessTypes, ReloadsCounted, MessagesCounted
<1>5. CASE UNCHANGED accessVars
  BY <1>0, <1>5 DEF accessVars, AccessTypes, ReloadsCounted, MessagesCounted
<1>6. CASE Edit
  BY <1>0, <1>6, AccessAssumption
  DEF Edit, AccessTypes, ReloadsCounted, MessagesCounted
<1>7. CASE ReloadSignal
  <2>1. acReloads' = acReloads + 1 /\ acSignals' = acSignals + 1
          /\ acSignals < AcMaxSignals
          /\ UNCHANGED <<acFile, acPolicy, acRecords, acAsked, acPending, acEdits,
                         acMessages, acRefused>>
          /\ acUnsignalled' = FALSE
    BY <1>7 DEF ReloadSignal, NewReload
  <2>2. ReloadsCounted'
    BY <1>0, <2>1, AccessAssumption DEF ReloadsCounted
  <2> QED
    BY <1>0, <2>1, <2>2 DEF AccessTypes, MessagesCounted
<1>8. CASE Reload
  BY <1>0, <1>8, PolicyType
  DEF Reload, AccessTypes, ReloadsCounted, MessagesCounted
<1>9. CASE ReloadDone
  BY <1>0, <1>9
  DEF ReloadDone, AccessTypes, ReloadsCounted, MessagesCounted
<1>10. WithDaemon => \/ AccessCutOff \/ AccessLoaded \/ ReloadsCancelled
                     \/ UNCHANGED accessVars
  BY DEF WithDaemon
<1>11. UNCHANGED allVars => UNCHANGED accessVars
  BY DEF allVars
<1> QED
  BY <1>2, <1>3, <1>4, <1>5, <1>6, <1>7, <1>8, <1>9, <1>10, <1>11,
     MessageKeepsTypes
  DEF AccessNext

LEMMA AccessInvType == AccessInv => AccessTypeOK
<1> SUFFICES ASSUME AccessInv PROVE AccessTypeOK
  OBVIOUS
<1>1. Cardinality(Refusals) \in Nat
  BY RefusalsAreFinite
<1>2. /\ acRefused \in 0 .. AcMaxMessages
      /\ acOnRecord \in 0 .. AcMaxMessages
      /\ acUnrecorded \in 0 .. AcMaxMessages
  BY <1>1, AccessAssumption
  DEF AccessInv, MessagesCounted, RecordInv, RefusalsOnRecord
<1>3. acReloads \in 0 .. AcMaxSignals /\ acRecords \in 0 .. AcMaxSignals
  BY AccessAssumption DEF AccessInv, ReloadsCounted
<1> QED
  BY <1>2, <1>3
  DEF AccessInv, AccessTypes, ReloadsCounted, MessagesCounted, RecordInv, Ats,
      AccessTypeOK

-----------------------------------------------------------------------------
(* What is told of analyses is on record *)

analysesAll == <<lifeVars, analysisVars>>

Stages == {"idle", "read", "ask", "record", "tell", "failed"}
Unfinished == {"read", "ask", "record"}

\* How many callers are at one of some stages.
One(caller, stages) == IF anAt[caller] \in stages THEN 1 ELSE 0
Both(stages) == One("scheduler", stages) + One("chat", stages)

\* AnalysesOnRecord with the reports on their way counted one by one; and as each
\* analysis has one record at most, the records stay within the bound.
AnalysesInv ==
  /\ anConfig \in AnConfigs
  /\ anAt \in [Callers -> Stages] /\ anKind \in [Callers -> Kinds]
  /\ anRuns \in 0 .. AnMaxRuns
  /\ anRecorded \in Nat /\ anTold \in Nat /\ anUntold \in Nat
  /\ anRecorded + Both(Unfinished) <= anRuns
  /\ anRecorded = anTold + anUntold + Both({"tell"})
  /\ anAt["scheduler"] # "idle" => Runs("scheduler")

LEMMA CallersCounted ==
  ASSUME NEW S \in SUBSET Callers
  PROVE  Cardinality(S) = (IF "scheduler" \in S THEN 1 ELSE 0)
                            + (IF "chat" \in S THEN 1 ELSE 0)
<1>1. \/ S = {} \/ S = {"scheduler"} \/ S = {"chat"}
      \/ S = {"scheduler"} \union {"chat"}
  BY DEF Callers
<1>2. Cardinality({"scheduler"}) = 1 /\ Cardinality({"chat"}) = 1
        /\ IsFiniteSet({"scheduler"}) /\ Cardinality({}) = 0
  BY FS_Singleton, FS_EmptySet
<1>3. Cardinality({"scheduler"} \union {"chat"}) = 2
  BY <1>2, FS_AddElement
<1> QED
  BY <1>1, <1>2, <1>3

LEMMA BothType ==
  ASSUME NEW stages
  PROVE  Both(stages) \in {0, 1, 2}
  BY DEF Both, One

LEMMA AnalysesInvInit == AnalysesInit => AnalysesInv
<1> SUFFICES ASSUME AnalysesInit PROVE AnalysesInv
  OBVIOUS
<1>1. anAt \in [Callers -> Stages] /\ anKind \in [Callers -> Kinds]
        /\ anAt["scheduler"] = "idle" /\ anAt["chat"] = "idle"
  BY DEF AnalysesInit, Callers, Stages, Kinds
<1>2. Both(Unfinished) = 0 /\ Both({"tell"}) = 0
  BY <1>1 DEF Both, One, Unfinished
<1> QED
  BY <1>1, <1>2, AnalysesAssumption DEF AnalysesInit, AnalysesInv

\* One caller goes from one stage to another; the other stays.
LEMMA OneGoes ==
  ASSUME AnalysesInv, NEW c \in Callers, NEW to \in Stages, Goes(c, to)
  PROVE  /\ anAt' \in [Callers -> Stages]
         /\ anAt'[c] = to /\ \A d \in Callers \ {c} : anAt'[d] = anAt[d]
         /\ \A stages \in SUBSET Stages :
              Both(stages)' = Both(stages)
                - (IF anAt[c] \in stages THEN 1 ELSE 0)
                + (IF to \in stages THEN 1 ELSE 0)
<1>1. /\ anAt' \in [Callers -> Stages]
      /\ anAt'[c] = to /\ \A d \in Callers \ {c} : anAt'[d] = anAt[d]
  BY DEF Goes, AnalysesInv
<1>2. CASE c = "scheduler"
  <2>1. anAt'["scheduler"] = to /\ anAt'["chat"] = anAt["chat"]
    BY <1>1, <1>2 DEF Callers
  <2> QED
    BY <1>1, <1>2, <2>1 DEF Both, One
<1>3. CASE c = "chat"
  <2>1. anAt'["chat"] = to /\ anAt'["scheduler"] = anAt["scheduler"]
    BY <1>1, <1>3 DEF Callers
  <2> QED
    BY <1>1, <1>3, <2>1 DEF Both, One
<1> QED
  BY <1>2, <1>3, <1>1 DEF Callers

\* What one caller does leaves the daemon as it is, but for a fault.
LEMMA CallerKeepsAnalyses ==
  ASSUME AnalysesInv, NEW c \in Callers, NEW to \in Stages, Goes(c, to),
         UNCHANGED <<anConfig, dlPhase, dlStarted>>,
         anKind' \in [Callers -> Kinds],
         \/ /\ anAt[c] = "idle" /\ to = "read" /\ Serving(c)
            /\ anRuns < AnMaxRuns /\ anRuns' = anRuns + 1
            /\ UNCHANGED anHistory
         \/ /\ anAt[c] # "idle" /\ anAt[c] # "tell" /\ to # "tell"
            /\ to \in Unfinished => anAt[c] \in Unfinished
            /\ UNCHANGED <<anRuns, anHistory>>
         \/ /\ anAt[c] = "record" /\ to = "tell"
            /\ anRecorded' = anRecorded + 1
            /\ UNCHANGED <<anRuns, anTold, anUntold>>
         \/ /\ anAt[c] = "tell" /\ to = "idle"
            /\ \/ anTold' = anTold + 1 /\ anUntold' = anUntold
               \/ anUntold' = anUntold + 1 /\ anTold' = anTold
            /\ UNCHANGED <<anRuns, anRecorded>>
  PROVE  AnalysesInv'
<1>0. Both(Unfinished) \in {0, 1, 2} /\ Both({"tell"}) \in {0, 1, 2}
  BY BothType
<1>1. /\ anAt' \in [Callers -> Stages]
      /\ anAt'[c] = to /\ \A d \in Callers \ {c} : anAt'[d] = anAt[d]
      /\ \A stages \in SUBSET Stages :
           Both(stages)' = Both(stages)
             - (IF anAt[c] \in stages THEN 1 ELSE 0)
             + (IF to \in stages THEN 1 ELSE 0)
  BY OneGoes
<1>2. Both(Unfinished)' = Both(Unfinished)
           - (IF anAt[c] \in Unfinished THEN 1 ELSE 0)
           + (IF to \in Unfinished THEN 1 ELSE 0)
        /\ Both({"tell"})' = Both({"tell"})
           - (IF anAt[c] = "tell" THEN 1 ELSE 0)
           + (IF to = "tell" THEN 1 ELSE 0)
  BY <1>1 DEF Unfinished, Stages
<1>3. anAt'["scheduler"] # "idle" => Runs("scheduler")'
  BY <1>1 DEF AnalysesInv, Runs, Serving, Callers
<1>4. anRuns' \in 0 .. AnMaxRuns
  BY AnalysesAssumption DEF AnalysesInv
<1>5. anRecorded' \in Nat /\ anTold' \in Nat /\ anUntold' \in Nat
  BY DEF AnalysesInv, anHistory
<1>6. (anRecorded + Both(Unfinished) <= anRuns)'
  BY <1>0, <1>2 DEF AnalysesInv, Unfinished, anHistory
<1>7. (anRecorded = anTold + anUntold + Both({"tell"}))'
  BY <1>0, <1>2 DEF AnalysesInv, Unfinished, anHistory
<1> QED
  BY <1>1, <1>3, <1>4, <1>5, <1>6, <1>7 DEF AnalysesInv

\* What a stop cuts off is lost if it was on its way.
LEMMA CutKeepsAnalyses ==
  ASSUME AnalysesInv, NEW callers \in SUBSET Callers, Cut(callers),
         "scheduler" \notin callers /\ Runs("scheduler") => Runs("scheduler")'
  PROVE  AnalysesInv'
<1> DEFINE lost == {c \in callers : anAt[c] = "tell"}
           S(set) == IF "scheduler" \in set THEN 1 ELSE 0
           C(set) == IF "chat" \in set THEN 1 ELSE 0
<1>0. anUntold' = anUntold + Cardinality(lost)
        /\ UNCHANGED <<anConfig, anKind, anRuns, anRecorded, anTold>>
  BY DEF Cut, anRest
<1>1. Cardinality(lost) = S(lost) + C(lost)
  BY CallersCounted
<1>2. /\ anAt' \in [Callers -> Stages]
      /\ \A c \in Callers : anAt'[c] = IF c \in callers THEN "idle" ELSE anAt[c]
  BY DEF Cut, AnalysesInv, Stages
<1>3. "scheduler" \in Callers /\ "chat" \in Callers
  BY DEF Callers
<1>4. Both(Unfinished)' <= Both(Unfinished) /\ Both(Unfinished)' \in Nat
        /\ Both(Unfinished) \in Nat
  BY <1>2, <1>3 DEF Both, One, Unfinished
<1>5. Both({"tell"}) = Both({"tell"})' + Cardinality(lost)
        /\ Both({"tell"})' \in Nat /\ Cardinality(lost) \in Nat
  BY <1>1, <1>2, <1>3 DEF Both, One
<1>6. (anAt["scheduler"] # "idle" => Runs("scheduler"))'
  BY <1>2, <1>3 DEF AnalysesInv
<1> HIDE DEF lost
<1>7. (anRecorded + Both(Unfinished) <= anRuns)'
  BY <1>0, <1>4 DEF AnalysesInv
<1>8. (anRecorded = anTold + anUntold + Both({"tell"}))'
  BY <1>0, <1>5 DEF AnalysesInv
<1>9. anUntold' \in Nat
  BY <1>0, <1>5 DEF AnalysesInv
<1> QED
  BY <1>0, <1>2, <1>6, <1>7, <1>8, <1>9 DEF AnalysesInv

LEMMA AnalysesStep == AnalysesInv /\ [AnalysesNext]_analysesAll => AnalysesInv'
<1> SUFFICES ASSUME AnalysesInv, [AnalysesNext]_analysesAll PROVE AnalysesInv'
  OBVIOUS
<1>0. anAt \in [Callers -> Stages] /\ anKind \in [Callers -> Kinds]
  BY DEF AnalysesInv
<1>1. CASE AnalysesWithDaemon
  <2>1. CASE dlPhase' = "down"
    <3>1. Cut(Callers)
      BY <1>1, <2>1 DEF AnalysesWithDaemon
    <3> QED
      BY <3>1, CutKeepsAnalyses DEF Callers
  <2>2. CASE dlPhase' # "down" /\ "scheduler" \in dlStarted \ dlStarted'
    <3>1. Cut({"scheduler"})
      BY <1>1, <2>2 DEF AnalysesWithDaemon
    <3> QED
      BY <3>1, CutKeepsAnalyses DEF Callers
  <2>3. CASE dlPhase' # "down" /\ "scheduler" \notin dlStarted \ dlStarted'
    <3>1. UNCHANGED analysisVars
      BY <1>1, <2>3 DEF AnalysesWithDaemon
    <3> QED
      BY <2>3, <3>1
      DEF analysisVars, AnalysesInv, Both, One, Runs
  <2> QED
    BY <2>1, <2>2, <2>3
<1>2. CASE Begin
  <2>1. PICK c \in Callers, kind \in Kinds : Begins(c, kind)
    BY <1>2
    DEF Begin, ScheduledLogAnalysis, ScheduledThresholdTuning,
        ScheduledNarrativeReport, ExplainCommand, LogAnalysisCommand,
        HealthStoryCommand, Callers, Kinds
  <2>2. anKind' \in [Callers -> Kinds]
    BY <1>0, <2>1 DEF Begins
  <2>3. "read" \in Stages
    BY DEF Stages
  <2> QED
    BY <2>1, <2>2, <2>3, CallerKeepsAnalyses DEF Begins, lifeVars
<1>3. ASSUME NEW c \in Callers,
             \/ Gather(c) \/ Answered(c) \/ Unavailable(c) \/ AnalysisRaises(c)
             \/ RecordedFailure(c)
      PROVE  AnalysesInv'
  <2>1. UNCHANGED <<anConfig, anKind, anRuns, anHistory, dlPhase, dlStarted>>
    BY <1>3
    DEF Gather, GatherLogAnalysisContext, GatherMetricStats,
        GatherNarrativeContext, FetchRecentAlerts, Reads, Answered, Unavailable,
        AnalysisRaises, RecordedFailure, anRest, lifeVars
  <2>2. PICK to \in Stages \ {"read", "tell"} :
          /\ Goes(c, to)
          /\ anAt[c] \notin {"idle", "tell"}
          /\ to \in Unfinished => anAt[c] \in Unfinished
    BY <1>3
    DEF Gather, GatherLogAnalysisContext, GatherMetricStats,
        GatherNarrativeContext, FetchRecentAlerts, Reads, Answered, Unavailable,
        AnalysisRaises, RecordedFailure, Stages, Unfinished
  <2> QED
    BY <1>0, <1>3, <2>1, <2>2, CallerKeepsAnalyses
<1>4. ASSUME NEW c \in Callers, RecordAnalysis(c) PROVE AnalysesInv'
  <2>1. "tell" \in Stages
    BY DEF Stages
  <2> QED
    BY <1>0, <1>4, <2>1, CallerKeepsAnalyses DEF RecordAnalysis, anRest, lifeVars
<1>5. ASSUME NEW c \in Callers, Tell(c) PROVE AnalysesInv'
  <2>1. "idle" \in Stages
    BY DEF Stages
  <2> QED
    BY <1>0, <1>5, <2>1, CallerKeepsAnalyses DEF Tell, anRest
<1>6. CASE UNCHANGED analysesAll
  BY <1>6 DEF analysesAll, lifeVars, analysisVars, AnalysesInv, Both, One, Runs
<1> QED
  BY <1>1, <1>2, <1>3, <1>4, <1>5, <1>6 DEF AnalysesNext

LEMMA AnalysesImplies == AnalysesInv => AnalysesTypeOK /\ AnalysesOnRecord
<1> SUFFICES ASSUME AnalysesInv PROVE AnalysesTypeOK /\ AnalysesOnRecord
  OBVIOUS
<1>1. Both(Unfinished) \in {0, 1, 2} /\ Both({"tell"}) \in {0, 1, 2}
  BY BothType
<1>2. anRecorded \in 0 .. AnMaxRuns /\ anTold \in 0 .. AnMaxRuns
        /\ anUntold \in 0 .. AnMaxRuns
  BY <1>1, AnalysesAssumption DEF AnalysesInv
<1>3. Cardinality({c \in Callers : anAt[c] = "tell"}) = Both({"tell"})
  <2> DEFINE telling == {c \in Callers : anAt[c] = "tell"}
  <2>1. Cardinality(telling) = (IF "scheduler" \in telling THEN 1 ELSE 0)
                                 + (IF "chat" \in telling THEN 1 ELSE 0)
    BY CallersCounted
  <2> QED
    BY <2>1 DEF Both, One, Callers
<1> QED
  BY <1>2, <1>3 DEF AnalysesInv, AnalysesTypeOK, AnalysesOnRecord, Stages

-----------------------------------------------------------------------------
(* The daemon in all its views *)

\* Where messages and analyses touch the life of the daemon, it is with a fault.
FaultOnly ==
  LifeFault /\ UNCHANGED <<restVars, dlPhase, dlStarted, dlUpdater>>

LEMMA AccessOfLife ==
  AccessNext => LifeNext \/ UNCHANGED lifeVars \/ FaultOnly
<1> USE DEF lifeVars, restVars, FaultOnly
<1>1. WithDaemon => LifeNext
  BY DEF WithDaemon
<1>2. Edit \/ ReloadSignal \/ Reload \/ ReloadDone => UNCHANGED lifeVars
  BY DEF Edit, ReloadSignal, Reload, ReloadDone
<1>3. ASSUME NEW u \in AcUsers,
             \/ \E c \in Commands : Receive(u, c)
             \/ Rejected(u) \/ Published(u) \/ Handled(u) \/ CommandDone(u)
             \/ Confirm(u)
      PROVE  UNCHANGED lifeVars \/ FaultOnly
  BY <1>3 DEF Receive, Rejected, Published, Handled, CommandDone, Confirm,
              messageRest
<1> QED
  BY <1>1, <1>2, <1>3 DEF AccessNext

LEMMA AnalysesOfLife ==
  AnalysesNext => LifeNext \/ UNCHANGED lifeVars \/ FaultOnly
<1> USE DEF lifeVars, restVars, FaultOnly
<1>1. AnalysesWithDaemon => LifeNext
  BY DEF AnalysesWithDaemon
<1>2. Begin => UNCHANGED lifeVars
  BY DEF Begin, Begins, ScheduledLogAnalysis, ScheduledThresholdTuning,
         ScheduledNarrativeReport, ExplainCommand, LogAnalysisCommand,
         HealthStoryCommand
<1>3. ASSUME NEW c \in Callers,
             \/ Gather(c) \/ Answered(c) \/ Unavailable(c) \/ AnalysisRaises(c)
             \/ RecordedFailure(c) \/ RecordAnalysis(c) \/ Tell(c)
      PROVE  UNCHANGED lifeVars \/ FaultOnly
  BY <1>3
  DEF Gather, GatherLogAnalysisContext, GatherMetricStats,
      GatherNarrativeContext, FetchRecentAlerts, Reads, Answered, Unavailable,
      AnalysisRaises, RecordedFailure, RecordAnalysis, Tell
<1> QED
  BY <1>1, <1>2, <1>3 DEF AnalysesNext

LEMMA FaultKeepsShutdown == ShutdownInv /\ FaultOnly => ShutdownInv'
<1> SUFFICES ASSUME ShutdownInv, FaultOnly PROVE ShutdownInv'
  OBVIOUS
<1>1. dlFaults \in Nat /\ dlFaults' = dlFaults + 1 /\ dlFaults' \in 0 .. DlMaxFaults
  BY DaemonAssumption DEF ShutdownInv, LifeTypeOK, FaultOnly, LifeFault
<1>2. UNCHANGED <<restVars, dlPhase, dlStarted, dlUpdater>>
  BY DEF FaultOnly
<1>3. dlFaults' > 0
  BY <1>1
<1> QED
  BY <1>1, <1>2, <1>3
  DEF restVars, ShutdownInv, LifeTypeOK, OrderlyShutdown, NotYetStarted,
      NotYetEnded, DatabaseOpen, StoppedInOrder, DeadOfAFault

\* What is not followed is as it was at the start.  That matters to what relates
\* chat and the analyses to the process, whose life goes on in other views.
DaemonInv ==
  /\ UpdateInv /\ ShutdownInv
  /\ AccessInv /\ PolicyInv /\ AnalysesInv
  /\ view # "access" => AccessInit
  /\ view # "analyses" => AnalysesInit

LEMMA DaemonInvInit == DaemonInit => DaemonInv
<1> SUFFICES ASSUME DaemonInit PROVE DaemonInv
  OBVIOUS
<1>1. Init /\ LifeInit /\ AccessInit /\ AnalysesInit
  BY DEF DaemonInit
<1> QED
  BY <1>1, UpdateInit, ShutdownInit, AccessInvInit, PolicyInit, AnalysesInvInit
  DEF DaemonInv

LEMMA AccessAlone == UNCHANGED accessVars =>
  (AccessInit => AccessInit') /\ (AccessInv => AccessInv')
<1> SUFFICES ASSUME UNCHANGED accessVars
             PROVE  (AccessInit => AccessInit') /\ (AccessInv => AccessInv')
  OBVIOUS
<1> USE DEF accessVars, taskVars, messageVars, boundVars, countVars
<1>1. AccessInit => AccessInit'
  BY DEF AccessInit
<1>2. AccessInv => AccessInv'
  BY DEF AccessInv, AccessTypes, ReloadsCounted, MessagesCounted, RecordInv,
         RefusalsOnRecord, Refusals
<1> QED
  BY <1>1, <1>2

LEMMA AnalysesAlone == UNCHANGED analysisVars /\ AnalysesInit => AnalysesInit'
  BY DEF analysisVars, AnalysesInit

LEMMA DaemonInvStep == DaemonInv /\ [DaemonNext]_daemonVars => DaemonInv'
<1> SUFFICES ASSUME DaemonInv, [DaemonNext]_daemonVars PROVE DaemonInv'
  OBVIOUS
<1>0. /\ UpdateInv /\ ShutdownInv /\ AccessInv /\ PolicyInv /\ AnalysesInv
      /\ view # "access" => AccessInit
      /\ view # "analyses" => AnalysesInit
  BY DEF DaemonInv
<1>1. UNCHANGED vars => UpdateInv'
  BY <1>0, UpdateStep
<1>2. LifeNext \/ UNCHANGED lifeVars \/ FaultOnly => ShutdownInv'
  BY <1>0, ShutdownStep, FaultKeepsShutdown
<1>3. ASSUME UNCHANGED <<view, accessVars>>, view # "access"
      PROVE  AccessInit' /\ AccessInv' /\ PolicyInv'
  <2>1. AccessInit' /\ AccessInv'
    BY <1>0, <1>3, AccessAlone
  <2>2. AccessInit' => PolicyInv'
    BY PolicyInit, PTL
  <2> QED
    BY <2>1, <2>2
<1>4. ASSUME UNCHANGED <<view, analysisVars>>, view # "analyses"
      PROVE  AnalysesInit' /\ AnalysesInv'
  <2>1. AnalysesInit'
    BY <1>0, <1>4, AnalysesAlone
  <2>2. AnalysesInit' => AnalysesInv'
    BY AnalysesInvInit, PTL
  <2> QED
    BY <2>1, <2>2
<1>5. CASE Step("update", Next, notUpdate)
  <2>1. UpdateInv'
    BY <1>0, <1>5, UpdateStep DEF Step
  <2>2. view = "update" /\ UNCHANGED <<view, lifeVars, accessVars, analysisVars>>
    BY <1>5 DEF Step, notUpdate
  <2> QED
    BY <1>2, <1>3, <1>4, <2>1, <2>2 DEF DaemonInv
<1>6. CASE Step("life", LifeNext, notLife)
  <2>1. view = "life" /\ LifeNext
          /\ UNCHANGED <<view, vars, accessVars, analysisVars>>
    BY <1>6 DEF Step, notLife
  <2> QED
    BY <1>1, <1>2, <1>3, <1>4, <2>1 DEF DaemonInv
<1>7. CASE Step("access", AccessNext, notAccess)
  <2>1. view = "access" /\ AccessNext /\ UNCHANGED <<view, vars, analysisVars>>
    BY <1>7 DEF Step, notAccess
  <2>2. ShutdownInv' /\ AccessInv' /\ PolicyInv'
    BY <1>0, <1>2, <2>1, AccessOfLife, AccessInvStep, PolicyStep
  <2> QED
    BY <1>1, <1>4, <2>1, <2>2 DEF DaemonInv
<1>8. CASE Step("analyses", AnalysesNext, notAnalyses)
  <2>1. view = "analyses" /\ AnalysesNext /\ UNCHANGED <<view, vars, accessVars>>
    BY <1>8 DEF Step, notAnalyses
  <2>2. ShutdownInv' /\ AnalysesInv'
    BY <1>0, <1>2, <2>1, AnalysesOfLife, AnalysesStep
  <2> QED
    BY <1>1, <1>3, <2>1, <2>2 DEF DaemonInv
<1>9. CASE UNCHANGED daemonVars
  <2>1. UNCHANGED vars /\ UNCHANGED lifeVars /\ UNCHANGED allVars
          /\ UNCHANGED analysesAll /\ UNCHANGED view
          /\ UNCHANGED accessVars /\ UNCHANGED analysisVars
    BY <1>9 DEF daemonVars, allVars, analysesAll
  <2>2. AccessInv' /\ PolicyInv' /\ AnalysesInv'
    BY <1>0, <2>1, AccessInvStep, PolicyStep, AnalysesStep
  <2>3. (AccessInit => AccessInit') /\ (AnalysesInit => AnalysesInit')
    BY <2>1, AccessAlone, AnalysesAlone
  <2> QED
    BY <1>0, <1>1, <1>2, <2>1, <2>2, <2>3 DEF DaemonInv
<1> QED
  BY <1>5, <1>6, <1>7, <1>8, <1>9 DEF DaemonNext

LEMMA DaemonKeepsInv == DaemonSpec => []DaemonInv
  BY DaemonInvInit, DaemonInvStep, PTL DEF DaemonSpec

\* The type invariant of the daemon in each of its views.
THEOREM DaemonTypeCorrect == DaemonSpec => []DaemonTypeOK
<1>1. DaemonInv => DaemonTypeOK
  BY AccessInvType, AnalysesImplies
  DEF DaemonInv, UpdateInv, ControlInv, ShutdownInv, DaemonTypeOK
<1> QED
  BY <1>1, DaemonKeepsInv, PTL

\* However an update ends, there is a snapshot to go back to, there are not too
\* many, all of it is on record, and what is installed is what runs
\* (check_and_apply_update, create_snapshot, _prune_snapshots).
THEOREM UpdatesAreSafe == DaemonSpec => []UpdatesSafe
<1>1. DaemonInv => UpdatesSafe
  BY UpdateImplies DEF DaemonInv, UpdatesSafe
<1> QED
  BY <1>1, DaemonKeepsInv, PTL

\* What chat is refused, and what it is told of analyses, is on record, and no
\* analysis of the scheduler outlives it (audit_rejection, perform_log_analysis
\* and the others, scheduler.stop).
THEOREM ChatIsOnRecord == DaemonSpec => []ChatOnRecord
<1>1. DaemonInv => ChatOnRecord
  BY AnalysesImplies DEF DaemonInv, AccessInv, RecordInv, ChatOnRecord
<1> QED
  BY <1>1, DaemonKeepsInv, PTL

\* With messages, reloads and analyses under way, the shutdown is as orderly,
\* and the policy of chat is that of its file once the reloads are done
\* (run_daemon, _reload_chat_access_config).
THEOREM DaemonStaysOrderly ==
  DaemonSpec => [](OrderlyShutdown /\ AccessFollowsConfig)
<1>1. DaemonInv => OrderlyShutdown /\ AccessFollowsConfig
  BY DEF DaemonInv, ShutdownInv, PolicyInv
<1> QED
  BY <1>1, DaemonKeepsInv, PTL
===============================================================================
