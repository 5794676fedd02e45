--------------------------- MODULE SelfUpdateProofs ---------------------------
(***************************************************************************)
(* What SelfUpdate guarantees for any number of releases, snapshots,       *)
(* errors, signals and crashes, and any keep_last: the snapshot to go back *)
(* to is kept, pruning keeps up, the audit log is whole, and what is       *)
(* installed is what runs.                                                 *)
(***************************************************************************)
EXTENDS SelfUpdate, FiniteSetTheorems, WellFoundedInduction, TLAPS

-----------------------------------------------------------------------------
(* Where the process and its task are *)

Pruning == {"delete", "recordDelete"}

\* A task ends with its process, and only one that is finished asks for a
\* restart.
TaskOfProcess ==
  /\ phase = "down" <=> task = "none"
  /\ restartRequested => task \in {"finished", "none"}

\* The round is that of the pull; a loop that sleeps after one has met an error.
RoundOfTask ==
  /\ task \in {"announce", "pull"} => round = "pre"
  /\ task \in {"pip", "finished"} => round = "post"
  /\ round = "post" /\ task \in {"check", "asleep"} => errors > 0

\* What is awaited is about a snapshot there is, or was.
SubjectOfTask ==
  /\ victims # {} => task \in Pruning \union {"dead"}
  /\ task \in {"recordCreated", "list"} => made \in shots
  /\ task = "recordCreated" => made \notin created
  /\ task \in {"list"} \union Pruning => config.keepLast > 0
  /\ task = "recordDelete" => victim # 0 /\ victim \notin deleted
  /\ deleted \intersect shots = {}

ControlInv == TypeOK /\ TaskOfProcess /\ RoundOfTask /\ SubjectOfTask

\* The snapshot made last preserves the tree that is about to be replaced, or,
\* until the next one is made, was replaced; then it is the one before the last.
Preserved(s, version) == s \in shots \ victims /\ versionOf[s] = version
RollbackKept ==
  config.snapshots /\ phase # "down" =>
    /\ round = "pre" /\ task \in {"recordCreated", "list", "announce", "pull"}
         \union Pruning => Preserved(made, head)
    /\ round = "post" /\ task \in {"pip", "create"} => Preserved(made, before)
    /\ round = "post" /\ config.keepLast # 1
         /\ task \in {"recordCreated", "list"} => Preserved(made - 1, before)
    /\ round = "post" /\ config.keepLast # 1
         /\ task \in {"recordNotCreated", "warn", "finished"} \union Pruning =>
         \E s \in shots \ victims : versionOf[s] = before

\* Once what is to be deleted is gone, there are not too many.
Allowed == config.keepLast + errors + cuts
PruningEnough ==
  config.keepLast > 0 =>
    /\ Cardinality(shots) <=
         Allowed + (IF task \in {"recordCreated", "list"} \union Pruning
                    THEN 1 ELSE 0)
    /\ task \in Pruning => Cardinality(shots \ victims) <= Allowed

\* What is on record neither now nor with the append that is awaited.
Uncreated ==
  ((1 .. made) \ created) \ (IF task = "recordCreated" THEN {made} ELSE {})
Undeleted ==
  (((1 .. made) \ shots) \ deleted)
    \ (IF task = "recordDelete" THEN {victim} ELSE {})
AuditedButFor == Cardinality(Uncreated) + Cardinality(Undeleted) <= errors + cuts

\* Between updates pip has run for the tree there is, and the process runs it.
CodeOfTree ==
  config.reinstall /\ errors = 0 /\ cuts = 0 =>
    /\ task # "pip" => installed = head
    /\ phase # "down" /\ round = "pre" => running = head

UpdateInv ==
  ControlInv /\ RollbackKept /\ PruningEnough /\ AuditedButFor /\ CodeOfTree

-----------------------------------------------------------------------------
(* Types *)

LEMMA UpdateTypeInit == Init => TypeOK
<1> SUFFICES ASSUME Init PROVE TypeOK
  OBVIOUS
<1>1. 0 \in Versions /\ 0 \in 0 .. MaxErrors /\ 0 \in 0 .. MaxStops
        /\ 0 \in 0 .. MaxShots
  BY UpdateAssumption DEF Versions
<1>2. versionOf \in [Shots -> Versions]
  BY <1>1 DEF Init
<1>3. shots \subseteq 1 .. made /\ victims \subseteq shots /\ victim \in 0 .. made
        /\ created \subseteq 1 .. made /\ deleted \subseteq 1 .. made
        /\ made \in 0 .. MaxShots
  BY <1>1 DEF Init
<1>4. task \in Tasks
  BY DEF Init, Tasks, Working
<1> QED
  BY <1>1, <1>2, <1>3, <1>4 DEF Init, TypeOK

LEMMA ErrorType ==
  ASSUME TypeOK, Error
  PROVE  errors' \in 0 .. MaxErrors /\ errors' = errors + 1 /\ errors \in Nat
  BY UpdateAssumption DEF TypeOK, Error

\* A snapshot more, numbered as it is made.
LEMMA MakeShotType ==
  ASSUME TypeOK, MakeShot
  PROVE  /\ made \in Nat /\ made' = made + 1 /\ made' \in 0 .. MaxShots
         /\ shots' = shots \union {made'} /\ made' \notin shots
         /\ made' \notin created /\ made' \notin deleted
         /\ versionOf' \in [Shots -> Versions]
         /\ versionOf'[made'] = head
         /\ \A s \in 1 .. made : versionOf'[s] = versionOf[s]
<1>1. made \in Nat /\ made + 1 \in Shots
  BY UpdateAssumption DEF TypeOK, MakeShot, Shots
<1>2. made \notin 1 .. (made - 1) /\ made + 1 \notin 1 .. made
  BY <1>1
<1>3. \A s \in 1 .. made : s \in Shots /\ s # made + 1
  BY <1>1, UpdateAssumption DEF TypeOK, MakeShot, Shots
<1>4. versionOf \in [Shots -> Versions] /\ head \in Versions
        /\ shots \subseteq 1 .. made /\ created \subseteq 1 .. made
        /\ deleted \subseteq 1 .. made
  BY DEF TypeOK
<1>5. made' = made + 1 /\ shots' = shots \union {made + 1}
        /\ versionOf' = [versionOf EXCEPT ![made + 1] = head]
  BY DEF MakeShot
<1>6. made' \in 0 .. MaxShots
  BY <1>1, <1>5, UpdateAssumption DEF Shots
<1> QED
  BY <1>1, <1>2, <1>3, <1>4, <1>5, <1>6

\* What is said of the snapshots does not change with one more.
ShotsTyped ==
  /\ made \in 0 .. MaxShots
  /\ shots \subseteq 1 .. made
  /\ victims \subseteq shots /\ victim \in 0 .. made
  /\ versionOf \in [Shots -> Versions]
  /\ created \subseteq 1 .. made /\ deleted \subseteq 1 .. made

LEMMA MakeShotKeepsType ==
  ASSUME TypeOK, MakeShot, victims' \subseteq victims,
         UNCHANGED <<victim, created, deleted>>
  PROVE  ShotsTyped'
<1>1. made \in Nat /\ made' = made + 1
  BY MakeShotType
<1>2. 1 .. made \subseteq 1 .. made' /\ 0 .. made \subseteq 0 .. made'
        /\ made' \in 1 .. made'
  BY <1>1
<1>3. ShotsTyped
  BY DEF TypeOK, ShotsTyped
<1> QED
  BY <1>2, <1>3, MakeShotType DEF ShotsTyped

\* A deletion takes one of the victims.
LEMMA DeleteKeepsType ==
  ASSUME TypeOK, NEW s \in victims, shots' = shots \ {s} \/ UNCHANGED shots,
         victims' \subseteq victims \ {s}, victim' \in {s, victim},
         UNCHANGED <<made, versionOf, created, deleted>>
  PROVE  ShotsTyped'
<1>1. s \in shots /\ made \in Nat /\ s \in 0 .. made
  BY DEF TypeOK
<1> QED
  BY <1>1 DEF TypeOK, ShotsTyped

\* The end of the process leaves the tree and the snapshots in some state.
LEMMA CutOffKeepsType ==
  ASSUME TypeOK, CutOff
  PROVE  /\ ShotsTyped' /\ task' = "none" /\ victims' = {}
         /\ cuts' \in Nat /\ round' \in {"pre", "post"}
         /\ upstream' \in Versions /\ head' \in Versions
         /\ installed' \in Versions /\ before' \in Versions
         /\ config' \in Config
<1>1. victims' = {} /\ task' = "none"
        /\ UNCHANGED <<config, upstream, round, victim, created, deleted>>
  BY DEF CutOff
<1>2. cuts' \in Nat
  BY DEF CutOff, TypeOK
<1>3. head' \in Versions /\ installed' \in Versions /\ before' \in Versions
  BY DEF CutOff, TypeOK, treeVars
<1>4. \/ MakeShot
      \/ UNCHANGED <<made, versionOf>>
         /\ \/ UNCHANGED shots
            \/ \E s \in victims : shots' = shots \ {s}
  BY DEF CutOff
<1>5. CASE MakeShot
  BY <1>1, <1>2, <1>3, <1>5, MakeShotKeepsType DEF TypeOK
<1>6. CASE UNCHANGED <<shots, made, versionOf>>
  BY <1>1, <1>2, <1>3, <1>6 DEF TypeOK, ShotsTyped
<1>7. CASE UNCHANGED <<made, versionOf>> /\ \E s \in victims : shots' = shots \ {s}
  BY <1>1, <1>2, <1>3, <1>7, DeleteKeepsType DEF TypeOK
<1> QED
  BY <1>4, <1>5, <1>6, <1>7

LEMMA UpdateTypeStep == ControlInv /\ [Next]_vars => TypeOK'
<1> SUFFICES ASSUME ControlInv, [Next]_vars PROVE TypeOK'
  OBVIOUS
<1>0. TypeOK
  BY DEF ControlInv
<1> USE DEF Goto, NotFinished, Tasks, Working, SnapshotTasks, RecordTasks
<1> USE DEF treeVars, processVars, shotVars, otherVars
<1>1. CASE Wake
  BY <1>0, <1>1 DEF Wake, TypeOK
<1>2. CASE Check
  BY <1>0, <1>2 DEF Check, TypeOK
<1>3. CASE CommandFails
  BY <1>0, <1>3, ErrorType DEF CommandFails, TypeOK
<1>4. CASE Announce
  BY <1>0, <1>4 DEF Announce, TypeOK
<1>5. CASE Pull
  BY <1>0, <1>5 DEF Pull, TypeOK, AfterInstall, Finish
<1>6. CASE Reinstall
  BY <1>0, <1>6, ErrorType DEF Reinstall, TypeOK, PipRuns, AfterInstall, Finish
<1>7. CASE ReinstallFails
  BY <1>0, <1>7, ErrorType DEF ReinstallFails, TypeOK
<1>8. CASE Create
  <2>1. ShotsTyped'
    BY <1>0, <1>8, MakeShotKeepsType DEF Create
  <2> QED
    BY <1>0, <1>8, <2>1 DEF Create, TypeOK, ShotsTyped
<1>9. CASE CreateFails
  <2>1. ShotsTyped'
    BY <1>0, <1>9, MakeShotKeepsType DEF CreateFails, TypeOK, ShotsTyped
  <2> QED
    BY <1>0, <1>9, <2>1, ErrorType DEF CreateFails, TypeOK, ShotsTyped
<1>10. CASE RecordCreated
  BY <1>0, <1>10 DEF RecordCreated, TypeOK, AfterSnapshot, Finish, ControlInv, SubjectOfTask, At
<1>11. CASE RecordNotCreated
  BY <1>0, <1>11 DEF RecordNotCreated, TypeOK
<1>12. CASE Prune
  BY <1>0, <1>12 DEF Prune, TypeOK, Excess, AfterSnapshot, Finish
<1>13. CASE PruneFails
  BY <1>0, <1>13, ErrorType DEF PruneFails, TypeOK
<1>14. CASE Delete
  <2>1. ShotsTyped'
    BY <1>0, <1>14, DeleteKeepsType DEF Delete
  <2> QED
    BY <1>0, <1>14, <2>1, ErrorType DEF Delete, TypeOK, ShotsTyped
<1>15. CASE RecordDelete
  <2>1. victim \in 1 .. made
    BY <1>0, <1>15 DEF RecordDelete, At, ControlInv, SubjectOfTask, TypeOK
  <2>2. deleted' \subseteq 1 .. made
    BY <1>0, <1>15, <2>1 DEF RecordDelete, DeletedNow, TypeOK
  <2> QED
    BY <1>0, <1>15, <2>2 DEF RecordDelete, TypeOK, AfterSnapshot, Finish
<1>16. CASE Warn
  BY <1>0, <1>16 DEF Warn, TypeOK, Finish
<1>17. CASE AppendFails
  BY <1>0, <1>17, ErrorType DEF AppendFails, TypeOK
<1>18. CASE Signal
  BY <1>0, <1>18, UpdateAssumption DEF Signal, TypeOK
<1>19. CASE Exit
  BY <1>0, <1>19, CutOffKeepsType DEF Exit, TypeOK, ShotsTyped
<1>20. CASE Reexec
  BY <1>0, <1>20 DEF Reexec, TypeOK
<1>21. CASE Crash
  BY <1>0, <1>21, CutOffKeepsType, UpdateAssumption
  DEF Crash, TypeOK, ShotsTyped
<1>22. CASE Start
  BY <1>0, <1>22 DEF Start, TypeOK
<1>23. CASE Release
  BY <1>0, <1>23, UpdateAssumption DEF Release, TypeOK, Versions
<1>24. CASE UNCHANGED vars
  BY <1>0, <1>24 DEF vars, TypeOK
<1> QED
  BY <1>1, <1>2, <1>3, <1>4, <1>5, <1>6, <1>7, <1>8, <1>9, <1>10, <1>11, <1>12, <1>13, <1>14, <1>15, <1>16, <1>17, <1>18, <1>19, <1>20, <1>21, <1>22, <1>23, <1>24
  DEF Next, Proceed

-----------------------------------------------------------------------------
(* Where the process and its task are *)

LEMMA ControlInit == Init => ControlInv
  BY UpdateTypeInit
  DEF Init, ControlInv, TaskOfProcess, RoundOfTask, SubjectOfTask, Pruning

LEMMA TaskOfProcessStep == ControlInv /\ [Next]_vars => TaskOfProcess'
<1> SUFFICES ASSUME ControlInv, [Next]_vars PROVE TaskOfProcess'
  OBVIOUS
<1>0. TypeOK /\ TaskOfProcess
  BY DEF ControlInv
<1> USE DEF Goto, NotFinished, At, RecordTasks
<1> USE DEF treeVars, processVars, shotVars, otherVars
<1>1. CASE Wake
  BY <1>0, <1>1 DEF Wake, TaskOfProcess
<1>2. CASE Check
  BY <1>0, <1>2 DEF Check, TaskOfProcess
<1>3. CASE CommandFails
  BY <1>0, <1>3 DEF CommandFails, TaskOfProcess
<1>4. CASE Announce
  BY <1>0, <1>4 DEF Announce, TaskOfProcess
<1>5. CASE Pull
  BY <1>0, <1>5 DEF Pull, AfterInstall, Finish, TaskOfProcess
<1>6. CASE Reinstall
  BY <1>0, <1>6 DEF Reinstall, AfterInstall, Finish, PipRuns, TaskOfProcess
<1>7. CASE ReinstallFails
  BY <1>0, <1>7 DEF ReinstallFails, TaskOfProcess
<1>8. CASE Create
  BY <1>0, <1>8 DEF Create, TaskOfProcess
<1>9. CASE CreateFails
  BY <1>0, <1>9 DEF CreateFails, TaskOfProcess
<1>10. CASE RecordCreated
  BY <1>0, <1>10 DEF RecordCreated, AfterSnapshot, Finish, TaskOfProcess
<1>11. CASE RecordNotCreated
  BY <1>0, <1>11 DEF RecordNotCreated, TaskOfProcess
<1>12. CASE Prune
  BY <1>0, <1>12 DEF Prune, AfterSnapshot, Finish, Excess, TaskOfProcess
<1>13. CASE PruneFails
  BY <1>0, <1>13 DEF PruneFails, TaskOfProcess
<1>14. CASE Delete
  BY <1>0, <1>14 DEF Delete, TaskOfProcess
<1>15. CASE RecordDelete
  BY <1>0, <1>15 DEF RecordDelete, AfterSnapshot, Finish, DeletedNow, TaskOfProcess
<1>16. CASE Warn
  BY <1>0, <1>16 DEF Warn, Finish, TaskOfProcess
<1>17. CASE AppendFails
  BY <1>0, <1>17 DEF AppendFails, TaskOfProcess
<1>18. CASE Signal
  BY <1>0, <1>18 DEF Signal, TaskOfProcess
<1>19. CASE Exit
  BY <1>0, <1>19 DEF Exit, CutOff, TaskOfProcess
<1>20. CASE Reexec
  BY <1>0, <1>20 DEF Reexec, TaskOfProcess
<1>21. CASE Crash
  BY <1>0, <1>21 DEF Crash, CutOff, TaskOfProcess
<1>22. CASE Start
  BY <1>0, <1>22 DEF Start, TaskOfProcess
<1>23. CASE Release
  BY <1>0, <1>23 DEF Release, TaskOfProcess
<1>24. CASE UNCHANGED vars
  BY <1>0, <1>24 DEF vars, TaskOfProcess
<1> QED
  BY <1>1, <1>2, <1>3, <1>4, <1>5, <1>6, <1>7, <1>8, <1>9, <1>10, <1>11, <1>12, <1>13, <1>14, <1>15, <1>16, <1>17, <1>18, <1>19, <1>20, <1>21, <1>22, <1>23, <1>24
  DEF Next, Proceed

LEMMA RoundOfTaskStep == ControlInv /\ [Next]_vars => RoundOfTask'
<1> SUFFICES ASSUME ControlInv, [Next]_vars PROVE RoundOfTask'
  OBVIOUS
<1>0. TypeOK /\ TaskOfProcess /\ RoundOfTask
  BY DEF ControlInv
<1>00. errors \in Nat /\ round \in {"pre", "post"}
  BY <1>0 DEF TypeOK
<1> USE DEF Goto, NotFinished, At, RecordTasks
<1> USE DEF treeVars, processVars, shotVars, otherVars
<1>1. CASE Wake
  BY <1>0, <1>1 DEF Wake, RoundOfTask
<1>2. CASE Check
  BY <1>0, <1>2 DEF Check, RoundOfTask
<1>3. CASE CommandFails
  BY <1>0, <1>3, <1>00, ErrorType DEF CommandFails, RoundOfTask
<1>4. CASE Announce
  BY <1>0, <1>4 DEF Announce, RoundOfTask
<1>5. CASE Pull
  BY <1>0, <1>5 DEF Pull, AfterInstall, Finish, RoundOfTask
<1>6. CASE Reinstall
  BY <1>0, <1>6, <1>00, ErrorType DEF Reinstall, AfterInstall, Finish, PipRuns, RoundOfTask
<1>7. CASE ReinstallFails
  BY <1>0, <1>7, <1>00, ErrorType DEF ReinstallFails, RoundOfTask
<1>8. CASE Create
  BY <1>0, <1>8 DEF Create, RoundOfTask
<1>9. CASE CreateFails
  BY <1>0, <1>9, <1>00, ErrorType DEF CreateFails, RoundOfTask
<1>10. CASE RecordCreated
  BY <1>0, <1>00, <1>10 DEF RecordCreated, AfterSnapshot, Finish, RoundOfTask
<1>11. CASE RecordNotCreated
  BY <1>0, <1>11 DEF RecordNotCreated, RoundOfTask
<1>12. CASE Prune
  BY <1>0, <1>00, <1>12 DEF Prune, AfterSnapshot, Finish, Excess, RoundOfTask
<1>13. CASE PruneFails
  BY <1>0, <1>13, <1>00, ErrorType DEF PruneFails, RoundOfTask
<1>14. CASE Delete
  BY <1>0, <1>14, <1>00, ErrorType DEF Delete, RoundOfTask
<1>15. CASE RecordDelete
  BY <1>0, <1>00, <1>15 DEF RecordDelete, AfterSnapshot, Finish, DeletedNow, RoundOfTask
<1>16. CASE Warn
  BY <1>0, <1>00, <1>16 DEF Warn, Finish, RoundOfTask
<1>17. CASE AppendFails
  BY <1>0, <1>17, <1>00, ErrorType DEF AppendFails, RoundOfTask
<1>18. CASE Signal
  BY <1>0, <1>18 DEF Signal, RoundOfTask
<1>19. CASE Exit
  BY <1>0, <1>19 DEF Exit, CutOff, RoundOfTask
<1>20. CASE Reexec
  BY <1>0, <1>20 DEF Reexec, RoundOfTask
<1>21. CASE Crash
  BY <1>0, <1>21 DEF Crash, CutOff, RoundOfTask
<1>22. CASE Start
  BY <1>0, <1>22 DEF Start, RoundOfTask
<1>23. CASE Release
  BY <1>0, <1>23 DEF Release, RoundOfTask
<1>24. CASE UNCHANGED vars
  BY <1>0, <1>24 DEF vars, RoundOfTask
<1> QED
  BY <1>1, <1>2, <1>3, <1>4, <1>5, <1>6, <1>7, <1>8, <1>9, <1>10, <1>11, <1>12, <1>13, <1>14, <1>15, <1>16, <1>17, <1>18, <1>19, <1>20, <1>21, <1>22, <1>23, <1>24
  DEF Next, Proceed

LEMMA SubjectOfTaskStep == ControlInv /\ [Next]_vars => SubjectOfTask'
<1> SUFFICES ASSUME ControlInv, [Next]_vars PROVE SubjectOfTask'
  OBVIOUS
<1>0. TypeOK /\ TaskOfProcess /\ RoundOfTask /\ SubjectOfTask
  BY DEF ControlInv
<1> USE DEF Goto, NotFinished, At, RecordTasks, Pruning
<1> USE DEF treeVars, processVars, shotVars, otherVars
<1>1. CASE Wake
  BY <1>0, <1>1 DEF Wake, SubjectOfTask
<1>2. CASE Check
  BY <1>0, <1>2 DEF Check, SubjectOfTask
<1>3. CASE CommandFails
  BY <1>0, <1>3 DEF CommandFails, SubjectOfTask
<1>4. CASE Announce
  BY <1>0, <1>4 DEF Announce, SubjectOfTask
<1>5. CASE Pull
  BY <1>0, <1>5 DEF Pull, AfterInstall, Finish, SubjectOfTask
<1>6. CASE Reinstall
  BY <1>0, <1>6 DEF Reinstall, AfterInstall, Finish, PipRuns, SubjectOfTask
<1>7. CASE ReinstallFails
  BY <1>0, <1>7 DEF ReinstallFails, SubjectOfTask
<1>8. CASE Create
  BY <1>0, <1>8, MakeShotType DEF Create, SubjectOfTask
<1>9. CASE CreateFails
  BY <1>0, <1>9, MakeShotType DEF CreateFails, SubjectOfTask
<1>10. CASE RecordCreated
  BY <1>0, <1>10 DEF RecordCreated, AfterSnapshot, Finish, SubjectOfTask
<1>11. CASE RecordNotCreated
  BY <1>0, <1>11 DEF RecordNotCreated, SubjectOfTask
<1>12. CASE Prune
  BY <1>0, <1>12 DEF Prune, AfterSnapshot, Finish, Excess, SubjectOfTask
<1>13. CASE PruneFails
  BY <1>0, <1>13 DEF PruneFails, SubjectOfTask
<1>14. CASE Delete
  <2>1. victim' \in shots /\ victim' # 0 /\ shots' \subseteq shots
    BY <1>0, <1>14 DEF Delete, TypeOK
  <2> QED
    BY <1>0, <1>14, <2>1 DEF Delete, SubjectOfTask
<1>15. CASE RecordDelete
  BY <1>0, <1>15 DEF RecordDelete, AfterSnapshot, Finish, DeletedNow, SubjectOfTask
<1>16. CASE Warn
  BY <1>0, <1>16 DEF Warn, Finish, SubjectOfTask
<1>17. CASE AppendFails
  BY <1>0, <1>17 DEF AppendFails, SubjectOfTask
<1>18. CASE Signal
  BY <1>0, <1>18 DEF Signal, SubjectOfTask
<1>19. CASE Exit
  BY <1>0, <1>19, MakeShotType DEF Exit, CutOff, SubjectOfTask
<1>20. CASE Reexec
  BY <1>0, <1>20 DEF Reexec, TaskOfProcess, SubjectOfTask
<1>21. CASE Crash
  BY <1>0, <1>21, MakeShotType DEF Crash, CutOff, SubjectOfTask
<1>22. CASE Start
  BY <1>0, <1>22 DEF Start, TaskOfProcess, SubjectOfTask
<1>23. CASE Release
  BY <1>0, <1>23 DEF Release, SubjectOfTask
<1>24. CASE UNCHANGED vars
  BY <1>0, <1>24 DEF vars, SubjectOfTask
<1> QED
  BY <1>1, <1>2, <1>3, <1>4, <1>5, <1>6, <1>7, <1>8, <1>9, <1>10, <1>11, <1>12, <1>13, <1>14, <1>15, <1>16, <1>17, <1>18, <1>19, <1>20, <1>21, <1>22, <1>23, <1>24
  DEF Next, Proceed

LEMMA ControlStep == ControlInv /\ [Next]_vars => ControlInv'
  BY UpdateTypeStep, TaskOfProcessStep, RoundOfTaskStep, SubjectOfTaskStep
  DEF ControlInv

-----------------------------------------------------------------------------
(* What is installed is what runs *)

LEMMA CodeOfTreeStep ==
  ControlInv /\ CodeOfTree /\ [Next]_vars => CodeOfTree'
<1> SUFFICES ASSUME ControlInv, CodeOfTree, [Next]_vars PROVE CodeOfTree'
  OBVIOUS
<1>0. TypeOK /\ TaskOfProcess /\ RoundOfTask /\ CodeOfTree
  BY DEF ControlInv
<1>00. errors \in Nat /\ cuts \in Nat /\ round \in {"pre", "post"}
  BY <1>0 DEF TypeOK
<1> USE DEF Goto, NotFinished, At, RecordTasks, TaskOfProcess, RoundOfTask
<1> USE DEF treeVars, processVars, shotVars, otherVars
<1>1. CASE Wake
  BY <1>0, <1>00, <1>1 DEF Wake, CodeOfTree
<1>2. CASE Check
  BY <1>0, <1>00, <1>2 DEF Check, CodeOfTree
<1>3. CASE CommandFails
  BY <1>0, <1>00, <1>3, ErrorType DEF CommandFails, CodeOfTree
<1>4. CASE Announce
  BY <1>0, <1>00, <1>4 DEF Announce, CodeOfTree
<1>5. CASE Pull
  BY <1>0, <1>00, <1>5 DEF Pull, AfterInstall, Finish, CodeOfTree
<1>6. CASE Reinstall
  BY <1>0, <1>00, <1>6, ErrorType DEF Reinstall, AfterInstall, Finish, PipRuns, CodeOfTree
<1>7. CASE ReinstallFails
  BY <1>0, <1>00, <1>7, ErrorType DEF ReinstallFails, CodeOfTree
<1>8. CASE Create
  BY <1>0, <1>00, <1>8 DEF Create, CodeOfTree
<1>9. CASE CreateFails
  BY <1>0, <1>00, <1>9, ErrorType DEF CreateFails, CodeOfTree
<1>10. CASE RecordCreated
  BY <1>0, <1>00, <1>10 DEF RecordCreated, AfterSnapshot, Finish, CodeOfTree
<1>11. CASE RecordNotCreated
  BY <1>0, <1>00, <1>11 DEF RecordNotCreated, CodeOfTree
<1>12. CASE Prune
  BY <1>0, <1>00, <1>12 DEF Prune, AfterSnapshot, Finish, CodeOfTree
<1>13. CASE PruneFails
  BY <1>0, <1>00, <1>13, ErrorType DEF PruneFails, CodeOfTree
<1>14. CASE Delete
  BY <1>0, <1>00, <1>14, ErrorType DEF Delete, CodeOfTree
<1>15. CASE RecordDelete
  BY <1>0, <1>00, <1>15 DEF RecordDelete, AfterSnapshot, Finish, CodeOfTree
<1>16. CASE Warn
  BY <1>0, <1>00, <1>16 DEF Warn, Finish, CodeOfTree
<1>17. CASE AppendFails
  BY <1>0, <1>00, <1>17, ErrorType DEF AppendFails, CodeOfTree
<1>18. CASE Signal
  BY <1>0, <1>00, <1>18 DEF Signal, CodeOfTree
<1>19. CASE Exit
  BY <1>0, <1>00, <1>19 DEF Exit, CutOff, Working, SnapshotTasks, CodeOfTree
<1>20. CASE Reexec
  BY <1>0, <1>00, <1>20 DEF Reexec, CodeOfTree
<1>21. CASE Crash
  BY <1>0, <1>00, <1>21 DEF Crash, CutOff, Working, SnapshotTasks, CodeOfTree
<1>22. CASE Start
  BY <1>0, <1>00, <1>22 DEF Start, CodeOfTree
<1>23. CASE Release
  BY <1>0, <1>00, <1>23 DEF Release, CodeOfTree
<1>24. CASE UNCHANGED vars
  BY <1>0, <1>00, <1>24 DEF vars, CodeOfTree
<1> QED
  BY <1>1, <1>2, <1>3, <1>4, <1>5, <1>6, <1>7, <1>8, <1>9, <1>10, <1>11, <1>12, <1>13, <1>14, <1>15, <1>16, <1>17, <1>18, <1>19, <1>20, <1>21, <1>22, <1>23, <1>24
  DEF Next, Proceed

-----------------------------------------------------------------------------
(* The audit log *)

LEMMA UnrecordedAreFinite ==
  ASSUME TypeOK
  PROVE  /\ IsFiniteSet(Uncreated) /\ Cardinality(Uncreated) \in Nat
         /\ IsFiniteSet(Undeleted) /\ Cardinality(Undeleted) \in Nat
<1>1. IsFiniteSet(1 .. made)
  BY FS_Interval DEF TypeOK
<1>2. Uncreated \in SUBSET (1 .. made) /\ Undeleted \in SUBSET (1 .. made)
  BY DEF Uncreated, Undeleted
<1> QED
  BY <1>1, <1>2, FS_Subset, FS_CardinalityType

LEMMA AuditInit == Init => AuditedButFor
<1> SUFFICES ASSUME Init PROVE AuditedButFor
  OBVIOUS
<1>1. Uncreated = {} /\ Undeleted = {}
  BY DEF Init, Uncreated, Undeleted
<1> QED
  BY <1>1, FS_EmptySet DEF Init, AuditedButFor

LEMMA AuditedAsBefore ==
  ASSUME TypeOK, AuditedButFor, Uncreated' \subseteq Uncreated,
         Undeleted' \subseteq Undeleted,
         errors' \in {errors, errors + 1}, cuts' \in {cuts, cuts + 1}
  PROVE  AuditedButFor'
<1>1. Cardinality(Uncreated') <= Cardinality(Uncreated)
        /\ Cardinality(Undeleted') <= Cardinality(Undeleted)
        /\ Cardinality(Uncreated') \in Nat /\ Cardinality(Undeleted') \in Nat
  BY UnrecordedAreFinite, FS_Subset, FS_CardinalityType
<1>2. errors \in Nat /\ cuts \in Nat
  BY DEF TypeOK
<1>3. Cardinality(Uncreated) \in Nat /\ Cardinality(Undeleted) \in Nat
        /\ Cardinality(Uncreated) + Cardinality(Undeleted) <= errors + cuts
  BY UnrecordedAreFinite DEF AuditedButFor
<1>4. Cardinality(Uncreated') + Cardinality(Undeleted') <= errors' + cuts'
  BY <1>1, <1>2, <1>3
<1> QED
  BY <1>4 DEF AuditedButFor

\* An error or a cut accounts for one snapshot that is not on record.
LEMMA AuditedButForOneMore ==
  ASSUME TypeOK, AuditedButFor, NEW x,
         \/ /\ Uncreated' \subseteq Uncreated \union {x}
            /\ Undeleted' \subseteq Undeleted
         \/ /\ Uncreated' \subseteq Uncreated
            /\ Undeleted' \subseteq Undeleted \union {x},
         \/ errors' = errors + 1 /\ cuts' = cuts
         \/ errors' = errors /\ cuts' = cuts + 1
  PROVE  AuditedButFor'
<1>0. ASSUME NEW S, IsFiniteSet(S), Cardinality(S) \in Nat
      PROVE  /\ IsFiniteSet(S \union {x})
             /\ Cardinality(S \union {x}) <= Cardinality(S) + 1
             /\ Cardinality(S \union {x}) \in Nat
  <2>1. /\ IsFiniteSet(S \union {x})
        /\ Cardinality(S \union {x}) =
             IF x \in S THEN Cardinality(S) ELSE Cardinality(S) + 1
    BY <1>0, FS_AddElement
  <2> QED
    BY <1>0, <2>1
<1>1. /\ IsFiniteSet(Uncreated \union {x}) /\ IsFiniteSet(Undeleted \union {x})
      /\ Cardinality(Uncreated \union {x}) <= Cardinality(Uncreated) + 1
      /\ Cardinality(Undeleted \union {x}) <= Cardinality(Undeleted) + 1
      /\ Cardinality(Uncreated \union {x}) \in Nat
      /\ Cardinality(Undeleted \union {x}) \in Nat
  BY <1>0, UnrecordedAreFinite
<1>2. errors \in Nat /\ cuts \in Nat
  BY DEF TypeOK
<1>3. ASSUME NEW S, NEW T, IsFiniteSet(S), T \subseteq S
      PROVE  Cardinality(T) <= Cardinality(S) /\ Cardinality(T) \in Nat
  BY <1>3, FS_Subset, FS_CardinalityType
<1>4. Cardinality(Uncreated') \in Nat /\ Cardinality(Undeleted') \in Nat
        /\ Cardinality(Uncreated') + Cardinality(Undeleted')
             <= Cardinality(Uncreated) + Cardinality(Undeleted) + 1
  <2>1. CASE Uncreated' \subseteq Uncreated \union {x} /\ Undeleted' \subseteq Undeleted
    BY <2>1, <1>1, <1>3, UnrecordedAreFinite
  <2>2. CASE Uncreated' \subseteq Uncreated /\ Undeleted' \subseteq Undeleted \union {x}
    BY <2>2, <1>1, <1>3, UnrecordedAreFinite
  <2> QED
    BY <2>1, <2>2
<1>5. Cardinality(Uncreated) \in Nat /\ Cardinality(Undeleted) \in Nat
        /\ Cardinality(Uncreated) + Cardinality(Undeleted) <= errors + cuts
  BY UnrecordedAreFinite DEF AuditedButFor
<1>6. Cardinality(Uncreated') + Cardinality(Undeleted') <= errors' + cuts'
  BY <1>2, <1>4, <1>5
<1> QED
  BY <1>6 DEF AuditedButFor

\* What happens to neither the snapshots nor the record of one.
AuditAlone ==
  /\ UNCHANGED <<made, shots, created, deleted>>
  /\ task \notin {"recordCreated", "recordDelete"}
       \/ UNCHANGED <<task, victim>>
  /\ errors' \in {errors, errors + 1} /\ cuts' \in {cuts, cuts + 1}

LEMMA AuditAloneKeeps ==
  ASSUME TypeOK, AuditedButFor, AuditAlone
  PROVE  AuditedButFor'
<1>1. Uncreated' \subseteq Uncreated /\ Undeleted' \subseteq Undeleted
  BY DEF AuditAlone, Uncreated, Undeleted
<1> QED
  BY <1>1, AuditedAsBefore DEF AuditAlone

\* A command that is cut off leaves at most one thing that is not on record.
LEMMA CutOffKeepsAudit ==
  ASSUME ControlInv, AuditedButFor, CutOff, UNCHANGED errors
  PROVE  AuditedButFor'
<1>0. TypeOK
  BY DEF ControlInv
<1>1. UNCHANGED <<victim, created, deleted>> /\ task' = "none"
  BY DEF CutOff
<1>2. CASE task \notin Working
  <2>1. AuditAlone
    BY <1>1, <1>2
    DEF CutOff, AuditAlone, Working, SnapshotTasks, RecordTasks
  <2> QED
    BY <1>0, <2>1, AuditAloneKeeps
<1>3. CASE task \in Working
  <2>0. errors' = errors /\ cuts' = cuts + 1
    BY <1>3 DEF CutOff
  <2>1. CASE MakeShot /\ task = "create"
    <3>1. made \in Nat /\ made' = made + 1 /\ shots' = shots \union {made'}
      BY <1>0, <2>1, MakeShotType
    <3>2. 1 .. made' = (1 .. made) \union {made'}
      BY <3>1
    <3>3. Uncreated' \subseteq Uncreated \union {made'}
            /\ Undeleted' \subseteq Undeleted
      BY <1>1, <2>1, <3>1, <3>2 DEF Uncreated, Undeleted
    <3> QED
      BY <1>0, <2>0, <3>3, AuditedButForOneMore
  <2>2. CASE UNCHANGED <<made, shots>> /\ task = "recordCreated"
    <3>1. Uncreated' \subseteq Uncreated \union {made}
            /\ Undeleted' \subseteq Undeleted
      BY <1>1, <2>2 DEF Uncreated, Undeleted
    <3> QED
      BY <1>0, <2>0, <3>1, AuditedButForOneMore
  <2>3. CASE UNCHANGED <<made, shots>> /\ task # "recordCreated"
    <3>1. Uncreated' \subseteq Uncreated
            /\ Undeleted' \subseteq Undeleted \union {victim}
      BY <1>1, <2>3 DEF Uncreated, Undeleted
    <3> QED
      BY <1>0, <2>0, <3>1, AuditedButForOneMore
  <2>4. ASSUME NEW s \in victims, shots' = shots \ {s}, UNCHANGED made,
               task = "delete"
        PROVE  AuditedButFor'
    <3>1. Uncreated' \subseteq Uncreated
            /\ Undeleted' \subseteq Undeleted \union {s}
      BY <1>1, <2>4 DEF Uncreated, Undeleted
    <3> QED
      BY <1>0, <2>0, <3>1, AuditedButForOneMore
  <2> QED
    BY <2>1, <2>2, <2>3, <2>4 DEF CutOff
<1> QED
  BY <1>2, <1>3

LEMMA AuditStep == ControlInv /\ AuditedButFor /\ [Next]_vars => AuditedButFor'
<1> SUFFICES ASSUME ControlInv, AuditedButFor, [Next]_vars
             PROVE  AuditedButFor'
  OBVIOUS
<1>0. TypeOK /\ TaskOfProcess /\ SubjectOfTask
  BY DEF ControlInv
<1> USE DEF Goto, At
<1>1. CASE AuditAlone
  BY <1>0, <1>1, AuditAloneKeeps
<1>2. CASE Create
  <2>1. made \in Nat /\ made' = made + 1 /\ shots' = shots \union {made'}
          /\ made' \notin created
    BY <1>0, <1>2, MakeShotType DEF Create
  <2>2. 1 .. made' = (1 .. made) \union {made'}
    BY <2>1
  <2>3. Uncreated' \subseteq Uncreated /\ Undeleted' \subseteq Undeleted
    BY <1>2, <2>1, <2>2 DEF Create, Uncreated, Undeleted
  <2> QED
    BY <1>0, <1>2, <2>3, AuditedAsBefore DEF Create, processVars
<1>3. CASE CreateFails
  <2>0. errors' = errors + 1 /\ cuts' = cuts
    BY <1>3 DEF CreateFails, Error, processVars
  <2>1. CASE MakeShot
    <3>1. made \in Nat /\ made' = made + 1 /\ shots' = shots \union {made'}
      BY <1>0, <2>1, MakeShotType
    <3>2. 1 .. made' = (1 .. made) \union {made'}
      BY <3>1
    <3>3. Uncreated' \subseteq Uncreated \union {made'}
            /\ Undeleted' \subseteq Undeleted
      BY <1>3, <3>1, <3>2 DEF CreateFails, Uncreated, Undeleted
    <3> QED
      BY <1>0, <2>0, <3>3, AuditedButForOneMore
  <2>2. CASE UNCHANGED <<shots, made, versionOf>>
    BY <1>0, <1>3, <2>0, <2>2, AuditAloneKeeps DEF CreateFails, AuditAlone
  <2> QED
    BY <1>3, <2>1, <2>2 DEF CreateFails
<1>4. CASE RecordCreated
  <2>1. task = "recordCreated" /\ task' # "recordCreated"
          /\ created' = created \union {made}
          /\ UNCHANGED <<made, shots, deleted, errors, cuts>>
    BY <1>4
    DEF RecordCreated, otherVars, AfterSnapshot, Finish, NotFinished
  <2>2. Uncreated' \subseteq Uncreated /\ Undeleted' \subseteq Undeleted
    BY <2>1 DEF Uncreated, Undeleted
  <2> QED
    BY <1>0, <2>1, <2>2, AuditedAsBefore
<1>5. CASE Delete
  <2>1. PICK s \in victims :
          /\ victim' = s
          /\ \/ shots' = shots \ {s} /\ UNCHANGED errors
             \/ Error /\ UNCHANGED shots
    BY <1>5 DEF Delete
  <2>2. task = "delete" /\ task' = "recordDelete"
          /\ UNCHANGED <<made, created, deleted, cuts>>
    BY <1>5 DEF Delete, processVars
  <2>3. Uncreated' \subseteq Uncreated /\ Undeleted' \subseteq Undeleted
    BY <2>1, <2>2 DEF Uncreated, Undeleted
  <2> QED
    BY <1>0, <2>1, <2>2, <2>3, AuditedAsBefore DEF Error
<1>6. CASE RecordDelete
  <2>1. task = "recordDelete" /\ task' # "recordDelete"
          /\ task' # "recordCreated" /\ deleted' = DeletedNow
          /\ UNCHANGED <<made, shots, created, errors, cuts>>
    BY <1>6
    DEF RecordDelete, otherVars, AfterSnapshot, Finish, NotFinished
  <2>2. Uncreated' \subseteq Uncreated /\ Undeleted' \subseteq Undeleted
    BY <2>1 DEF Uncreated, Undeleted, DeletedNow
  <2> QED
    BY <1>0, <2>1, <2>2, AuditedAsBefore
<1>7. CASE AppendFails
  <2>1. errors' = errors + 1 /\ task' = "dead" /\ task \in RecordTasks
          /\ UNCHANGED <<made, shots, created, deleted, cuts>>
    BY <1>7 DEF AppendFails, Error, processVars, shotVars
  <2>2. CASE task = "recordCreated"
    <3>1. Uncreated' \subseteq Uncreated \union {made}
            /\ Undeleted' \subseteq Undeleted
      BY <2>1, <2>2 DEF Uncreated, Undeleted
    <3> QED
      BY <1>0, <2>1, <3>1, AuditedButForOneMore
  <2>3. CASE task # "recordCreated"
    <3>1. Uncreated' \subseteq Uncreated
            /\ Undeleted' \subseteq Undeleted \union {victim}
      BY <2>1, <2>3 DEF Uncreated, Undeleted
    <3> QED
      BY <1>0, <2>1, <3>1, AuditedButForOneMore
  <2> QED
    BY <2>2, <2>3
<1>8. CASE Exit \/ Crash
  BY <1>8, CutOffKeepsAudit DEF Exit, Crash
<1>9. ASSUME \/ Wake \/ Check \/ CommandFails \/ Announce \/ Pull \/ Reinstall
             \/ ReinstallFails \/ RecordNotCreated \/ Prune \/ PruneFails \/ Warn
      PROVE  AuditAlone
  BY <1>9
  DEF Wake, Check, CommandFails, Announce, Pull, Reinstall, PipRuns, Error,
      ReinstallFails, RecordNotCreated, Prune, PruneFails, Warn, AuditAlone,
      shotVars, processVars, otherVars
<1>10. ASSUME Signal \/ Reexec \/ Start \/ Release \/ UNCHANGED vars
       PROVE  AuditAlone
  BY <1>0, <1>10
  DEF Signal, Reexec, Start, Release, vars, AuditAlone, TaskOfProcess,
      shotVars, processVars
<1> QED
  BY <1>1, <1>2, <1>3, <1>4, <1>5, <1>6, <1>7, <1>8, <1>9, <1>10
  DEF Next, Proceed

LEMMA AuditImplies == ControlInv /\ AuditedButFor => SnapshotsAudited
<1> SUFFICES ASSUME ControlInv, AuditedButFor PROVE SnapshotsAudited
  OBVIOUS
<1> DEFINE U == (1 .. made) \ created
           D == ((1 .. made) \ shots) \ deleted
<1>0. TypeOK /\ errors \in Nat /\ cuts \in Nat /\ made \in Nat
  BY DEF ControlInv, TypeOK
<1>1. IsFiniteSet(U) /\ Cardinality(U) \in Nat
        /\ IsFiniteSet(D) /\ Cardinality(D) \in Nat
  <2>1. IsFiniteSet(1 .. made)
    BY <1>0, FS_Interval
  <2> QED
    BY <2>1, FS_Subset, FS_CardinalityType
<1>2. /\ Uncreated = IF task = "recordCreated" THEN U \ {made} ELSE U
      /\ Undeleted = IF task = "recordDelete" THEN D \ {victim} ELSE D
  BY DEF Uncreated, Undeleted
<1> HIDE DEF U, D
<1>3. ASSUME NEW S, NEW x, IsFiniteSet(S), Cardinality(S) \in Nat
      PROVE  Cardinality(S) <= Cardinality(S \ {x}) + 1
               /\ Cardinality(S \ {x}) \in Nat
  <2>1. /\ IsFiniteSet(S \ {x})
        /\ Cardinality(S \ {x}) =
             IF x \in S THEN Cardinality(S) - 1 ELSE Cardinality(S)
    BY <1>3, FS_RemoveElement
  <2>2. Cardinality(S \ {x}) \in Nat
    BY <2>1, FS_CardinalityType
  <2> QED
    BY <1>3, <2>1, <2>2
<1>4. Cardinality(U) + Cardinality(D) <= errors + cuts
        + (IF task \in {"recordCreated", "recordDelete"} THEN 1 ELSE 0)
  <2>1. CASE task = "recordCreated"
    <3>1. Uncreated = U \ {made} /\ Undeleted = D
      BY <1>2, <2>1
    <3>2. Cardinality(U) <= Cardinality(Uncreated) + 1
            /\ Cardinality(Uncreated) \in Nat
      BY <1>1, <1>3, <3>1
    <3> QED
      BY <1>0, <1>1, <2>1, <3>1, <3>2 DEF AuditedButFor
  <2>2. CASE task = "recordDelete"
    <3>1. Uncreated = U /\ Undeleted = D \ {victim}
      BY <1>2, <2>2
    <3>2. Cardinality(D) <= Cardinality(Undeleted) + 1
            /\ Cardinality(Undeleted) \in Nat
      BY <1>1, <1>3, <3>1
    <3> QED
      BY <1>0, <1>1, <2>2, <3>1, <3>2 DEF AuditedButFor
  <2>3. CASE task \notin {"recordCreated", "recordDelete"}
    BY <1>0, <1>1, <1>2, <2>3 DEF AuditedButFor
  <2> QED
    BY <2>1, <2>2, <2>3
<1> QED
  BY <1>4 DEF SnapshotsAudited, U, D

-----------------------------------------------------------------------------
(* The snapshot to go back to *)

LEMMA PlacesAreFinite ==
  ASSUME TypeOK, NEW s
  PROVE  IsFiniteSet({t \in shots : t > s}) /\ Place(s) \in Nat
<1>1. IsFiniteSet(1 .. made)
  BY FS_Interval DEF TypeOK
<1>2. {t \in shots : t > s} \in SUBSET (1 .. made)
  BY DEF TypeOK
<1> QED
  BY <1>1, <1>2, FS_Subset, FS_CardinalityType DEF Place

\* What was made last is first in the listing, and never in the excess; what was
\* made before it is second at most.
LEMMA NewestIsKept ==
  ASSUME TypeOK, config.keepLast > 0
  PROVE  /\ made \notin Excess
         /\ config.keepLast # 1 => made - 1 \notin Excess
<1>0. made \in Nat /\ config.keepLast \in Nat /\ shots \subseteq 1 .. made
  BY DEF TypeOK, Config
<1>00. \A t \in shots : t \in Nat /\ t <= made
  BY <1>0
<1>1. {t \in shots : t > made} = {}
  <2>1. \A t \in shots : ~(t > made)
    BY <1>0, <1>00
  <2> QED
    BY <2>1, Zenon
<1>2. Place(made) = 0
  BY <1>1, FS_EmptySet DEF Place
<1>3. {t \in shots : t > made - 1} \in SUBSET {made}
  <2>1. \A t \in shots : t > made - 1 => t = made
    BY <1>0, <1>00
  <2> QED
    BY <2>1, Zenon
<1>4. Place(made - 1) <= 1
  <2>1. IsFiniteSet({made}) /\ Cardinality({made}) = 1
    BY FS_Singleton
  <2> QED
    BY <1>3, <2>1, FS_Subset DEF Place
<1>5. Place(made - 1) \in Nat
  BY PlacesAreFinite
<1> QED
  BY <1>0, <1>2, <1>4, <1>5 DEF Excess

LEMMA RollbackStep ==
  ControlInv /\ RollbackKept /\ [Next]_vars => RollbackKept'
<1> SUFFICES ASSUME ControlInv, RollbackKept, [Next]_vars PROVE RollbackKept'
  OBVIOUS
<1>0. TypeOK /\ TaskOfProcess /\ RoundOfTask /\ SubjectOfTask /\ RollbackKept
  BY DEF ControlInv
<1>00. made \in Nat /\ config.keepLast \in Nat /\ round \in {"pre", "post"}
         /\ shots \subseteq 1 .. made /\ victims \subseteq shots
  BY <1>0 DEF TypeOK, Config
<1> USE DEF Goto, NotFinished, At, RecordTasks, Pruning, Preserved
<1> USE DEF TaskOfProcess, RoundOfTask, SubjectOfTask
<1> USE DEF treeVars, processVars, shotVars, otherVars
<1>1. CASE Wake
  BY <1>0, <1>00, <1>1 DEF Wake, RollbackKept
<1>2. CASE Check
  BY <1>0, <1>00, <1>2 DEF Check, RollbackKept
<1>3. CASE CommandFails
  BY <1>0, <1>00, <1>3 DEF CommandFails, RollbackKept
<1>4. CASE Announce
  BY <1>0, <1>00, <1>4 DEF Announce, RollbackKept
<1>5. CASE Pull
  BY <1>0, <1>00, <1>5 DEF Pull, AfterInstall, Finish, RollbackKept
<1>6. CASE Reinstall
  BY <1>0, <1>00, <1>6 DEF Reinstall, AfterInstall, Finish, RollbackKept
<1>7. CASE ReinstallFails
  BY <1>0, <1>00, <1>7 DEF ReinstallFails, RollbackKept
<1>8. CASE Create
  <2>1. /\ made' = made + 1 /\ shots' = shots \union {made'}
        /\ versionOf'[made'] = head
        /\ \A s \in 1 .. made : versionOf'[s] = versionOf[s]
    BY <1>0, <1>8, MakeShotType DEF Create
  <2>2. made' - 1 = made /\ victims' = {} /\ UNCHANGED <<before, head>>
    BY <1>0, <1>00, <1>8, <2>1 DEF Create
  <2> QED
    BY <1>0, <1>00, <1>8, <2>1, <2>2 DEF Create, RollbackKept
<1>9. CASE CreateFails
  <2>1. CASE MakeShot
    <3>1. /\ made' = made + 1 /\ shots' = shots \union {made'}
          /\ versionOf'[made'] = head
          /\ \A s \in 1 .. made : versionOf'[s] = versionOf[s]
      BY <1>0, <2>1, MakeShotType
    <3> QED
      BY <1>0, <1>00, <1>9, <3>1 DEF CreateFails, RollbackKept
  <2>2. CASE UNCHANGED <<shots, made, versionOf>>
    BY <1>0, <1>00, <1>9, <2>2 DEF CreateFails, RollbackKept
  <2> QED
    BY <1>9, <2>1, <2>2 DEF CreateFails
<1>10. CASE RecordCreated
  BY <1>0, <1>00, <1>10 DEF RecordCreated, AfterSnapshot, Finish, RollbackKept
<1>11. CASE RecordNotCreated
  BY <1>0, <1>00, <1>11 DEF RecordNotCreated, RollbackKept
<1>12. CASE Prune
  <2>1. /\ made \notin Excess
        /\ config.keepLast # 1 => made - 1 \notin Excess
    BY <1>0, <1>12, NewestIsKept DEF Prune
  <2>2. config.snapshots /\ phase # "down" =>
        /\ round = "pre" => Preserved(made, head)'
        /\ round = "post" /\ config.keepLast # 1 => Preserved(made - 1, before)'
    BY <1>0, <1>12, <2>1 DEF Prune, RollbackKept
  <2> QED
    BY <1>0, <1>00, <1>12, <2>2 DEF Prune, AfterSnapshot, Finish, RollbackKept
<1>13. CASE PruneFails
  BY <1>0, <1>00, <1>13 DEF PruneFails, RollbackKept
<1>14. CASE Delete
  BY <1>0, <1>00, <1>14 DEF Delete, RollbackKept
<1>15. CASE RecordDelete
  BY <1>0, <1>00, <1>15 DEF RecordDelete, AfterSnapshot, Finish, RollbackKept
<1>16. CASE Warn
  BY <1>0, <1>00, <1>16 DEF Warn, Finish, RollbackKept
<1>17. CASE AppendFails
  BY <1>0, <1>00, <1>17 DEF AppendFails, RollbackKept
<1>18. CASE Signal
  BY <1>0, <1>00, <1>18 DEF Signal, RollbackKept
<1>19. CASE Exit
  BY <1>0, <1>00, <1>19 DEF Exit, CutOff, RollbackKept
<1>20. CASE Reexec
  BY <1>0, <1>00, <1>20 DEF Reexec, RollbackKept
<1>21. CASE Crash
  BY <1>0, <1>00, <1>21 DEF Crash, CutOff, RollbackKept
<1>22. CASE Start
  BY <1>0, <1>00, <1>22 DEF Start, RollbackKept
<1>23. CASE Release
  BY <1>0, <1>00, <1>23 DEF Release, RollbackKept
<1>24. CASE UNCHANGED vars
  BY <1>0, <1>00, <1>24 DEF vars, RollbackKept
<1> QED
  BY <1>1, <1>2, <1>3, <1>4, <1>5, <1>6, <1>7, <1>8, <1>9, <1>10, <1>11, <1>12, <1>13, <1>14, <1>15, <1>16, <1>17, <1>18, <1>19, <1>20, <1>21, <1>22, <1>23, <1>24
  DEF Next, Proceed

-----------------------------------------------------------------------------
(* Pruning keeps up *)

LEMMA LeastOf ==
  ASSUME NEW S \in SUBSET Nat, S # {}
  PROVE  \E m \in S : \A n \in S : m <= n
<1> DEFINE less == OpToRel(<, Nat)
<1>1. IsWellFoundedOn(less, Nat)
  BY NatLessThanWellFounded, Zenon
<1> HIDE DEF less
<1>2. PICK m \in S : \A n \in S : ~(<<n, m>> \in less)
  BY <1>1, WFMin
<1>3. \A n \in S : ~(n < m)
  BY <1>2 DEF less, OpToRel
<1> QED
  BY <1>3

LEMMA GreatestOf ==
  ASSUME NEW k \in Nat, NEW S \in SUBSET (1 .. k), S # {}
  PROVE  \E m \in S : \A n \in S : n <= m
<1> DEFINE bounds == {b \in Nat : \A n \in S : n <= b}
<1>1. k \in bounds
  OBVIOUS
<1>2. PICK b \in bounds : \A c \in bounds : b <= c
  <2>1. bounds \in SUBSET Nat /\ bounds # {}
    BY <1>1
  <2> HIDE DEF bounds
  <2> QED
    BY <2>1, LeastOf
<1>3. b \in Nat /\ \A n \in S : n <= b
  OBVIOUS
<1>4. b \in S
  <2> SUFFICES ASSUME b \notin S PROVE FALSE
    OBVIOUS
  <2>1. \A n \in S : n \in Nat /\ n > 0 /\ n # b
    OBVIOUS
  <2>2. b > 0 /\ b - 1 \in Nat
    <3>1. PICK n \in S : TRUE
      OBVIOUS
    <3> QED
      BY <1>3, <2>1, <3>1
  <2>3. \A n \in S : n <= b - 1
    BY <1>3, <2>1, <2>2
  <2>4. b - 1 \in bounds
    BY <2>2, <2>3
  <2> QED
    BY <1>2, <1>3, <2>4
<1> QED
  BY <1>3, <1>4

\* With more snapshots than are kept, there is one just behind the last kept:
\* the newest of those that are not among the first keep_last.
LEMMA ExcessOfTooMany ==
  ASSUME TypeOK, Cardinality(shots) > config.keepLast
  PROVE  Excess # {}
<1> DEFINE k == config.keepLast
           S == {s \in shots : k <= Place(s)}
<1>0. made \in Nat /\ k \in Nat /\ shots \in SUBSET (1 .. made)
        /\ \A s \in shots : s \in Nat
  BY DEF TypeOK, Config
<1>1. IsFiniteSet(shots) /\ Cardinality(shots) \in Nat
  <2>1. IsFiniteSet(1 .. made)
    BY <1>0, FS_Interval
  <2> QED
    BY <1>0, <2>1, FS_Subset, FS_CardinalityType
<1>2. \A s : Place(s) \in Nat
  BY PlacesAreFinite
<1>3. shots # {}
  BY <1>0, <1>1, FS_EmptySet
\* The oldest has the last place.
<1>4. S # {}
  <2>1. PICK m \in shots : \A n \in shots : m <= n
    BY <1>0, <1>3, LeastOf
  <2>2. \A t \in shots : t > m <=> t # m
    BY <1>0, <2>1
  <2>3. {t \in shots : t > m} = shots \ {m}
    BY <2>2, Zenon
  <2>4. Place(m) = Cardinality(shots) - 1
    BY <1>1, <2>1, <2>3, FS_RemoveElement DEF Place
  <2>5. k <= Place(m)
    BY <1>0, <1>1, <2>4
  <2> QED
    BY <2>1, <2>5
<1>5. PICK s \in S : \A n \in S : n <= s
  <2>1. S \in SUBSET (1 .. made)
    BY <1>0
  <2> HIDE DEF S
  <2> QED
    BY <1>0, <1>4, <2>1, GreatestOf
<1>6. Place(s) = k
  <2> SUFFICES ASSUME Place(s) # k PROVE FALSE
    OBVIOUS
  <2> DEFINE newer == {t \in shots : t > s}
  <2>1. IsFiniteSet(newer) /\ Place(s) = Cardinality(newer) /\ Place(s) > k
    BY <1>0, <1>2, PlacesAreFinite DEF Place
  <2>2. newer # {}
    BY <1>0, <2>1, FS_EmptySet
  <2>3. PICK t \in newer : \A u \in newer : t <= u
    <3>1. newer \in SUBSET Nat
      BY <1>0
    <3> HIDE DEF newer
    <3> QED
      BY <2>2, <3>1, LeastOf
  <2>4. \A u \in shots : u > t <=> (u > s /\ u # t)
    BY <1>0, <2>3
  <2>5. {u \in shots : u > t} = newer \ {t}
    BY <2>4, Zenon
  <2>6. Place(t) = Place(s) - 1
    BY <2>1, <2>3, <2>5, FS_RemoveElement, FS_CardinalityType DEF Place
  <2>7. k <= Place(t)
    BY <1>0, <1>2, <2>1, <2>6
  <2> QED
    BY <1>0, <1>5, <2>3, <2>7
<1> QED
  BY <1>0, <1>6, UpdateAssumption DEF Excess

LEMMA ShotsAreFinite ==
  ASSUME TypeOK
  PROVE  /\ IsFiniteSet(shots) /\ Cardinality(shots) \in Nat
         /\ \A T \in SUBSET shots :
              /\ IsFiniteSet(T) /\ Cardinality(T) \in Nat
              /\ Cardinality(T) <= Cardinality(shots)
<1>1. IsFiniteSet(1 .. made)
  BY FS_Interval DEF TypeOK
<1>2. shots \in SUBSET (1 .. made)
  BY DEF TypeOK
<1>3. IsFiniteSet(shots)
  BY <1>1, <1>2, FS_Subset
<1> QED
  BY <1>3, FS_Subset, FS_CardinalityType

\* What the listing shows too many of is at least one, if there are too many.
LEMMA PruneIsEnough ==
  ASSUME TypeOK, NEW n \in Nat, config.keepLast <= n,
         Cardinality(shots) <= n + 1
  PROVE  Cardinality(shots \ Excess) <= n
<1>0. config.keepLast \in Nat
  BY DEF TypeOK, Config
<1>1. Cardinality(shots) \in Nat /\ IsFiniteSet(shots)
        /\ Cardinality(shots \ Excess) \in Nat
        /\ Cardinality(shots \ Excess) <= Cardinality(shots)
  BY ShotsAreFinite
<1>2. CASE Cardinality(shots) <= n
  BY <1>1, <1>2
<1>3. CASE Cardinality(shots) > n
  <2>1. PICK s \in Excess : TRUE
    BY <1>0, <1>1, <1>3, ExcessOfTooMany
  <2>2. s \in shots /\ shots \ Excess \in SUBSET (shots \ {s})
    BY <2>1 DEF Excess
  <2>3. IsFiniteSet(shots \ {s}) /\ Cardinality(shots \ {s}) = Cardinality(shots) - 1
    BY <1>1, <2>2, FS_RemoveElement
  <2>4. Cardinality(shots \ Excess) <= Cardinality(shots \ {s})
    BY <2>2, <2>3, FS_Subset
  <2> QED
    BY <1>1, <2>3, <2>4
<1> QED
  BY <1>1, <1>2, <1>3

\* The tasks during which there may be one more.
Busy == {"recordCreated", "list"} \union Pruning

\* One more error, or one more cut.
Counted ==
  \/ errors' = errors + 1 /\ cuts' = cuts
  \/ errors' = errors /\ cuts' = cuts + 1
Uncounted == errors' = errors /\ cuts' = cuts

LEMMA PruningInit == Init => PruningEnough
<1> SUFFICES ASSUME Init, config.keepLast > 0 PROVE PruningEnough
  BY DEF PruningEnough
<1>1. config.keepLast \in Nat
  BY DEF Init, Config
<1>2. Cardinality(shots) = 0 /\ task = "check" /\ errors = 0 /\ cuts = 0
  BY FS_EmptySet DEF Init
<1> QED
  BY <1>1, <1>2 DEF PruningEnough, Allowed, Pruning

LEMMA PruningStep == ControlInv /\ PruningEnough /\ [Next]_vars => PruningEnough'
<1> SUFFICES ASSUME ControlInv, PruningEnough, [Next]_vars PROVE PruningEnough'
  OBVIOUS
<1>0. TypeOK /\ TaskOfProcess /\ SubjectOfTask
  BY DEF ControlInv
<1>c. config' = config
  BY DEF Next, Proceed, Wake, Check, CommandFails, Announce, Pull, Reinstall,
         ReinstallFails, Create, CreateFails, RecordCreated, RecordNotCreated,
         Prune, PruneFails, Delete, RecordDelete, Warn, AppendFails, Signal,
         Exit, Crash, CutOff, Reexec, Start, Release, vars
<1> SUFFICES ASSUME config.keepLast > 0 PROVE PruningEnough'
  BY <1>c DEF PruningEnough
<1> DEFINE k == config.keepLast
           n == Cardinality(shots)
           m == Cardinality(shots \ victims)
<1>1. /\ k \in Nat /\ errors \in Nat /\ cuts \in Nat /\ n \in Nat /\ m \in Nat
      /\ IsFiniteSet(shots) /\ IsFiniteSet(shots \ victims) /\ m <= n
  BY <1>0, ShotsAreFinite DEF TypeOK, Config
<1>2. /\ n <= k + errors + cuts + (IF task \in Busy THEN 1 ELSE 0)
      /\ task \in Pruning => m <= k + errors + cuts
  BY DEF PruningEnough, Allowed, Busy
<1>3. ASSUME /\ Cardinality(shots') <= k + errors' + cuts'
                   + (IF task' \in Busy THEN 1 ELSE 0)
             /\ task' \in Pruning =>
                  Cardinality(shots' \ victims') <= k + errors' + cuts'
      PROVE  PruningEnough'
  BY <1>c, <1>3 DEF PruningEnough, Allowed, Busy
<1> HIDE DEF k, n, m
\* Where neither the snapshots nor the victims change.
<1>4. ASSUME UNCHANGED <<shots, victims>>, Uncounted,
             task \in Busy => task' \in Busy,
             task' \in Pruning => task \in Pruning
      PROVE  PruningEnough'
  <2>1. Cardinality(shots') = n /\ Cardinality(shots' \ victims') = m
    BY <1>4 DEF n, m
  <2> QED
    BY <1>1, <1>2, <1>3, <1>4, <2>1 DEF Uncounted
<1>5. ASSUME UNCHANGED shots, Counted, task' \notin Pruning
      PROVE  PruningEnough'
  <2>1. Cardinality(shots') = n
    BY <1>5 DEF n
  <2> QED
    BY <1>1, <1>2, <1>3, <1>5, <2>1 DEF Counted
<1>6. ASSUME NEW s, s \notin shots, shots' = shots \union {s}, task \notin Busy,
             \/ Uncounted /\ task' \in Busy \ Pruning
             \/ Counted /\ task' \notin Busy
      PROVE  PruningEnough'
  <2>1. Cardinality(shots') = n + 1
    BY <1>1, <1>6, FS_AddElement DEF n
  <2> QED
    BY <1>1, <1>2, <1>3, <1>6, <2>1 DEF Counted, Uncounted, Busy
<1> USE DEF Goto, At
<1>7. CASE Create
  <2>1. made' \notin shots /\ shots' = shots \union {made'}
    BY <1>0, <1>7, MakeShotType DEF Create
  <2>2. Uncounted /\ task \notin Busy /\ task' \in Busy \ Pruning
    BY <1>7 DEF Create, Uncounted, processVars, Busy, Pruning
  <2> QED
    BY <1>6, <2>1, <2>2
<1>8. CASE CreateFails
  <2>1. Counted /\ task \notin Busy /\ task' \notin Busy
    BY <1>8 DEF CreateFails, Error, Counted, processVars, Busy, Pruning
  <2>2. CASE MakeShot
    <3>1. made' \notin shots /\ shots' = shots \union {made'}
      BY <1>0, <2>2, MakeShotType
    <3> QED
      BY <1>6, <2>1, <3>1
  <2>3. CASE UNCHANGED <<shots, made, versionOf>>
    BY <1>5, <2>1, <2>3 DEF Busy
  <2> QED
    BY <1>8, <2>2, <2>3 DEF CreateFails
<1>9. CASE Prune
  <2>1. victims' = Excess /\ UNCHANGED <<shots, errors, cuts>>
          /\ task \in Busy /\ (Excess # {} => task' \in Busy)
    BY <1>9 DEF Prune, otherVars, Busy, Pruning
  <2>2. Cardinality(shots \ Excess) <= k + errors + cuts
    BY <1>0, <1>1, <1>2, <2>1, PruneIsEnough DEF k, n
  <2>3. Excess = {} => shots \ Excess = shots
    OBVIOUS
  <2>4. task' \notin Busy => Cardinality(shots) <= k + errors + cuts
    BY <2>1, <2>2, <2>3
  <2> QED
    BY <1>1, <1>2, <1>3, <2>1, <2>2, <2>4 DEF n
<1>10. CASE Delete
  <2>1. PICK s \in victims :
          /\ victims' = victims \ {s}
          /\ \/ shots' = shots \ {s} /\ UNCHANGED errors
             \/ Error /\ UNCHANGED shots
    BY <1>10 DEF Delete
  <2>2. task \in Pruning /\ task' \in Pruning /\ cuts' = cuts
          /\ s \in shots
    BY <1>0, <1>10, <2>1 DEF Delete, processVars, Pruning, TypeOK
  <2>3. CASE shots' = shots \ {s} /\ UNCHANGED errors
    <3>1. shots' \ victims' = shots \ victims
      BY <2>1, <2>3
    <3>2. Cardinality(shots') = n - 1
      BY <1>1, <2>2, <2>3, FS_RemoveElement DEF n
    <3>3. Cardinality(shots' \ victims') = m
      BY <3>1 DEF m
    <3> QED
      BY <1>1, <1>2, <1>3, <2>2, <2>3, <3>2, <3>3 DEF Busy
  <2>4. CASE Error /\ UNCHANGED shots
    <3>1. shots' \ victims' = (shots \ victims) \union {s}
            /\ s \notin shots \ victims
      BY <2>1, <2>2, <2>4
    <3>2. Cardinality(shots' \ victims') = m + 1 /\ Cardinality(shots') = n
      BY <1>1, <2>4, <3>1, FS_AddElement DEF m, n
    <3> QED
      BY <1>1, <1>2, <1>3, <2>2, <2>4, <3>2 DEF Error, Busy
  <2> QED
    BY <2>1, <2>3, <2>4
<1>11. CASE RecordDelete
  <2>1. UNCHANGED <<shots, victims, errors, cuts>> /\ task \in Pruning
          /\ IF victims # {} THEN task' = "delete" ELSE task' \notin Busy
    BY <1>11
    DEF RecordDelete, otherVars, AfterSnapshot, Finish, NotFinished, Pruning,
        Busy
  <2>2. CASE victims # {}
    BY <1>4, <2>1, <2>2 DEF Uncounted, Pruning, Busy
  <2>3. CASE victims = {}
    <3>1. shots \ victims = shots
      BY <2>3
    <3>2. n <= k + errors + cuts
      BY <1>2, <2>1, <3>1 DEF n, m
    <3> QED
      BY <1>1, <1>3, <2>1, <2>3, <3>2 DEF n, Busy
  <2> QED
    BY <2>2, <2>3
<1>12. CASE Exit \/ Crash
  <2>1. task' = "none" /\ CutOff /\ errors' = errors
    BY <1>12 DEF Exit, Crash, CutOff
  <2>2. CASE task \notin Working
    <3>1. UNCHANGED <<shots, cuts>> /\ task \notin Busy
      BY <2>1, <2>2
      DEF CutOff, Working, SnapshotTasks, RecordTasks, Busy, Pruning
    <3>2. Cardinality(shots') = n
      BY <3>1 DEF n
    <3> QED
      BY <1>1, <1>2, <1>3, <2>1, <3>1, <3>2 DEF Pruning, Busy
  <2>3. CASE task \in Working
    <3>1. Counted
      BY <2>1, <2>3 DEF CutOff, Counted
    <3>2. CASE MakeShot /\ task = "create"
      <4>1. made' \notin shots /\ shots' = shots \union {made'}
        BY <1>0, <3>2, MakeShotType
      <4> QED
        BY <1>6, <2>1, <3>1, <3>2, <4>1 DEF Busy, Pruning
    <3>3. CASE UNCHANGED shots
      BY <1>5, <2>1, <3>1, <3>3 DEF Pruning
    <3>4. ASSUME NEW s \in victims, shots' = shots \ {s}
          PROVE  PruningEnough'
      <4>1. Cardinality(shots') = n - 1
        BY <1>0, <1>1, <3>4, FS_RemoveElement DEF n, TypeOK
      <4> QED
        BY <1>1, <1>2, <1>3, <2>1, <3>1, <4>1 DEF Counted, Pruning, Busy
    <3> QED
      BY <2>1, <3>2, <3>3, <3>4 DEF CutOff
  <2> QED
    BY <2>2, <2>3
<1>13. CASE CommandFails \/ ReinstallFails \/ PruneFails \/ AppendFails
  BY <1>5, <1>13
  DEF CommandFails, ReinstallFails, PruneFails, AppendFails, Error, Counted,
      processVars, shotVars, Pruning
<1>14. CASE Reinstall
  <2>1. Uncounted \/ Counted
    BY <1>14
    DEF Reinstall, PipRuns, Error, Counted, Uncounted, otherVars, shotVars
  <2>2. task \notin Busy /\ task' \notin Busy /\ UNCHANGED <<shots, victims>>
    BY <1>14
    DEF Reinstall, AfterInstall, Finish, NotFinished, shotVars, Busy, Pruning
  <2> QED
    BY <1>4, <1>5, <2>1, <2>2 DEF Busy
<1>15. CASE \/ Wake \/ Check \/ Announce \/ Pull \/ RecordCreated
            \/ RecordNotCreated \/ Warn
  BY <1>4, <1>15
  DEF Wake, Check, Announce, Pull, RecordCreated, RecordNotCreated, Warn,
      AfterInstall, Finish, NotFinished, Uncounted, shotVars, processVars,
      otherVars, Busy, Pruning
<1>16. CASE Signal \/ Reexec \/ Start \/ Release \/ UNCHANGED vars
  BY <1>0, <1>4, <1>16
  DEF Signal, Reexec, Start, Release, vars, Uncounted, shotVars, processVars,
      TaskOfProcess, Busy, Pruning
<1> QED
  BY <1>7, <1>8, <1>9, <1>10, <1>11, <1>12, <1>13, <1>14, <1>15, <1>16
  DEF Next, Proceed

-----------------------------------------------------------------------------
(* Everything *)

LEMMA UpdateInit == Init => UpdateInv
<1>1. Init => RollbackKept /\ CodeOfTree
  BY DEF Init, RollbackKept, CodeOfTree, Pruning
<1> QED
  BY <1>1, ControlInit, PruningInit, AuditInit DEF UpdateInv

LEMMA UpdateStep == UpdateInv /\ [Next]_vars => UpdateInv'
  BY ControlStep, RollbackStep, PruningStep, AuditStep, CodeOfTreeStep
  DEF UpdateInv

LEMMA UpdateImplies ==
  UpdateInv =>
    RollbackPoint /\ SnapshotsBounded /\ SnapshotsAudited /\ InstalledWithCode
<1> SUFFICES ASSUME UpdateInv
             PROVE  RollbackPoint /\ SnapshotsBounded /\ SnapshotsAudited
                      /\ InstalledWithCode
  OBVIOUS
<1>0. ControlInv /\ TypeOK /\ RoundOfTask
  BY DEF UpdateInv, ControlInv
<1>1. RollbackPoint
  <2> SUFFICES ASSUME config.snapshots, config.keepLast # 1, phase # "down",
                      round = "post",
                      task \in {"pip", "finished"} \union SnapshotTasks
               PROVE  \E s \in shots : versionOf[s] = before
    BY DEF RollbackPoint
  <2> QED
    BY DEF UpdateInv, RollbackKept, Preserved, SnapshotTasks, RecordTasks,
           Pruning
<1>2. SnapshotsBounded
  <2>1. {"recordCreated", "list"} \union Pruning =
          {"recordCreated", "list", "delete", "recordDelete"}
    BY DEF Pruning
  <2> QED
    BY <2>1 DEF UpdateInv, PruningEnough, Allowed, SnapshotsBounded
<1>3. SnapshotsAudited
  BY <1>0, AuditImplies DEF UpdateInv
<1>4. InstalledWithCode
  <2>1. errors \in Nat /\ cuts \in Nat /\ round \in {"pre", "post"}
    BY <1>0 DEF TypeOK
  <2> QED
    BY <1>0, <2>1 DEF UpdateInv, CodeOfTree, InstalledWithCode, RoundOfTask
<1> QED
  BY <1>1, <1>2, <1>3, <1>4

\* From the pull to the restart there is a snapshot of what was pulled over,
\* unless only one is kept (check_and_apply_update, _prune_snapshots).
THEOREM UpdatesCanBeUndone == Spec => []RollbackPoint
  BY UpdateInit, UpdateStep, UpdateImplies, PTL DEF Spec

\* Pruning keeps up with what is made, whatever fails (_prune_snapshots).
THEOREM SnapshotsStayBounded == Spec => []SnapshotsBounded
  BY UpdateInit, UpdateStep, UpdateImplies, PTL DEF Spec

\* What was made or deleted without a record of it is accounted for by an error
\* or a cut (create_snapshot, _prune_snapshots).
THEOREM SnapshotsAreAudited == Spec => []SnapshotsAudited
  BY UpdateInit, UpdateStep, UpdateImplies, PTL DEF Spec

\* The process runs with what pip installed for its version, unless something
\* failed or was cut off (check_and_apply_update, os.execv in cli/main.py).
THEOREM CodeIsInstalled == Spec => []InstalledWithCode
  BY UpdateInit, UpdateStep, UpdateImplies, PTL DEF Spec
=============================================================================
