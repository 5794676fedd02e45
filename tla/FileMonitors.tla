---------------------------- MODULE FileMonitors ----------------------------
(***************************************************************************)
(* The monitors that read files at an interval of their own: file          *)
(* integrity (monitors/file_integrity.py, file_integrity.py and its        *)
(* repository, with !integrity update of chat/command_handlers.py), and    *)
(* old files (monitors/old_files.py and its repository).                   *)
(*                                                                         *)
(* A row of monitor_state says when the last round was; it is written when *)
(* a round is over, so a round that is cut off comes again.  The baselines *)
(* are shared with the chat command.  The content of a file stands for its *)
(* hash; reading it awaits nothing.                                        *)
(***************************************************************************)
EXTENDS MonitorPasses

CONSTANTS
  FiFiles,           \* the files below a monitored path
  FiInterval,        \* verify_interval; also scan_interval
  FiMaxEdits,        \* bound: changes of a file
  FiMaxUpdates,      \* bound: uses of !integrity update
  OfDirs             \* watched_directories of old_files

ASSUME FilesAssumption ==
  /\ FiInterval \in Nat /\ FiMaxEdits \in Nat /\ FiMaxUpdates \in Nat

Contents == {"original", "altered"}
None == "none"                   \* no baseline, or no such file

VARIABLES
  fiDirectory,       \* monitored_paths names their directory; fixed
  fiHost,            \* the content of each file
  fiBaseline,        \* file_integrity_baselines: expected_sha256
  fiLast,            \* the row of the last round
  fiRun,             \* the round of the monitor
  fiChat,            \* the update from chat
  fiEdits, fiUpdates,
  fiOwed,            \* history: files that differ since the round began
  ofRun,
  ofLast,
  ofRows,            \* the newest scan of each directory, as the connection
  ofStored           \* sees it, and as committed

integrityVars == <<fiDirectory, fiHost, fiBaseline, fiLast, fiRun, fiChat, fiEdits,
                   fiUpdates, fiOwed>>
oldFilesVars == <<ofRun, ofLast, ofRows, ofStored>>

FiSteps == {"asleep", "due", "baseline", "hash", "record", "create", "publish",
            "setState"}
FiIdle == [pc |-> "asleep", left |-> {}, file |-> None, at |-> 0,
           expected |-> None, alarm |-> FALSE]
FiChatSteps == {"idle", "upsert", "record", "audit"}
FiChatIdle == [pc |-> "idle", left |-> {}, file |-> None, hash |-> None]
OfSteps == {"asleep", "due", "scan", "insert", "entries", "commit", "setState"}
OfIdle == [pc |-> "asleep", left |-> {}, dir |-> None, at |-> 0]

FilesTypeOK ==
  /\ fiDirectory \in BOOLEAN
  /\ fiHost \in [FiFiles -> Contents \union {None}]
  /\ fiBaseline \in [FiFiles -> Contents \union {None}]
  /\ fiLast \in MoStamps /\ ofLast \in MoStamps
  /\ fiRun \in [pc : FiSteps, left : SUBSET FiFiles,
                file : FiFiles \union {None}, at : MoTimes,
                expected : Contents \union {None}, alarm : BOOLEAN]
  /\ fiChat \in [pc : FiChatSteps, left : SUBSET FiFiles,
                 file : FiFiles \union {None}, hash : Contents \union {None}]
  /\ fiEdits \in 0 .. FiMaxEdits /\ fiUpdates \in 0 .. FiMaxUpdates
  /\ fiOwed \subseteq FiFiles
  /\ ofRun \in [pc : OfSteps, left : SUBSET OfDirs,
                dir : OfDirs \union {None}, at : MoTimes]
  /\ ofRows \in [OfDirs -> {None, "scan", "entries"}]
  /\ ofStored \in [OfDirs -> {None, "scan", "entries"}]

FilesInit ==
  /\ fiDirectory \in {watched = "file_integrity", FALSE}
  /\ fiHost = [f \in FiFiles |-> "original"]
  /\ \/ fiBaseline = [f \in FiFiles |-> None]
     \/ watched = "file_integrity" /\ fiBaseline = fiHost
  /\ fiLast = NotYet /\ fiRun = FiIdle /\ fiChat = FiChatIdle
  /\ fiEdits = 0 /\ fiUpdates = 0 /\ fiOwed = {}
  /\ ofRun = OfIdle /\ ofLast = NotYet /\ ofRows = [d \in OfDirs |-> None]
  /\ ofStored = ofRows

-----------------------------------------------------------------------------
(* FileIntegrityMonitor.collect *)

FiAt(pc) == watched = "file_integrity" /\ moUp /\ fiRun.pc = pc
FiGoto(pc) == fiRun' = [fiRun EXCEPT !.pc = pc]
FiKeeps == UNCHANGED <<fiDirectory, fiHost, fiChat, fiEdits, fiUpdates>>

\* expand_monitored_targets: what is below a directory now, and a path that is
\* no directory in any case.
FiTargets ==
  IF fiDirectory THEN {f \in FiFiles : fiHost[f] # None} ELSE FiFiles

\* A file that had a baseline and is gone, or is another than its baseline.
FiDiffers(f) == fiBaseline[f] # None /\ fiHost[f] # fiBaseline[f]

FiBegin ==
  /\ FiAt("asleep") /\ PassBegins
  /\ fiRun' = [FiIdle EXCEPT !.pc = "due", !.left = FiTargets, !.at = moNow]
  /\ PassGoesOn /\ FiKeeps /\ UNCHANGED <<fiBaseline, fiLast, fiOwed>>

FiDueAt(t) == fiLast = NotYet \/ t >= fiLast + FiInterval

\* What a pass awaits when it has come to its next target.
FiNext(r) == [r EXCEPT !.pc = IF r.left = {} THEN "setState" ELSE "baseline",
                       !.file = None, !.expected = None, !.alarm = FALSE]

\* _is_verification_due
FiIsDue ==
  /\ FiAt("due")
  /\ IF FiDueAt(fiRun.at)
     THEN /\ fiRun' = FiNext(fiRun) /\ PassGoesOn
          /\ fiOwed' = {f \in fiRun.left : FiDiffers(f)}
     ELSE fiRun' = FiIdle /\ PassEnds /\ UNCHANGED fiOwed
  /\ FiKeeps /\ UNCHANGED <<fiBaseline, fiLast>>

\* get_baseline; the query is answered before collect goes on.
FiBaselineRead(f) ==
  /\ FiAt("baseline") /\ f \in fiRun.left
  /\ fiRun' = [fiRun EXCEPT !.pc = "hash", !.file = f, !.left = @ \ {f},
                            !.expected = fiBaseline[f]]
  /\ PassGoesOn /\ FiKeeps /\ UNCHANGED <<fiBaseline, fiLast, fiOwed>>

\* Mutant: a file that is gone has no hash to compare, and is passed over.
FiSparesMissing(r, actual) ==
  CASE actual = None \/ actual = r.expected -> [r EXCEPT !.pc = "record"]
    [] r.expected = None -> [r EXCEPT !.pc = "create", !.expected = actual]
    [] OTHER -> [r EXCEPT !.pc = "record", !.alarm = TRUE]

\* _verify_target: a file without baseline gets one, unless it does not exist.
FiVerdict(r, actual) ==
  CASE actual = None /\ r.expected = None -> FiNext(r)
    [] actual # None /\ r.expected = None ->
         [r EXCEPT !.pc = "create", !.expected = actual]
    [] OTHER -> [r EXCEPT !.pc = "record", !.alarm = actual # r.expected]

FiHashed ==
  /\ FiAt("hash")
  /\ fiRun' = FiVerdict(fiRun, fiHost[fiRun.file])
  /\ PassGoesOn /\ FiKeeps /\ UNCHANGED <<fiBaseline, fiLast, fiOwed>>

\* The file cannot be read: that is recorded, and nobody is told.
FiUnreadable ==
  /\ FiAt("hash") /\ fiHost[fiRun.file] # None
  /\ FiGoto("record") /\ Tolerated
  /\ fiOwed' = fiOwed \ {fiRun.file}
  /\ FiKeeps /\ UNCHANGED <<fiBaseline, fiLast>>

\* upsert_baseline
FiCreated ==
  /\ FiAt("create")
  /\ fiBaseline' = [fiBaseline EXCEPT ![fiRun.file] = fiRun.expected]
  /\ FiGoto("record")
  /\ PassGoesOn /\ FiKeeps /\ UNCHANGED <<fiLast, fiOwed>>

\* record_verification: the event and the status, committed together.
FiRecorded ==
  /\ FiAt("record")
  /\ IF fiRun.alarm THEN FiGoto("publish") ELSE fiRun' = FiNext(fiRun)
  /\ PassGoesOn /\ FiKeeps /\ UNCHANGED <<fiBaseline, fiLast, fiOwed>>

FiPublished ==
  /\ FiAt("publish")
  /\ fiRun' = FiNext(fiRun)
  /\ fiOwed' = fiOwed \ {fiRun.file}
  /\ PassGoesOn /\ FiKeeps /\ UNCHANGED <<fiBaseline, fiLast>>

FiStateSet ==
  /\ FiAt("setState")
  /\ fiLast' = fiRun.at
  /\ fiRun' = FiIdle
  /\ PassEnds /\ FiKeeps /\ UNCHANGED <<fiBaseline, fiOwed>>

FiRaises ==
  /\ \E pc \in {"due", "baseline", "create", "record", "setState"} : FiAt(pc)
  /\ fiRun' = FiIdle
  /\ PassRaises /\ FiKeeps /\ UNCHANGED <<fiBaseline, fiLast, fiOwed>>

-----------------------------------------------------------------------------
(* _handle_integrity_update *)

FiChatAt(pc) == watched = "file_integrity" /\ moUp /\ fiChat.pc = pc
FiChatKeeps == UNCHANGED <<fiDirectory, fiHost, fiLast, fiRun, fiEdits>>

\* The next file is hashed, before the statement that stores the hash.  One
\* that was deleted since the directory was listed ends the command.
FiHashes(files) ==
  \E f \in files :
    fiChat' = IF fiHost[f] = None THEN FiChatIdle
              ELSE [pc |-> "upsert", left |-> files \ {f}, file |-> f,
                    hash |-> fiHost[f]]

\* An admin asks for one file, or for the directory with what is in it.
FiUpdateAsked ==
  /\ FiChatAt("idle") /\ fiUpdates < FiMaxUpdates
  /\ fiUpdates' = fiUpdates + 1
  /\ LET there == {f \in FiFiles : fiHost[f] # None} IN
     \/ \E f \in there : FiHashes({f})
     \/ fiDirectory /\ FiHashes(there)
  /\ PassGoesOn /\ FiChatKeeps /\ UNCHANGED <<fiBaseline, fiOwed>>

FiUpserted ==
  /\ FiChatAt("upsert")
  /\ fiBaseline' = [fiBaseline EXCEPT ![fiChat.file] = fiChat.hash]
  /\ fiOwed' = fiOwed \ {fiChat.file}
  /\ fiChat' = [fiChat EXCEPT !.pc = "record"]
  /\ PassGoesOn /\ FiChatKeeps /\ UNCHANGED fiUpdates

FiUpdateRecorded ==
  /\ FiChatAt("record")
  /\ IF fiChat.left = {} THEN fiChat' = [FiChatIdle EXCEPT !.pc = "audit"]
     ELSE FiHashes(fiChat.left)
  /\ PassGoesOn /\ FiChatKeeps /\ UNCHANGED <<fiBaseline, fiUpdates, fiOwed>>

\* The audit record is made, and the reply sent; or a statement raises.
FiUpdateEnds ==
  /\ \/ FiChatAt("audit") /\ PassGoesOn
     \/ (\E pc \in {"upsert", "record", "audit"} : FiChatAt(pc)) /\ Tolerated
  /\ fiChat' = FiChatIdle
  /\ FiChatKeeps /\ UNCHANGED <<fiBaseline, fiUpdates, fiOwed>>

\* Somebody writes to a file, or deletes it.
FiEdit(f) ==
  /\ watched = "file_integrity" /\ fiEdits < FiMaxEdits
  /\ fiEdits' = fiEdits + 1
  /\ \E content \in (Contents \union {None}) \ {fiHost[f]} :
       fiHost' = [fiHost EXCEPT ![f] = content]
  /\ fiOwed' = fiOwed \ {f}
  /\ PassGoesOn
  /\ UNCHANGED <<fiDirectory, fiBaseline, fiLast, fiRun, fiChat, fiUpdates>>

FiNextStep ==
  \/ FiBegin \/ FiIsDue \/ (\E f \in FiFiles : FiBaselineRead(f)) \/ FiHashed
  \/ FiUnreadable \/ FiCreated \/ FiRecorded \/ FiPublished \/ FiStateSet
  \/ FiRaises \/ FiUpdateAsked \/ FiUpserted \/ FiUpdateRecorded
  \/ FiUpdateEnds \/ (\E f \in FiFiles : FiEdit(f))

-----------------------------------------------------------------------------
(* OldFilesMonitor.collect *)

OfAt(pc) == watched = "old_files" /\ moUp /\ ofRun.pc = pc
OfGoto(pc) == ofRun' = [ofRun EXCEPT !.pc = pc]
OfNext(r) == [r EXCEPT !.dir = None,
                       !.pc = IF r.left = {} THEN "setState" ELSE "scan"]

OfBegin ==
  /\ OfAt("asleep") /\ PassBegins
  /\ ofRun' = [OfIdle EXCEPT !.pc = "due", !.left = OfDirs, !.at = moNow]
  /\ PassGoesOn /\ UNCHANGED <<ofLast, ofRows, ofStored>>

\* _is_scan_due
OfIsDue ==
  /\ OfAt("due")
  /\ IF ofLast = NotYet \/ ofRun.at >= ofLast + FiInterval
     THEN ofRun' = OfNext(ofRun) /\ PassGoesOn
     ELSE ofRun' = OfIdle /\ PassEnds
  /\ UNCHANGED <<ofLast, ofRows, ofStored>>

\* _scan_directory_sync, in a thread; a directory that is gone is passed over.
OfScanned(d) ==
  /\ OfAt("scan") /\ d \in ofRun.left
  /\ LET r == [ofRun EXCEPT !.left = @ \ {d}] IN
     \/ ofRun' = [r EXCEPT !.dir = d, !.pc = "insert"] /\ PassGoesOn
     \/ ofRun' = OfNext(r) /\ Tolerated
  /\ UNCHANGED <<ofLast, ofRows, ofStored>>

\* record_scan: the row of the scan, those of the files, and the commit.  What
\* raises is logged, and the next commit stores what there is.
OfRecords ==
  /\ \/ /\ OfAt("insert") /\ OfGoto("entries") /\ PassGoesOn
        /\ ofRows' = [ofRows EXCEPT ![ofRun.dir] = "scan"]
        /\ UNCHANGED ofStored
     \/ /\ OfAt("entries") /\ OfGoto("commit") /\ PassGoesOn
        /\ ofRows' = [ofRows EXCEPT ![ofRun.dir] = "entries"]
        /\ UNCHANGED ofStored
     \/ /\ OfAt("commit") /\ ofRun' = OfNext(ofRun) /\ PassGoesOn
        /\ ofStored' = ofRows /\ UNCHANGED ofRows
     \/ /\ OfAt("insert") \/ OfAt("entries") \/ OfAt("commit")
        /\ ofRun' = OfNext(ofRun) /\ Tolerated
        /\ UNCHANGED <<ofRows, ofStored>>
  /\ UNCHANGED ofLast

OfStateSet ==
  /\ OfAt("setState")
  /\ ofLast' = ofRun.at
  /\ ofRun' = OfIdle
  /\ ofStored' = ofRows
  /\ PassEnds /\ UNCHANGED ofRows

OfRaises ==
  /\ OfAt("due") \/ OfAt("setState")
  /\ ofRun' = OfIdle
  /\ PassRaises /\ UNCHANGED <<ofLast, ofRows, ofStored>>

OfNextStep ==
  \/ OfBegin \/ OfIsDue \/ (\E d \in OfDirs : OfScanned(d)) \/ OfRecords
  \/ OfStateSet \/ OfRaises

\* A new process: rounds and updates under way are gone, and
\* rows that nothing has committed.
FilesForget ==
  /\ fiRun' = FiIdle /\ fiChat' = FiChatIdle /\ ofRun' = OfIdle
  /\ ofRows' = ofStored
  /\ UNCHANGED <<fiDirectory, fiHost, fiBaseline, fiLast, fiEdits, fiUpdates,
                 fiOwed, ofLast, ofStored>>

FilesNext ==
  \/ FiNextStep /\ UNCHANGED oldFilesVars
  \/ OfNextStep /\ UNCHANGED integrityVars

-----------------------------------------------------------------------------
(* Properties *)

\* When the monitor rests because its last round is recent, everybody has been
\* told of each file that differed from its baseline when that round began and
\* still does: no error, restart or update from chat in between makes it pass
\* over one that could be read (FileIntegrityMonitor.collect, user story
\* US-030, line 14).
TamperingReported ==
  ~FiDueAt(moNow) /\ fiRun.pc \in {"asleep", "due"} => fiOwed = {}

\* A scan is stored with its files, or an error came between the two.
OldFilesWhole == \A d \in OfDirs : ofStored[d] = "scan" => moErrors > 0
=============================================================================
