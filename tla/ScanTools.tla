------------------------------ MODULE ScanTools ------------------------------
(***************************************************************************)
(* The tools that only look: the vulnerability scan (tools/vulnscan and    *)
(* db/vulnerability_repository.py), the 2FA audit (tools/twofa_audit) and  *)
(* the storage report (tools/storage).                                     *)
(*                                                                         *)
(* All components share one database connection, so a commit by any of     *)
(* them makes permanent what another has written so far.                   *)
(***************************************************************************)
EXTENDS ToolRuns

CONSTANTS
  VsScores,         \* hardening indexes lynis may report
  VsThreshold,      \* score_drop_alert_threshold
  TfStatuses,       \* statuses the audited accounts may have, all in all
  ScMaxRuns         \* bound: scans, and audits

ASSUME ScansAssumption ==
  VsScores \subseteq Nat /\ VsThreshold \in Nat /\ ScMaxRuns \in Nat

NoScore == -1
NoScan == 0

VARIABLES
  vsInstalled,      \* lynis is installed; fixed
  vsFile,           \* the score in lynis-report.dat, or NoScore
  vsBegun,          \* scans begun; the number of a scan is its scan_time
  vsStored,         \* vulnerability_scans: the score of each stored scan
  vsRun,
  vsBefore,         \* history: the scans stored when each scan began
  vsTold, vsCut,    \* history: scans whose drop was told; that were cut off
  tfBegun,
  tfRows,           \* rows of each audit, as the connection sees them
  tfStored,         \* and as committed
  tfRun,
  tfCut,            \* history: audits cut off between the first insert and the commit
  stRun

scanVars == <<vsInstalled, vsFile, vsBegun, vsStored, vsRun, vsBefore, vsTold, vsCut>>
auditVars == <<tfBegun, tfRows, tfStored, tfRun, tfCut>>
scansVars == <<scanVars, auditVars, stRun, runnerVars>>

Numbers == 1 .. ScMaxRuns
VsCallers == CallersOf("vulnscan")
VsSteps == {"idle", "due", "done", "lynis", "read", "query", "insert", "record",
            "publish", "drop", "recordOther"}
VsRuns == [pc : VsSteps, at : 0 .. ScMaxRuns, score : VsScores \union {NoScore},
           previous : 0 .. ScMaxRuns]
VsNoRun(pc) ==
  [pc |-> pc, at |-> 0, score |-> NoScore, previous |-> NoScan]

TfCallers == CallersOf("twofa_audit")
TfSteps == {"idle", "due", "done", "inspect", "insertRun", "insertAccounts",
            "commit", "record", "publish"}
TfRuns == [pc : TfSteps, at : 0 .. ScMaxRuns, statuses : SUBSET TfStatuses]
TfNoRun(pc) == [pc |-> pc, at |-> 0, statuses |-> {}]
Rows == {"none", "run", "accounts"}

StCallers == CallersOf("storage")
StSteps == {"idle", "due", "done", "report", "recordFailure", "record", "publish"}

ScansTypeOK ==
  /\ vsInstalled \in BOOLEAN
  /\ vsFile \in VsScores \union {NoScore}
  /\ vsBegun \in 0 .. ScMaxRuns /\ tfBegun \in 0 .. ScMaxRuns
  /\ DOMAIN vsStored \subseteq Numbers
  /\ \A n \in DOMAIN vsStored : vsStored[n] \in VsScores \union {NoScore}
  /\ vsRun \in [VsCallers -> VsRuns]
  /\ vsBefore \in [Numbers -> SUBSET Numbers]
  /\ vsTold \subseteq Numbers /\ vsCut \subseteq Numbers
  /\ tfRows \in [Numbers -> Rows] /\ tfStored \in [Numbers -> Rows]
  /\ tfRun \in [TfCallers -> TfRuns]
  /\ tfCut \subseteq Numbers
  /\ stRun \in [StCallers -> StSteps]

ScansInit ==
  /\ vsInstalled \in BOOLEAN /\ (vsInstalled => "vulnscan" \in enabled)
  /\ vsFile = NoScore /\ vsBegun = 0
  /\ vsStored = [n \in {} |-> NoScore]
  /\ vsRun = [c \in VsCallers |-> VsNoRun(Waiting(c))]
  /\ vsBefore = [n \in Numbers |-> {}] /\ vsTold = {} /\ vsCut = {}
  /\ tfBegun = 0
  /\ tfRows = [n \in Numbers |-> "none"] /\ tfStored = tfRows
  /\ tfRun = [c \in TfCallers |-> TfNoRun(Waiting(c))] /\ tfCut = {}
  /\ stRun = [c \in StCallers |-> Waiting(c)]

-----------------------------------------------------------------------------
(* VulnScanTool.run *)

VsAt(c, step) == Loaded("vulnscan") /\ vsRun[c].pc = step
VsGoto(c, r, step) == vsRun' = [vsRun EXCEPT ![c] = [r EXCEPT !.pc = step]]
VsEnd(c) == vsRun' = [vsRun EXCEPT ![c] = VsNoRun(Ended(c))]
VsOthers == UNCHANGED <<auditVars, stRun>>
VsLeaves ==
  NoFault /\ VsOthers /\ UNCHANGED <<vsInstalled, vsBegun, vsBefore>>

\* Without lynis the run records that it was skipped.
VsBegin(c) ==
  /\ VsAt(c, Waiting(c))
  /\ \/ /\ vsInstalled /\ vsBegun < ScMaxRuns
        /\ vsBegun' = vsBegun + 1
        /\ VsGoto(c, [VsNoRun("lynis") EXCEPT !.at = vsBegun + 1], "lynis")
        /\ vsBefore' = [vsBefore EXCEPT ![vsBegun + 1] = DOMAIN vsStored]
     \/ /\ ~vsInstalled
        /\ VsGoto(c, vsRun[c], "recordOther")
        /\ UNCHANGED <<vsBegun, vsBefore>>
  /\ NoFault /\ VsOthers /\ UNCHANGED <<vsInstalled, vsFile, vsStored, vsTold, vsCut>>

VsScored(c, score) == [vsRun[c] EXCEPT !.score = score]

\* lynis prints its index and writes its report, always to the same file; or it
\* fails.  Either may be without a score.
VsScanned(c) ==
  /\ VsAt(c, "lynis")
  /\ \/ /\ \E index \in VsScores \union {NoScore} :
             /\ \E printed \in {index, NoScore} :
                  VsGoto(c, VsScored(c, printed), "read")
             /\ vsFile' \in {index, NoScore}
        /\ NoFault
     \/ VsGoto(c, vsRun[c], "recordOther") /\ Fault /\ UNCHANGED vsFile
  /\ VsOthers
  /\ UNCHANGED <<vsInstalled, vsBegun, vsStored, vsBefore, vsTold, vsCut>>

\* _read_report and _parse_lynis_report: the score of the file or, when it has
\* none or cannot be read, the one that was printed; a file that may not be
\* read is a failure.
VsReadReport(c) ==
  /\ VsAt(c, "read")
  /\ \/ vsFile # NoScore /\ VsGoto(c, VsScored(c, vsFile), "query") /\ NoFault
     \/ vsFile = NoScore /\ VsGoto(c, vsRun[c], "query") /\ NoFault
     \/ VsGoto(c, vsRun[c], "query") /\ Fault
     \/ VsGoto(c, vsRun[c], "recordOther") /\ Fault
  /\ VsOthers
  /\ UNCHANGED <<vsInstalled, vsFile, vsBegun, vsStored, vsBefore, vsTold,
                 vsCut>>

Newest(scans) ==
  IF scans = {} THEN NoScan ELSE CHOOSE n \in scans : \A m \in scans : m <= n

\* latest_scan_before(scan_time)
LatestScanBefore(at) == Newest({n \in DOMAIN vsStored : n < at})

VsQueried(c) ==
  /\ VsAt(c, "query")
  /\ VsGoto(c, [vsRun[c] EXCEPT !.previous = LatestScanBefore(vsRun[c].at)],
            "insert")
  /\ VsLeaves /\ UNCHANGED <<vsFile, vsStored, vsTold, vsCut>>

\* record_scan: an insert, and the commit.
VsInserted(c) ==
  /\ VsAt(c, "insert")
  /\ vsStored' = [n \in DOMAIN vsStored \union {vsRun[c].at} |->
                    IF n = vsRun[c].at THEN vsRun[c].score ELSE vsStored[n]]
  /\ VsGoto(c, vsRun[c], "record")
  /\ VsLeaves /\ UNCHANGED <<vsFile, vsTold, vsCut>>

VsRecorded(c) ==
  /\ \/ VsAt(c, "record") /\ VsGoto(c, vsRun[c], "publish")
     \/ VsAt(c, "recordOther") /\ VsEnd(c)
  /\ VsLeaves /\ UNCHANGED <<vsFile, vsStored, vsTold, vsCut>>

IsDrop(previous, score) ==
  /\ previous # NoScore /\ score # NoScore
  /\ previous - score > VsThreshold

\* The summary is out; the score is compared with the one of the previous row.
VsCompared(c) ==
  /\ VsAt(c, "publish")
  /\ LET r == vsRun[c] IN
     IF r.previous # NoScan /\ IsDrop(vsStored[r.previous], r.score)
     THEN VsGoto(c, r, "drop") ELSE VsEnd(c)
  /\ VsLeaves /\ UNCHANGED <<vsFile, vsStored, vsTold, vsCut>>

VsDropTold(c) ==
  /\ VsAt(c, "drop")
  /\ VsEnd(c)
  /\ vsTold' = vsTold \union {vsRun[c].at}
  /\ VsLeaves /\ UNCHANGED <<vsFile, vsStored, vsCut>>

\* A statement, the append, or sudo and lynis not starting.
VsRaises(c) ==
  /\ \E step \in {"lynis", "query", "insert", "record", "recordOther"} :
       VsAt(c, step)
  /\ Raise(c) /\ VsEnd(c)
  /\ vsCut' = vsCut \union ({vsRun[c].at} \ {0})
  /\ VsOthers
  /\ UNCHANGED <<vsInstalled, vsFile, vsBegun, vsStored, vsBefore, vsTold>>

-----------------------------------------------------------------------------
(* TwoFactorAuditTool.run *)

TfAt(c, step) == Loaded("twofa_audit") /\ tfRun[c].pc = step
TfGoto(c, step) == tfRun' = [tfRun EXCEPT ![c].pc = step]
TfEnd(c) == tfRun' = [tfRun EXCEPT ![c] = TfNoRun(Ended(c))]
TfOthers == UNCHANGED <<scanVars, stRun>>
TfLeaves == NoFault /\ TfOthers /\ UNCHANGED <<tfBegun, tfCut>>

TfBegin(c) ==
  /\ TfAt(c, Waiting(c)) /\ TfGoto(c, "inspect")
  /\ TfLeaves /\ UNCHANGED <<tfRows, tfStored>>

\* _audit_sync, in a thread: the statuses of the accounts, taken together.
TfInspected(c) ==
  /\ TfAt(c, "inspect")
  /\ \E statuses \in SUBSET TfStatuses :
       tfRun' = [tfRun EXCEPT ![c].statuses = statuses, ![c].pc = "insertRun"]
  /\ TfLeaves /\ UNCHANGED <<tfRows, tfStored>>

\* _persist_snapshot: the row of the audit, the rows of the accounts, a commit.
TfRunInserted(c) ==
  /\ TfAt(c, "insertRun")
  /\ tfBegun < ScMaxRuns
  /\ tfBegun' = tfBegun + 1
  /\ tfRows' = [tfRows EXCEPT ![tfBegun + 1] = "run"]
  /\ tfRun' = [tfRun EXCEPT ![c].at = tfBegun + 1, ![c].pc = "insertAccounts"]
  /\ NoFault /\ TfOthers /\ UNCHANGED <<tfStored, tfCut>>

\* Mutant: the accounts go to the audit that was begun last.
TfAccountsOfLast(c) ==
  /\ TfAt(c, "insertAccounts")
  /\ tfRows' = [tfRows EXCEPT ![tfBegun] = "accounts"]
  /\ TfGoto(c, "commit")
  /\ TfLeaves /\ UNCHANGED tfStored

TfAccountsInserted(c) ==
  /\ TfAt(c, "insertAccounts")
  /\ tfRows' = [tfRows EXCEPT ![tfRun[c].at] = "accounts"]
  /\ TfGoto(c, "commit")
  /\ TfLeaves /\ UNCHANGED tfStored

TfCommitted(c) ==
  /\ TfAt(c, "commit")
  /\ tfStored' = tfRows
  /\ TfGoto(c, "record")
  /\ TfLeaves /\ UNCHANGED tfRows

\* Any other component writes to the database, and commits.
DbCommit ==
  /\ up /\ tfStored # tfRows
  /\ tfStored' = tfRows
  /\ NoFault /\ TfOthers /\ UNCHANGED <<tfBegun, tfRows, tfRun, tfCut>>

\* The append commits as well; accounts that fail are published.
TfRecorded(c) ==
  /\ TfAt(c, "record")
  /\ tfStored' = tfRows
  /\ IF "fail" \in tfRun[c].statuses THEN TfGoto(c, "publish") ELSE TfEnd(c)
  /\ TfLeaves /\ UNCHANGED tfRows

TfPublished(c) ==
  /\ TfAt(c, "publish") /\ TfEnd(c)
  /\ TfLeaves /\ UNCHANGED <<tfRows, tfStored>>

TfCuts(callers) ==
  tfCut' = tfCut \union
    {tfRun[c].at :
       c \in {d \in callers : tfRun[d].pc \in {"insertAccounts", "commit"}}}

\* Nothing rolls back: what was inserted waits for somebody's commit.
TfRaises(c) ==
  /\ \E step \in {"inspect", "insertRun", "insertAccounts", "commit", "record"} :
       TfAt(c, step)
  /\ Raise(c) /\ TfEnd(c) /\ TfCuts({c})
  /\ TfOthers /\ UNCHANGED <<tfBegun, tfRows, tfStored>>

-----------------------------------------------------------------------------
(* StorageReportTool.run *)

StAt(c, step) == Loaded("storage") /\ stRun[c] = step
StGoto(c, step) == stRun' = [stRun EXCEPT ![c] = step]
StOthers == UNCHANGED <<scanVars, auditVars>>

StStep(c) ==
  /\ \/ StAt(c, Waiting(c)) /\ StGoto(c, "report") /\ NoFault
     \/ StAt(c, "report") /\ StGoto(c, "record") /\ NoFault
     \/ StAt(c, "report") /\ StGoto(c, "recordFailure") /\ Fault
     \/ StAt(c, "record") /\ StGoto(c, "publish") /\ NoFault
     \/ (StAt(c, "publish") \/ StAt(c, "recordFailure"))
          /\ StGoto(c, Ended(c)) /\ NoFault
     \/ (StAt(c, "record") \/ StAt(c, "recordFailure"))
          /\ StGoto(c, Ended(c)) /\ Raise(c)
  /\ StOthers

-----------------------------------------------------------------------------

\* The daemon starts: runs are gone, and what was not committed with them.
ScForget ==
  /\ vsRun' = [c \in VsCallers |-> VsNoRun(Waiting(c))]
  /\ vsCut' = vsCut \union ({vsRun[c].at : c \in VsCallers} \ {0})
  /\ TfCuts(TfCallers)
  /\ tfRows' = tfStored
  /\ tfRun' = [c \in TfCallers |-> TfNoRun(Waiting(c))]
  /\ stRun' = [c \in StCallers |-> Waiting(c)]
  /\ UNCHANGED <<vsInstalled, vsFile, vsBegun, vsStored, vsBefore, vsTold,
                 tfBegun, tfStored>>

VsStep(c) ==
  VsScanned(c) \/ VsReadReport(c) \/ VsQueried(c) \/ VsInserted(c)
  \/ VsRecorded(c) \/ VsCompared(c) \/ VsDropTold(c)
TfStep(c) ==
  TfInspected(c) \/ TfRunInserted(c) \/ TfAccountsInserted(c) \/ TfCommitted(c)
  \/ TfRecorded(c) \/ TfPublished(c)

ScansNext ==
  \/ \E c \in VsCallers : VsBegin(c) \/ VsStep(c) \/ VsRaises(c)
  \/ \E c \in TfCallers : TfBegin(c) \/ TfStep(c) \/ TfRaises(c)
  \/ \E c \in StCallers : StStep(c)
  \/ DbCommit

-----------------------------------------------------------------------------
(* Properties *)

VsEnded(n) ==
  n \in DOMAIN vsStored /\ n \notin vsCut /\ \A c \in VsCallers : vsRun[c].at # n

\* The scans a scan may be compared with: the last one that was stored when it
\* began, and those stored since that began before it.
Comparable(n) ==
  {m \in DOMAIN vsStored : m < n /\ \A b \in vsBefore[n] : b <= m}
DropsFrom(m, n) == IsDrop(vsStored[m], vsStored[n])

\* A drop is told of a scan only if there is one, and is told if there is one
\* whichever of them it was compared with.
ToldRightly(n) ==
  /\ n \in vsTold => \E m \in Comparable(n) : DropsFrom(m, n)
  /\ vsBefore[n] # {} /\ (\A m \in Comparable(n) : DropsFrom(m, n)) => n \in vsTold

\* A score that drops since the last scan is told, and no other, whatever scans
\* overlap or were cut off before; only a scan that is itself cut off tells
\* nothing (VulnScanTool.run, lines 191-256; user story US-026, line 14).  With
\* overlapping scans, each may be the last one for the other.
DropsTold == \A n \in Numbers : VsEnded(n) => ToldRightly(n)

\* What an audit goes on to record and publish is stored for good, with all its
\* accounts; and a stored audit without accounts, which !2fa would show as one
\* that found none, is about to get them or was cut off (TwoFactorAuditTool.
\* _persist_snapshot, on the connection all components commit on).
AuditsWhole ==
  /\ \A c \in TfCallers : tfRun[c].pc \in {"record", "publish"} =>
       tfStored[tfRun[c].at] = "accounts"
  /\ \A n \in Numbers : tfStored[n] = "run" /\ n \notin tfCut =>
       \E c \in TfCallers :
         tfRun[c].at = n /\ tfRun[c].pc \in {"insertAccounts", "commit"}
=============================================================================
