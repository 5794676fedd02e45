--------------------------- MODULE ServiceMonitor ---------------------------
(***************************************************************************)
(* ServiceMonitor.collect (monitors/services.py), called by the collection *)
(* loop of MonitorRegistry (monitors/registry.py): one pass over the       *)
(* critical services in their configured order, restarting those that are  *)
(* not active and giving up after max_restart_attempts.                    *)
(*                                                                         *)
(* Every command, audit append and published event is awaited, and the     *)
(* world moves meanwhile: services fail, recover, and are repaired.  A     *)
(* step of a pass runs from the end of one await to the next one.          *)
(***************************************************************************)
EXTENDS Integers

CONSTANTS
  Count,          \* services 1 .. Count, in the order of critical_services
  MaxAttempts,    \* max_restart_attempts
  CheckInterval,  \* check_interval, in ticks
  MaxErrors,      \* bound: how many commands and audit appends raise
  MaxRestarts     \* bound: how often the daemon is restarted

ASSUME MonitorAssumption ==
  /\ Count \in Nat \ {0}
  /\ MaxAttempts \in Nat \ {0}      \* _int_config(..., minimum=1)
  /\ CheckInterval \in Nat \ {0}
  /\ MaxErrors \in Nat
  /\ MaxRestarts \in Nat

Services == 1 .. Count

VARIABLES
  up,           \* what systemd knows: is the service active?
  sinceCheck,   \* ticks since _last_check_at, at most CheckInterval
  step,         \* what the pass awaits
  at,           \* the service it is at
  succeeded,    \* restart_succeeded
  attempts,     \* _attempts_by_service; 0: no entry
  exhausted,    \* _exhausted_services
  errors,
  restarts,
  commands,     \* history: restarts commanded since the service was seen active
  records,      \* history: audit records of them
  results,      \* history: restart_result events of them
  aborts,       \* history: passes that an error ended at this service
  criticals     \* history: restart_exhausted events

worldVars == <<up, sinceCheck, errors, restarts>>
passVars == <<step, at, succeeded>>
monitorVars == <<attempts, exhausted>>
historyVars == <<commands, records, results, aborts, criticals>>
vars == <<worldVars, passVars, monitorVars, historyVars>>

Steps == {"idle", "status", "report", "restart", "recheck", "audit",
          "result", "exhaust"}

TypeOK ==
  /\ up \in [Services -> BOOLEAN]
  /\ sinceCheck \in 0 .. CheckInterval
  /\ step \in Steps
  /\ at \in Services
  /\ succeeded \in BOOLEAN
  /\ attempts \in [Services -> Nat]
  /\ exhausted \subseteq Services
  /\ errors \in 0 .. MaxErrors
  /\ restarts \in 0 .. MaxRestarts
  /\ commands \in [Services -> Nat]
  /\ records \in [Services -> Nat]
  /\ results \in [Services -> Nat]
  /\ aborts \in [Services -> Nat]
  /\ criticals \in [Services -> Nat]

Zero == [s \in Services |-> 0]

Init ==
  /\ up \in [Services -> BOOLEAN]
  /\ sinceCheck = CheckInterval       \* _last_check_at is None
  /\ step = "idle"
  /\ at = 1
  /\ succeeded = FALSE
  /\ attempts = Zero
  /\ exhausted = {}
  /\ errors = 0
  /\ restarts = 0
  /\ commands = Zero
  /\ records = Zero
  /\ results = Zero
  /\ aborts = Zero
  /\ criticals = Zero

-----------------------------------------------------------------------------
(* The steps of a pass *)

\* Mutant: the index runs past the last service.
NextServicePastEnd ==
  IF at <= Count
  THEN at' = at + 1 /\ step' = "status"
  ELSE at' = 1 /\ step' = "idle"

\* The loop goes on with the next service, or the pass is over.
NextService ==
  IF at < Count
  THEN at' = at + 1 /\ step' = "status"
  ELSE at' = 1 /\ step' = "idle"

Plus(f, s) == [f EXCEPT ![s] = @ + 1]
Reset(f, s) == [f EXCEPT ![s] = 0]

\* Mutant: the service stays in _exhausted_services.
ClearAttempts(s) ==
  /\ attempts' = Reset(attempts, s)
  /\ commands' = Reset(commands, s)
  /\ records' = Reset(records, s)
  /\ results' = Reset(results, s)
  /\ aborts' = Reset(aborts, s)
  /\ criticals' = Reset(criticals, s)
  /\ UNCHANGED exhausted

\* The service is active, or was restarted: all is forgotten.
Clear(s) ==
  /\ attempts' = Reset(attempts, s)
  /\ exhausted' = exhausted \ {s}
  /\ commands' = Reset(commands, s)
  /\ records' = Reset(records, s)
  /\ results' = Reset(results, s)
  /\ aborts' = Reset(aborts, s)
  /\ criticals' = Reset(criticals, s)

\* collect returns at once when the last pass began less than check_interval
\* ago.
Begin ==
  /\ step = "idle"
  /\ sinceCheck = CheckInterval
  /\ sinceCheck' = 0
  /\ step' = "status"
  /\ UNCHANGED <<up, errors, restarts, at, succeeded, monitorVars, historyVars>>

\* systemctl is-active has answered: anything but "active" is a failure.
FoundActive ==
  /\ step = "status"
  /\ up[at]
  /\ Clear(at)
  /\ NextService
  /\ UNCHANGED <<worldVars, succeeded>>

FoundExhausted ==
  /\ step = "status"
  /\ ~up[at]
  /\ at \in exhausted
  /\ NextService
  /\ UNCHANGED <<worldVars, succeeded, monitorVars, historyVars>>

FoundFailed ==
  /\ step = "status"
  /\ ~up[at]
  /\ at \notin exhausted
  /\ attempts' = Plus(attempts, at)
  /\ step' = "report"
  /\ UNCHANGED <<worldVars, at, succeeded, exhausted, historyVars>>

\* The journal is read and failure_detected is published.
Report ==
  /\ step = "report"
  /\ step' = "restart"
  /\ UNCHANGED <<worldVars, at, succeeded, monitorVars, historyVars>>

\* systemctl restart, whatever the service is doing by now: it is active
\* afterwards or it is not, and the command says so or fails itself.
RestartService ==
  /\ step = "restart"
  /\ \E active, ok \in BOOLEAN :
       /\ up' = [up EXCEPT ![at] = active]
       /\ succeeded' = ok
  /\ commands' = Plus(commands, at)
  /\ step' = "recheck"
  /\ UNCHANGED <<sinceCheck, errors, restarts, at, monitorVars,
                 records, results, aborts, criticals>>

\* A restart has succeeded if the command did and the service is active now.
Recheck ==
  /\ step = "recheck"
  /\ succeeded' = (succeeded /\ up[at])
  /\ step' = "audit"
  /\ UNCHANGED <<worldVars, at, monitorVars, historyVars>>

\* Mutant: an append that fails is ignored.
AuditOrNot ==
  /\ step = "audit"
  /\ records' = Plus(records, at) \/ UNCHANGED records
  /\ step' = "result"
  /\ UNCHANGED <<worldVars, at, succeeded, monitorVars,
                 commands, results, aborts, criticals>>

Audit ==
  /\ step = "audit"
  /\ records' = Plus(records, at)
  /\ step' = "result"
  /\ UNCHANGED <<worldVars, at, succeeded, monitorVars,
                 commands, results, aborts, criticals>>

\* restart_result has been published.
Restarted ==
  /\ step = "result"
  /\ succeeded
  /\ Clear(at)
  /\ NextService
  /\ UNCHANGED <<worldVars, succeeded>>

\* Mutant: the attempt after the last one is the one that gives up.
TryAgainOnceMore ==
  /\ step = "result"
  /\ ~succeeded
  /\ attempts[at] <= MaxAttempts
  /\ results' = Plus(results, at)
  /\ NextService
  /\ UNCHANGED <<worldVars, succeeded, monitorVars,
                 commands, records, aborts, criticals>>

TryAgain ==
  /\ step = "result"
  /\ ~succeeded
  /\ attempts[at] < MaxAttempts
  /\ results' = Plus(results, at)
  /\ NextService
  /\ UNCHANGED <<worldVars, succeeded, monitorVars,
                 commands, records, aborts, criticals>>

GiveUp ==
  /\ step = "result"
  /\ ~succeeded
  /\ attempts[at] >= MaxAttempts
  /\ results' = Plus(results, at)
  /\ exhausted' = exhausted \cup {at}
  /\ step' = "exhaust"
  /\ UNCHANGED <<worldVars, at, succeeded, attempts,
                 commands, records, aborts, criticals>>

\* restart_exhausted has been published; the event bus raises nothing.
Exhausted ==
  /\ step = "exhaust"
  /\ criticals' = Plus(criticals, at)
  /\ NextService
  /\ UNCHANGED <<worldVars, succeeded, monitorVars,
                 commands, records, results, aborts>>

\* Mutant: the exception ends the collection loop as well.
AbortForGood ==
  /\ step \in {"status", "report", "restart", "recheck", "audit"}
  /\ errors < MaxErrors
  /\ errors' = errors + 1
  /\ aborts' = Plus(aborts, at)
  /\ step' = "stopped"
  /\ at' = 1
  /\ UNCHANGED <<up, sinceCheck, restarts, succeeded, monitorVars,
                 commands, records, results, criticals>>

\* A command that cannot be run, or an append that fails, ends the whole pass:
\* _run_all logs the exception, and what the pass has set stays set.
Abort ==
  /\ step \in {"status", "report", "restart", "recheck", "audit"}
  /\ errors < MaxErrors
  /\ errors' = errors + 1
  /\ aborts' = Plus(aborts, at)
  /\ step' = "idle"
  /\ at' = 1
  /\ UNCHANGED <<up, sinceCheck, restarts, succeeded, monitorVars,
                 commands, records, results, criticals>>

-----------------------------------------------------------------------------
(* The world *)

ServiceFails(s) ==
  /\ up[s]
  /\ up' = [up EXCEPT ![s] = FALSE]
  /\ UNCHANGED <<sinceCheck, errors, restarts, passVars, monitorVars, historyVars>>

\* An administrator, or systemd itself, brings it back.
ServiceRecovers(s) ==
  /\ ~up[s]
  /\ up' = [up EXCEPT ![s] = TRUE]
  /\ UNCHANGED <<sinceCheck, errors, restarts, passVars, monitorVars, historyVars>>

Tick ==
  /\ sinceCheck < CheckInterval
  /\ sinceCheck' = sinceCheck + 1
  /\ UNCHANGED <<up, errors, restarts, passVars, monitorVars, historyVars>>

\* Nothing of the monitor is persisted.
RestartDaemon ==
  /\ restarts < MaxRestarts
  /\ restarts' = restarts + 1
  /\ sinceCheck' = CheckInterval
  /\ step' = "idle" /\ at' = 1 /\ succeeded' = FALSE
  /\ attempts' = Zero /\ exhausted' = {}
  /\ commands' = Zero /\ records' = Zero /\ results' = Zero
  /\ aborts' = Zero /\ criticals' = Zero
  /\ UNCHANGED <<up, errors>>

Pass ==
  \/ FoundActive \/ FoundExhausted \/ FoundFailed
  \/ Report
  \/ RestartService \/ Recheck
  \/ Audit
  \/ Restarted \/ TryAgain \/ GiveUp \/ Exhausted

Next ==
  \/ Begin
  \/ Pass
  \/ Abort
  \/ \E s \in Services : ServiceFails(s) \/ ServiceRecovers(s)
  \/ Tick
  \/ RestartDaemon

Spec == Init /\ [][Next]_vars

\* The collection loop calls collect again and again, commands end, and time
\* passes.  No service has to fail or recover.
Fairness == WF_vars(Begin) /\ WF_vars(Pass) /\ WF_vars(Tick)

FairSpec == Spec /\ Fairness

-----------------------------------------------------------------------------
(* Properties *)

\* How many restarts are commanded in a row: at most max_restart_attempts, and
\* one more for each error that ended a pass at this service, because an
\* attempt cut short by an error is never the one that gives up (collect).
RetriesBounded ==
  \A s \in Services :
    /\ commands[s] <= attempts[s]
    /\ attempts[s] <= MaxAttempts + aborts[s]

\* Giving up and the critical alert belong together: the monitor goes silent
\* about a service only with its one restart_exhausted event published, or
\* being published (collect; user_stories/US-012).
SilentOnlyAfterCritical ==
  \A s \in Services :
    criticals[s] =
      IF s \in exhausted /\ ~(step = "exhaust" /\ at = s) THEN 1 ELSE 0

\* Chat never hears the result of a restart that is not in the audit log, and
\* only an error can leave a commanded restart without record or result.
InFlight(s, steps) == IF at = s /\ step \in steps THEN 1 ELSE 0

RestartsOnRecord ==
  \A s \in Services :
    /\ results[s] <= records[s] /\ records[s] <= commands[s]
    /\ commands[s] <= records[s] + aborts[s] + InFlight(s, {"recheck", "audit"})
    /\ records[s] = results[s] + InFlight(s, {"result"})

\* A service that is down comes up, or the monitor gives up on it and says so;
\* errors at one service do not starve the services behind it for ever
\* (collect, _run_all), because at most MaxErrors of them occur.
DownIsHandled ==
  \A s \in Services : ~up[s] ~> (up[s] \/ criticals[s] > 0)
=============================================================================
