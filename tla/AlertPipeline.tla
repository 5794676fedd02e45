--------------------------- MODULE AlertPipeline ---------------------------
(***************************************************************************)
(* The life of an alert inside the daemon, from the event that raises it   *)
(* to chat: AlertHandler (alerts/handler.py), AlertCorrelationService      *)
(* (alerts/correlation.py) and AlertLLMRemediationService                  *)
(* (alerts/remediation.py), which all run as coroutines of one event loop. *)
(*                                                                         *)
(* A step of this module runs from one await to the next, so what the code *)
(* does without awaiting is one atomic action here.  An alert is a model   *)
(* value: its text never matters, its severity does.  Lists of alerts are  *)
(* sets, because no property speaks of the order inside a batch.           *)
(***************************************************************************)
EXTENDS QuietHours, FiniteSets

CONSTANTS
  Alerts,               \* the alerts that are raised, each of them once
  Configurations,       \* the configurations the daemon may be started with
  CorrelationWindow,    \* llm.alert_correlation.window, in ticks
  MaxMute,              \* bound: the longest !mute, in ticks
  MaxRestarts           \* bound: how often the daemon is restarted

Info == 0
Warning == 1
Critical == 2
Severities == {Info, Warning, Critical}     \* _SEVERITY_RANK

\* What _load_config reads, and one thing it does not: may an append to the
\* audit table raise?  Without alerts.quiet_hours the window plays no part.
Config ==
  [quietHours : BOOLEAN, quietStart : TimeOfDay, quietEnd : TimeOfDay,
   minSeverity : Severities, correlation : BOOLEAN, llm : BOOLEAN,
   remediation : BOOLEAN, auditMayFail : BOOLEAN]

ASSUME PipelineAssumption ==
  /\ Configurations \subseteq Config
  /\ CorrelationWindow \in Nat \ {0}
  /\ MaxMute \in Nat
  /\ MaxRestarts \in Nat

VARIABLES
  config,       \* fixed when the daemon starts
  now,          \* time of day
  muteLeft,     \* ticks until _mute_until; 0: not muted
  severity,     \* the severity _apply_severity gave each alert
  pc,           \* where the coroutine that handles the alert awaits
  quietQueue,   \* _quiet_alert_queue
  flushTask,    \* _quiet_alert_flush_task: where it awaits
  sleepLeft,    \* ticks its sleep has left
  digest,       \* the alerts of the digest it is sending
  pending,      \* AlertCorrelationService._pending
  windowLeft,   \* ticks _window_flush sleeps on; NoTask: none is asleep
  flushes,      \* _flush coroutines created and not yet started
  batches,      \* _flush coroutines that took a batch
  restarts,
  told,         \* history: how often chat was told of the alert
  advised,      \* history: how often chat was sent a remediation for it
  audited,      \* history: what the alert's alert_fired record says
  dropped,      \* history: alerts the configuration or a mute discards
  lost          \* history: alerts lost to a restart or a failed append

handlerVars == <<severity, pc>>
quietVars == <<quietQueue, flushTask, sleepLeft, digest>>
correlationVars == <<pending, windowLeft, flushes, batches>>
timeVars == <<now, muteLeft>>
runVars == <<config, restarts>>
historyVars == <<told, advised, audited, dropped, lost>>
vars == <<runVars, timeVars, handlerVars, quietVars, correlationVars,
          historyVars>>

NoTask == -1

HandlerStates ==
  {"new",                   \* not raised yet
   "broadcast",             \* awaits router.broadcast(msg)
   "record",                \* awaits _record_alert(suppressed=False)
   "recordSuppressed",      \* awaits _record_alert(suppressed=True)
   "recordThenSubmit",      \* awaits _record_alert, then submits
   "recordResolved",        \* awaits _record_suppressed
   "ask",                   \* awaits the LLM for at most 15 s
   "askLate",               \* _publish_delayed awaits the LLM
   "advise",                \* awaits router.broadcast(suggestion)
   "recordAdvised",         \* awaits _record_success
   "recordFailure",         \* awaits _record_failure
   "done"}

BatchStages ==
  {"llm", "each", "report", "record"}

Batches == [members : SUBSET Alerts, todo : SUBSET Alerts, stage : BatchStages]

TypeOK ==
  /\ config \in Config
  /\ now \in TimeOfDay
  /\ muteLeft \in 0 .. MaxMute
  /\ severity \in [Alerts -> Severities]
  /\ pc \in [Alerts -> HandlerStates]
  /\ quietQueue \subseteq Alerts
  /\ flushTask \in {"none", "asleep", "sending", "recording"}
  /\ sleepLeft \in 0 .. DayLen
  /\ digest \subseteq Alerts
  /\ pending \subseteq Alerts
  /\ windowLeft \in NoTask .. CorrelationWindow
  /\ flushes \in Nat
  /\ batches \subseteq Batches
  /\ restarts \in 0 .. MaxRestarts
  /\ told \in [Alerts -> Nat]
  /\ advised \in [Alerts -> Nat]
  /\ audited \in [Alerts -> {"no", "notified", "suppressed"}]
  /\ dropped \subseteq Alerts
  /\ lost \subseteq Alerts

Init ==
  /\ config \in Configurations
  /\ now \in TimeOfDay
  /\ muteLeft = 0
  /\ severity = [a \in Alerts |-> Info]
  /\ pc = [a \in Alerts |-> "new"]
  /\ quietQueue = {}
  /\ flushTask = "none"
  /\ sleepLeft = 0
  /\ digest = {}
  /\ pending = {}
  /\ windowLeft = NoTask
  /\ flushes = 0
  /\ batches = {}
  /\ restarts = 0
  /\ told = [a \in Alerts |-> 0]
  /\ advised = [a \in Alerts |-> 0]
  /\ audited = [a \in Alerts |-> "no"]
  /\ dropped = {}
  /\ lost = {}

-----------------------------------------------------------------------------
(* What the handlers read *)

Muted == muteLeft > 0                                 \* _is_non_critical_muted
InQuietWindow(t) == IsActive(t, config.quietStart, config.quietEnd)
QuietNow == config.quietHours /\ InQuietWindow(now)   \* _is_quiet_hours_active

\* Which branch _notify_and_record takes for an alert of severity s.
BelowMinimum(s) == s < config.minSeverity
MutedAway(s) == ~BelowMinimum(s) /\ s # Critical /\ Muted
\* Mutant: only alerts below warning are held back.
QueuedAwayIfMinor(s) ==
  ~BelowMinimum(s) /\ ~MutedAway(s) /\ s = Info /\ QuietNow
QueuedAway(s) == ~BelowMinimum(s) /\ ~MutedAway(s) /\ s # Critical /\ QuietNow
Notified(s) == ~BelowMinimum(s) /\ ~MutedAway(s) /\ ~QueuedAway(s)

\* Equal bounds make a window that is always active.
QuietHoursHaveEnd == config.quietStart # config.quietEnd

Goto(a, state) == pc' = [pc EXCEPT ![a] = state]

Tell(S) == told' = [a \in Alerts |-> IF a \in S THEN told[a] + 1 ELSE told[a]]

-----------------------------------------------------------------------------
(* AlertHandler._notify_and_record, up to its first await *)

Discard(a, s) ==
  /\ BelowMinimum(s) \/ MutedAway(s)
  /\ Goto(a, "recordSuppressed")
  /\ dropped' = dropped \cup {a}
  /\ UNCHANGED quietVars

\* _ensure_quiet_alert_flush_scheduled: a task that is not done, whatever it
\* is doing, is left alone.
EnsureFlushScheduled ==
  IF flushTask = "none"
  THEN /\ flushTask' = "asleep"
       /\ sleepLeft' = FlushDelay(now, config.quietStart, config.quietEnd)
  ELSE UNCHANGED <<flushTask, sleepLeft>>

QueueForDigest(a, s) ==
  /\ QueuedAway(s)
  /\ Goto(a, "recordSuppressed")
  /\ quietQueue' = quietQueue \cup {a}
  /\ EnsureFlushScheduled
  /\ UNCHANGED <<digest, dropped>>

Notify(a, s) ==
  /\ Notified(s)
  /\ Goto(a, IF config.correlation THEN "recordThenSubmit" ELSE "broadcast")
  /\ UNCHANGED <<quietVars, dropped>>

\* Each alert handler builds its message, whose severity is decided, and calls
\* _notify_and_record.  The daily and weekly digests are no alerts: their
\* handlers broadcast at once, whatever is muted or quiet, and touch nothing of
\* this module.
Raise(a, s) ==
  /\ pc[a] = "new"
  /\ severity' = [severity EXCEPT ![a] = s]
  /\ Discard(a, s) \/ QueueForDigest(a, s) \/ Notify(a, s)
  /\ UNCHANGED <<timeVars, correlationVars, runVars,
                 told, advised, audited, lost>>

\* ChatRouter.broadcast swallows what an adapter raises, so it always returns.
Broadcast(a) ==
  /\ pc[a] = "broadcast"
  /\ Tell({a})
  /\ Goto(a, "record")
  /\ UNCHANGED <<timeVars, severity, quietVars, correlationVars, runVars,
                 advised, audited, dropped, lost>>

-----------------------------------------------------------------------------
(* AlertHandler._record_alert, and what its callers do when it returns.    *)
(* An append that raises ends the handler: the event bus logs it.          *)

RecordSuppressed(a) ==
  /\ pc[a] = "recordSuppressed"
  /\ \/ audited' = [audited EXCEPT ![a] = "suppressed"]
     \/ config.auditMayFail /\ UNCHANGED audited
  /\ Goto(a, "done")
  /\ UNCHANGED <<timeVars, severity, quietVars, correlationVars, runVars,
                 told, advised, dropped, lost>>

\* Mutant: a mute silences remediation as well.
AfterRecordUnlessMuted(a) ==
  IF severity[a] = Critical /\ config.remediation /\ config.llm /\ ~Muted
  THEN {"recordResolved", "ask"}
  ELSE {"done"}

\* What maybe_send does when it is entered: nothing, or it finds the problem
\* gone (_check_relevance), or it asks the LLM.
AfterRecord(a) ==
  IF severity[a] = Critical /\ config.remediation /\ config.llm
  THEN {"recordResolved", "ask"}
  ELSE {"done"}

RecordNotified(a) ==
  /\ pc[a] = "record"
  /\ \/ /\ audited' = [audited EXCEPT ![a] = "notified"]
        /\ \E state \in AfterRecord(a) : Goto(a, state)
     \/ /\ config.auditMayFail
        /\ UNCHANGED audited
        /\ Goto(a, "done")
  /\ UNCHANGED <<timeVars, severity, quietVars, correlationVars, runVars,
                 told, advised, dropped, lost>>

\* Mutant: an alert that comes while a window is open is not buffered.
SubmitFirstOnly(a) ==
  /\ pending' = IF windowLeft = NoTask THEN pending \cup {a} ELSE pending
  /\ windowLeft' =
       IF windowLeft = NoTask THEN CorrelationWindow ELSE windowLeft
  /\ UNCHANGED <<flushes, batches>>

\* Mutant: no window is opened while a batch is being sent.
SubmitUnlessFlushing(a) ==
  /\ pending' = pending \cup {a}
  /\ windowLeft' =
       IF windowLeft = NoTask /\ batches = {}
       THEN CorrelationWindow ELSE windowLeft
  /\ UNCHANGED <<flushes, batches>>

\* AlertCorrelationService.submit: the alert joins the buffer, and a window is
\* opened unless one is open.
Submit(a) ==
  /\ pending' = pending \cup {a}
  /\ windowLeft' =
       IF windowLeft = NoTask THEN CorrelationWindow ELSE windowLeft
  /\ UNCHANGED <<flushes, batches>>

RecordThenSubmit(a) ==
  /\ pc[a] = "recordThenSubmit"
  /\ \/ /\ audited' = [audited EXCEPT ![a] = "notified"]
        /\ Submit(a)
        /\ UNCHANGED lost
     \/ /\ config.auditMayFail
        /\ lost' = lost \cup {a}
        /\ UNCHANGED <<audited, correlationVars>>
  /\ Goto(a, "done")
  /\ UNCHANGED <<timeVars, severity, quietVars, runVars,
                 told, advised, dropped>>

-----------------------------------------------------------------------------
(* AlertLLMRemediationService.maybe_send *)

GoOn(a, from, to) ==
  /\ pc[a] = from
  /\ Goto(a, to)
  /\ UNCHANGED <<timeVars, severity, quietVars, correlationVars, runVars,
                 historyVars>>

\* The request answers with a suggestion, or it fails or the text is blank.
LlmAnswers(a) ==
  \E state \in {"ask", "askLate"} : GoOn(a, state, "advise")

LlmFails(a) ==
  \E state \in {"ask", "askLate"} : GoOn(a, state, "recordFailure")

\* wait_for gives up after 15 s; the shielded request goes on, and a background
\* task waits for it.
LlmIsLate(a) == GoOn(a, "ask", "askLate")

Advise(a) ==
  /\ pc[a] = "advise"
  /\ advised' = [advised EXCEPT ![a] = @ + 1]
  /\ Goto(a, "recordAdvised")
  /\ UNCHANGED <<timeVars, severity, quietVars, correlationVars, runVars,
                 told, audited, dropped, lost>>

\* _record_success, _record_failure and _record_suppressed end the coroutine,
\* whether the append succeeds or raises.
RecordOutcome(a) ==
  \E state \in {"recordAdvised", "recordFailure", "recordResolved"} :
    GoOn(a, state, "done")

-----------------------------------------------------------------------------
(* The flush of the quiet-hours queue *)

\* Mutant: a flush that wakes while chat is muted keeps the queue.
FlushUnlessMuted ==
  /\ flushTask = "asleep"
  /\ sleepLeft = 0
  /\ IF quietQueue = {} \/ Muted
     THEN flushTask' = "none" /\ UNCHANGED <<digest, quietQueue>>
     ELSE /\ flushTask' = "sending"
          /\ digest' = quietQueue
          /\ quietQueue' = {}
  /\ UNCHANGED <<timeVars, handlerVars, sleepLeft, correlationVars, runVars,
                 historyVars>>

\* The sleep is over.  Whatever has been queued by now is one digest.
FlushQuietQueue ==
  /\ flushTask = "asleep"
  /\ sleepLeft = 0
  /\ IF quietQueue = {}
     THEN flushTask' = "none" /\ UNCHANGED <<digest, quietQueue>>
     ELSE /\ flushTask' = "sending"
          /\ digest' = quietQueue
          /\ quietQueue' = {}
  /\ UNCHANGED <<timeVars, handlerVars, sleepLeft, correlationVars, runVars,
                 historyVars>>

DigestSent ==
  /\ flushTask = "sending"
  /\ Tell(digest)
  /\ digest' = {}
  /\ flushTask' = "recording"
  /\ UNCHANGED <<timeVars, handlerVars, quietQueue, sleepLeft, correlationVars,
                 runVars, advised, audited, dropped, lost>>

\* The digest's audit record, appended or not, and the finally clause.
DigestRecorded ==
  /\ flushTask = "recording"
  /\ flushTask' = "none"
  /\ UNCHANGED <<timeVars, handlerVars, quietQueue, sleepLeft, digest,
                 correlationVars, runVars, historyVars>>

-----------------------------------------------------------------------------
(* AlertCorrelationService *)

\* _window_flush wakes, creates the _flush coroutine and is done.
WindowEnds ==
  /\ windowLeft = 0
  /\ windowLeft' = NoTask
  /\ flushes' = flushes + 1
  /\ UNCHANGED <<timeVars, handlerVars, quietVars, pending, batches, runVars,
                 historyVars>>

\* A batch that _flush has taken: two alerts or more are first put to the LLM.
NewBatch(S) ==
  LET ask == config.llm /\ Cardinality(S) > 1
  IN  [members |-> S,
       todo    |-> IF ask THEN {} ELSE S,
       stage   |-> IF ask THEN "llm" ELSE "each"]

\* Mutant: _flush copies the buffer and does not clear it.
StartFlushKeepingBuffer ==
  /\ flushes > 0
  /\ flushes' = flushes - 1
  /\ batches' =
       IF pending = {} THEN batches ELSE batches \cup {NewBatch(pending)}
  /\ UNCHANGED <<timeVars, handlerVars, quietVars, pending, windowLeft, runVars,
                 historyVars>>

\* _flush runs up to its first await: it takes the buffer.
StartFlush ==
  /\ flushes > 0
  /\ flushes' = flushes - 1
  /\ pending' = {}
  /\ batches' =
       IF pending = {} THEN batches ELSE batches \cup {NewBatch(pending)}
  /\ UNCHANGED <<timeVars, handlerVars, quietVars, windowLeft, runVars,
                 historyVars>>

Replace(b, c) == batches' = (batches \ {b}) \cup {c}

\* Mutant: when the LLM fails nothing is sent, only the decision recorded.
VerdictOrNothing(b) ==
  /\ b.stage = "llm"
  /\ \/ Replace(b, [b EXCEPT !.stage = "report"])
     \/ Replace(b, [b EXCEPT !.stage = "record"])
  /\ UNCHANGED <<timeVars, handlerVars, quietVars, pending, windowLeft,
                 flushes, runVars, historyVars>>

\* The verdict: one root cause; or none, an error or a timeout.
Verdict(b) ==
  /\ b.stage = "llm"
  /\ \/ Replace(b, [b EXCEPT !.stage = "report"])
     \/ Replace(b, [b EXCEPT !.stage = "each", !.todo = b.members])
  /\ UNCHANGED <<timeVars, handlerVars, quietVars, pending, windowLeft,
                 flushes, runVars, historyVars>>

SendReport(b) ==
  /\ b.stage = "report"
  /\ Tell(b.members)
  /\ Replace(b, [b EXCEPT !.stage = "record"])
  /\ UNCHANGED <<timeVars, handlerVars, quietVars, pending, windowLeft,
                 flushes, runVars, advised, audited, dropped, lost>>

\* The batch once a has been sent.
Without(b, a) ==
  [members |-> b.members,
   todo    |-> b.todo \ {a},
   stage   |-> IF b.todo = {a} THEN "record" ELSE "each"]

\* One turn of "for alert in batch: await broadcast".
SendEach(b, a) ==
  /\ b.stage = "each"
  /\ a \in b.todo
  /\ Tell({a})
  /\ Replace(b, Without(b, a))
  /\ UNCHANGED <<timeVars, handlerVars, quietVars, pending, windowLeft,
                 flushes, runVars, advised, audited, dropped, lost>>

RecordDecision(b) ==
  /\ b.stage = "record"
  /\ batches' = batches \ {b}
  /\ UNCHANGED <<timeVars, handlerVars, quietVars, pending, windowLeft,
                 flushes, runVars, historyVars>>

-----------------------------------------------------------------------------
(* !mute and !unmute, the clock, and a restart of the daemon *)

\* chat.alerts.mute; a payload without a usable time unmutes, as does
\* chat.alerts.unmute.
Mute(d) ==
  /\ muteLeft # d
  /\ muteLeft' = d
  /\ UNCHANGED <<now, handlerVars, quietVars, correlationVars, runVars,
                 historyVars>>

\* Sleeps that are over are woken before the clock goes on.  A broadcast may
\* take any time, but this module assumes that the digest of one night is out
\* before the next night begins.
NoWakeDue ==
  /\ flushTask = "asleep" => sleepLeft > 0
  /\ windowLeft # 0

DigestOutBeforeQuiet ==
  flushTask \in {"sending", "recording"} =>
    ~InQuietWindow(NextTime(now))

\* Mutant: no floor.
CountDownBelowZero(n) == n - 1

CountDown(n) == IF n > 0 THEN n - 1 ELSE n

Tick ==
  /\ NoWakeDue
  /\ DigestOutBeforeQuiet
  /\ now' = NextTime(now)
  /\ muteLeft' = CountDown(muteLeft)
  /\ sleepLeft' = IF flushTask = "asleep" THEN sleepLeft - 1 ELSE sleepLeft
  /\ windowLeft' = CountDown(windowLeft)
  /\ UNCHANGED <<handlerVars, quietQueue, flushTask, digest, pending, flushes,
                 batches, runVars, historyVars>>

\* Where an alert that chat should hear of can be.
InHandler == {a \in Alerts : pc[a] \in {"broadcast", "recordThenSubmit"}}
ToldBy(b) == CASE b.stage \in {"llm", "report"} -> b.members
               [] b.stage = "each" -> b.todo
               [] b.stage = "record" -> {}
InBatches == UNION {ToldBy(b) : b \in batches}
Held == InHandler \cup quietQueue \cup digest \cup pending \cup InBatches

\* Nothing of this module is persisted: a restart forgets it all.
Restart ==
  /\ restarts < MaxRestarts
  /\ restarts' = restarts + 1
  /\ lost' = lost \cup Held
  /\ pc' = [a \in Alerts |-> IF pc[a] = "new" THEN "new" ELSE "done"]
  /\ muteLeft' = 0
  /\ quietQueue' = {} /\ digest' = {}
  /\ flushTask' = "none" /\ sleepLeft' = 0
  /\ pending' = {} /\ batches' = {}
  /\ windowLeft' = NoTask /\ flushes' = 0
  /\ UNCHANGED <<config, now, severity, told, advised, audited, dropped>>

Handle(a) ==
  \/ Broadcast(a)
  \/ RecordSuppressed(a) \/ RecordNotified(a) \/ RecordThenSubmit(a)
  \/ LlmAnswers(a) \/ LlmFails(a) \/ LlmIsLate(a)
  \/ Advise(a) \/ RecordOutcome(a)

Deliver(b) ==
  \/ Verdict(b)
  \/ SendReport(b)
  \/ \E a \in b.todo : SendEach(b, a)
  \/ RecordDecision(b)

FlushTask == FlushQuietQueue \/ DigestSent \/ DigestRecorded

Correlate ==
  \/ WindowEnds
  \/ StartFlush
  \/ \E b \in batches : Deliver(b)

Next ==
  \/ \E a \in Alerts, s \in Severities : Raise(a, s)
  \/ \E a \in Alerts : Handle(a)
  \/ FlushTask
  \/ Correlate
  \/ \E d \in 0 .. MaxMute : Mute(d)
  \/ Tick
  \/ Restart

Spec == Init /\ [][Next]_vars

\* The event loop runs every coroutine that is ready, an LLM request ends (the
\* providers' own timeout), a broadcast returns, and time passes.  Nobody has
\* to raise an alert, mute, or restart.
Fairness ==
  /\ \A a \in Alerts : WF_vars(Handle(a))
  /\ WF_vars(FlushTask)
  /\ WF_vars(Correlate)
  /\ WF_vars(Tick)

FairSpec == Spec /\ Fairness

-----------------------------------------------------------------------------
(* Properties *)

Places == {"handler", "queue", "digest", "pending", "batches", "told",
           "dropped", "lost"}

In(place) ==
  CASE place = "handler" -> InHandler
    [] place = "queue"   -> quietQueue
    [] place = "digest"  -> digest
    [] place = "pending" -> pending
    [] place = "batches" -> InBatches
    [] place = "told"    -> {a \in Alerts : told[a] > 0}
    [] place = "dropped" -> dropped
    [] place = "lost"    -> lost

\* No alert falls between the handler, the quiet-hours queue, the digest, the
\* correlation buffer and its batches, and none is in two of them: once it is
\* raised it is in exactly one place until chat is told of it, or it was
\* discarded or lost (alerts/handler.py, alerts/correlation.py).
AccountedFor ==
  /\ \A p, q \in Places : p # q => In(p) \cap In(q) = {}
  /\ UNION {In(p) : p \in Places} = {a \in Alerts : pc[a] # "new"}

\* Chat is never told of an alert twice, neither by two flushes that overlap
\* nor by a digest and the handler (alerts/handler.py, alerts/correlation.py).
ToldOnce == \A a \in Alerts : told[a] <= 1

\* Queued alerts always have a flush that sleeps and will wake for them: no
\* alert is queued behind a flush that has already taken the queue
\* (_ensure_quiet_alert_flush_scheduled).  A window that never ends is the
\* exception: there an alert can arrive while the digest is being sent, and
\* waits until another alert arrives.
QueueArmed ==
  QuietHoursHaveEnd /\ quietQueue # {} => flushTask = "asleep"

\* An alert is "on air" while a broadcast that tells of it is awaited.
OnAir ==
  {a \in Alerts : pc[a] = "broadcast"}
    \cup digest
    \cup UNION {ToldBy(b) : b \in {c \in batches : c.stage # "llm"}}

BeginsInQuietHours ==
  QuietNow /\ \E a \in OnAir' \ OnAir : severity'[a] # Critical

\* No broadcast of a non-critical alert begins during quiet hours that end
\* (_notify_and_record; user_stories/US-032), unless alerts are correlated:
\* then an alert raised before quiet hours is sent in them.
QuietRespected ==
  [][QuietHoursHaveEnd /\ ~config.correlation => ~BeginsInQuietHours]_vars

\* A digest starts only at the end of quiet hours, however many alerts were
\* queued and whenever the flush was created
\* (_flush_quiet_alerts_after_delay).
DigestAtQuietEnd ==
  [][flushTask # "sending" /\ flushTask' = "sending"
       => now = config.quietEnd]_vars

\* An audit record that says chat was notified is never false: chat was told
\* of the alert, or a coroutine still holds it.  The correlation branch writes
\* the record before anything is sent, so there a restart can belie it
\* (_record_alert).
AuditNotAhead ==
  \A a \in Alerts :
    audited[a] = "notified" =>
      \/ told[a] > 0
      \/ a \in Held
      \/ config.correlation /\ a \in lost /\ restarts > 0

\* A remediation is sent at most once, for a critical alert, and only after
\* the alert itself (AlertLLMRemediationService: an answer before the timeout,
\* or a late one from the background task, but not both).
AdviceFollowsAlert ==
  \A a \in Alerts :
    /\ advised[a] <= told[a]
    /\ advised[a] > 0 => severity[a] = Critical

\* Neither what is on record as told nor what is advised is ahead of what chat
\* was told.
NothingAhead == AuditNotAhead /\ AdviceFollowsAlert

\* A critical alert that is sent to chat is then offered to the LLM, unless the
\* problem is gone by then (maybe_send; user_stories/US-023), if remediation is
\* on, the alert's audit record can be appended, and the daemon is not
\* restarted.  With correlation on it never is.
RemediationExpected(a) ==
  /\ a \in OnAir /\ severity[a] = Critical
  /\ config.remediation /\ config.llm
  /\ ~config.correlation /\ ~config.auditMayFail
  /\ restarts = MaxRestarts

RemediationTried ==
  \A a \in Alerts :
    RemediationExpected(a) ~> pc[a] \in {"ask", "recordResolved"}

\* The pipeline keeps the abstract promise: what chat hears, and what becomes
\* of each alert.  What is owed is settled in the end, except in a window that
\* never ends.
StatusOf(a) ==
  CASE pc[a] = "new" -> "unraised"
    [] a \in dropped   -> "discarded"
    [] a \in lost      -> "lost"
    [] told[a] > 0     -> "told"
    [] a \in Held      -> "owed"

Promised ==
  INSTANCE AlertPromise WITH heard <- told,
                             status <- [a \in Alerts |-> StatusOf(a)]
KeepsPromise == Promised!Spec /\ (QuietHoursHaveEnd => Promised!Settled)
=============================================================================
