---------------------------- MODULE LlmAnalyses ----------------------------
(***************************************************************************)
(* What the daemon has the LLM analyse, on a schedule (the three jobs of   *)
(* core/daemon.py) or on a command: log analysis, threshold tuning, health *)
(* story and the explanation of an alert (chat/command_*.py), through the  *)
(* client and its routing rules (llm/client.py, llm/router.py).            *)
(*                                                                         *)
(* Either caller has one analysis at a time: APScheduler does not start a  *)
(* job that still runs, and one command is followed.  Every query, request,*)
(* append and broadcast is awaited.                                        *)
(***************************************************************************)
EXTENDS DaemonLife, FiniteSets, Sequences

CONSTANTS
  AnConfigs,    \* configurations of the LLM
  AnMaxRuns     \* bound: analyses that are begun

ASSUME AnalysesAssumption == AnMaxRuns \in Nat

\* The command types that routing rules name.  (What becomes of thresholds that
\* are tuned from chat is in ChatConfirmations.)
Kinds == {"log_analysis", "tune_thresholds", "health_story", "explain_alert"}
Callers == {"scheduler", "chat"}

\* A rule matches one kind or any ("any"), and names a provider or none ("").
\* The provider of the configuration may be "" as well.
AnConfigType(providers) ==
  [enabled : BOOLEAN, provider : providers \union {""},
   loaded : SUBSET providers,
   rules : Seq([kind : Kinds \union {"any"}, provider : providers \union {""}])]

VARIABLES
  anConfig,     \* fixed
  anAt,         \* what the analysis of a caller awaits
  anKind,       \* what it analyses
  anRuns,
  anRecorded,   \* history: analyses with an audit record
  anTold,       \* history: reports that went to chat
  anUntold      \* history: recorded reports that did not get there

analysisVars == <<anConfig, anAt, anKind, anRuns, anRecorded, anTold, anUntold>>
anHistory == <<anRecorded, anTold, anUntold>>

AnalysesTypeOK ==
  /\ anConfig \in AnConfigs
  /\ anAt \in [Callers -> {"idle", "read", "ask", "record", "tell", "failed"}]
  /\ anKind \in [Callers -> Kinds]
  /\ anRuns \in 0 .. AnMaxRuns
  /\ {anRecorded, anTold, anUntold} \subseteq 0 .. AnMaxRuns

AnalysesInit ==
  /\ anConfig \in AnConfigs
  /\ anAt = [c \in Callers |-> "idle"]
  /\ anKind = [c \in Callers |-> "log_analysis"]
  /\ anRuns = 0
  /\ anRecorded = 0 /\ anTold = 0 /\ anUntold = 0

-----------------------------------------------------------------------------
(* LLMClient and ModelRouter *)

\* The provider that is configured, else one that is loaded.
ActiveProvider ==
  IF anConfig.provider # "" \/ anConfig.loaded = {} THEN anConfig.provider
  ELSE CHOOSE p \in anConfig.loaded : TRUE

\* LLMClient.is_enabled looks at the active provider only.
LlmEnabled == anConfig.enabled /\ ActiveProvider \in anConfig.loaded

\* ModelRouter.resolve: the first rule that matches.
RulesFor(kind) ==
  {i \in DOMAIN anConfig.rules : anConfig.rules[i].kind \in {kind, "any"}}
Route(kind) ==
  LET first == CHOOSE i \in RulesFor(kind) : \A j \in RulesFor(kind) : i <= j
  IN  IF RulesFor(kind) = {} THEN anConfig.provider
      ELSE anConfig.rules[first].provider

\* LLMClient._resolve_provider for a request of this kind: a rule without a
\* provider keeps the active one, and one whose provider is not loaded does not
\* fall back on it.
ProviderFor(kind) == IF Route(kind) = "" THEN ActiveProvider ELSE Route(kind)
Available(kind) == anConfig.enabled /\ ProviderFor(kind) \in anConfig.loaded

-----------------------------------------------------------------------------
(* One analysis *)

\* Who calls can only do so while this runs.
Serving(caller) ==
  IF caller = "scheduler" THEN Runs("scheduler")
  ELSE Runs("adapters") /\ dlReady

Goes(caller, at) == anAt' = [anAt EXCEPT ![caller] = at]

Begins(caller, kind) ==
  /\ Serving(caller) /\ anAt[caller] = "idle"
  /\ anRuns < AnMaxRuns
  /\ anRuns' = anRuns + 1
  /\ anKind' = [anKind EXCEPT ![caller] = kind]
  /\ Goes(caller, "read")
  /\ UNCHANGED <<lifeVars, anConfig, anHistory>>

\* A job that falls due is skipped when there is no LLM.
ScheduledLogAnalysis == LlmEnabled /\ Begins("scheduler", "log_analysis")
ScheduledThresholdTuning == LlmEnabled /\ Begins("scheduler", "tune_thresholds")
ScheduledNarrativeReport == LlmEnabled /\ Begins("scheduler", "health_story")

\* So is an explanation, which is answered so.  The other two commands find out
\* when they need it.
ExplainCommand == LlmEnabled /\ Begins("chat", "explain_alert")
LogAnalysisCommand == Begins("chat", "log_analysis")
HealthStoryCommand == Begins("chat", "health_story")

Begin ==
  \/ ScheduledLogAnalysis \/ ScheduledThresholdTuning \/ ScheduledNarrativeReport
  \/ ExplainCommand \/ LogAnalysisCommand \/ HealthStoryCommand

anRest == <<anConfig, anKind, anRuns>>

\* The queries of an analysis change nothing and are one step here.
Reads(caller, kind) ==
  /\ anAt[caller] = "read" /\ anKind[caller] = kind
  /\ UNCHANGED <<lifeVars, anRest, anHistory>>

GatherLogAnalysisContext(caller) ==
  Reads(caller, "log_analysis") /\ Goes(caller, "ask")
GatherMetricStats(caller) ==
  Reads(caller, "tune_thresholds") /\ Goes(caller, "ask")
GatherNarrativeContext(caller) ==
  Reads(caller, "health_story") /\ Goes(caller, "ask")

\* Where there is no alert to explain, that is the reply.
FetchRecentAlerts(caller) ==
  /\ Reads(caller, "explain_alert")
  /\ \E at \in {"ask", "idle"} : Goes(caller, at)

Gather(caller) ==
  \/ GatherLogAnalysisContext(caller) \/ GatherMetricStats(caller)
  \/ GatherNarrativeContext(caller) \/ FetchRecentAlerts(caller)

\* The provider answers.
Answered(caller) ==
  /\ anAt[caller] = "ask"
  /\ Available(anKind[caller])
  /\ Goes(caller, "record")
  /\ UNCHANGED <<lifeVars, anRest, anHistory>>

\* There is no provider, or it cannot be reached (LLMUnavailableError): a job is
\* given up, a command is answered so.
Unavailable(caller) ==
  /\ anAt[caller] = "ask"
  /\ Goes(caller, "idle")
  /\ \/ ~Available(anKind[caller]) /\ UNCHANGED dlFaults
     \/ LifeFault
  /\ UNCHANGED <<restVars, dlPhase, dlStarted, dlUpdater, anRest, anHistory>>

\* Anything else: only an explanation has a record and an answer for it.
AnalysisRaises(caller) ==
  /\ anAt[caller] \in {"read", "ask", "record", "failed"}
  /\ LifeFault \/ (dlPhase = "closeDatabase" /\ UNCHANGED dlFaults)
  /\ Goes(caller, IF anAt[caller] = "ask" /\ anKind[caller] = "explain_alert"
                  THEN "failed" ELSE "idle")
  /\ UNCHANGED <<restVars, dlPhase, dlStarted, dlUpdater, anRest, anHistory>>

RecordedFailure(caller) ==
  /\ anAt[caller] = "failed"
  /\ Goes(caller, "idle")
  /\ UNCHANGED <<lifeVars, anRest, anHistory>>

\* perform_log_analysis and the others append their record before they return.
RecordAnalysis(caller) ==
  /\ anAt[caller] = "record"
  /\ Goes(caller, "tell")
  /\ anRecorded' = anRecorded + 1
  /\ UNCHANGED <<lifeVars, anRest, anTold, anUntold>>

\* The broadcast of a job, or the reply to a command after its own record; what
\* Discord makes of it is logged, and it is not sent again.
Tell(caller) ==
  /\ anAt[caller] = "tell"
  /\ Goes(caller, "idle")
  /\ \/ anTold' = anTold + 1 /\ UNCHANGED <<dlFaults, anUntold>>
     \/ anUntold' = anUntold + 1 /\ LifeFault /\ UNCHANGED anTold
  /\ UNCHANGED <<restVars, dlPhase, dlStarted, dlUpdater, anRest, anRecorded>>

-----------------------------------------------------------------------------
(* What the steps of the daemon mean for them *)

Cut(callers) ==
  /\ anAt' = [c \in Callers |-> IF c \in callers THEN "idle" ELSE anAt[c]]
  /\ anUntold' = anUntold + Cardinality({c \in callers : anAt[c] = "tell"})
  /\ UNCHANGED <<anRest, anRecorded, anTold>>

\* scheduler.stop cancels the job that runs; a command ends with the process.
AnalysesWithDaemon ==
  /\ LifeNext
  /\ CASE dlPhase' = "down" -> Cut(Callers)
       [] dlPhase' # "down" /\ "scheduler" \in dlStarted \ dlStarted'
                            -> Cut({"scheduler"})
       [] OTHER             -> UNCHANGED analysisVars

AnalysesNext ==
  \/ AnalysesWithDaemon
  \/ Begin
  \/ \E c \in Callers :
       \/ Gather(c) \/ Answered(c) \/ Unavailable(c) \/ AnalysisRaises(c)
       \/ RecordedFailure(c) \/ RecordAnalysis(c) \/ Tell(c)

-----------------------------------------------------------------------------
(* Properties *)

\* What chat is told of an analysis is on record, and a recorded report is told,
\* on its way, or among those lost to Discord or to a scheduler or a process that
\* was stopped; no job of the scheduler outlives it (user_stories/US-047, US-050).
AnalysesOnRecord ==
  /\ anRecorded = anTold + anUntold
                    + Cardinality({c \in Callers : anAt[c] = "tell"})
  /\ anAt["scheduler"] # "idle" => Runs("scheduler")
=============================================================================
