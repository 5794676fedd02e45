------------------------------ MODULE MCDaemon ------------------------------
(* The process of the daemon, in four views.  A behaviour follows either the *)
(* updates of the daemon command by command, or the life of the process with *)
(* all it starts, or with what chat may tell it, or with what it has the LLM *)
(* analyse; what is not followed stays as it is.                             *)
EXTENDS SelfUpdate, ChatAccess, LlmAnalyses

CONSTANTS
  ada, bob,                    \* users
  near, far                    \* LLM providers

VARIABLE view                  \* fixed

daemonVars == <<vars, lifeVars, accessVars, analysisVars, view>>

Entry(user, form) == [id |-> user, form |-> form]
File(allowed, response) ==
  [loads |-> TRUE, allowed |-> allowed, readonly |-> {}, response |-> response]

\* Ada is an admin and bob may read; or the other way round, and who may read
\* may change things; or the file cannot be loaded.
PlainFile == File(<<Entry(ada, "string"), Entry(bob, "noRole")>>, "invalid")
Files ==
  {PlainFile,
   [File(<<Entry(ada, "readonly"), Entry(bob, "readonly"),
           Entry(ada, "invalidRole"), Entry(bob, "admin")>>, "deny_message")
      EXCEPT !.readonly = {"change"}],
   [File(<<>>, "silent") EXCEPT !.loads = FALSE]}

Rule(kind, provider) == [kind |-> kind, provider |-> provider]

\* Off; one provider; two, with rules that name one that is loaded, one that is
\* not, and none; a provider that is not loaded.
NoLlm == [enabled |-> FALSE, provider |-> near, loaded |-> {near},
          rules |-> <<>>]
Llms ==
  {NoLlm,
   [enabled |-> TRUE, provider |-> "", loaded |-> {near}, rules |-> <<>>],
   [enabled |-> TRUE, provider |-> near, loaded |-> {near},
    rules |-> <<Rule("log_analysis", far), Rule("any", "")>>],
   [enabled |-> TRUE, provider |-> far, loaded |-> {near},
    rules |-> <<Rule("explain_alert", ""), Rule("health_story", near)>>]}

\* The views of chat and of the LLM leave out what is not of their concern.
Followed ==
  IF view = "life" THEN DlConfigs
  ELSE {[chat |-> TRUE, exporter |-> FALSE, updates |-> FALSE]}

DaemonInit ==
  /\ view \in {"update", "life", "access", "analyses"}
  /\ Init /\ (view # "update" => config = [snapshots |-> FALSE, keepLast |-> 0,
                                           reinstall |-> FALSE])
  /\ LifeInit /\ dlConfig \in Followed
  /\ AccessInit /\ (view # "access" => acFile = PlainFile)
  /\ AnalysesInit /\ (view # "analyses" => anConfig = NoLlm)

notUpdate == <<lifeVars, accessVars, analysisVars>>
notLife == <<vars, accessVars, analysisVars>>
notAccess == <<vars, analysisVars>>
notAnalyses == <<vars, accessVars>>

Step(followed, next, rest) == view = followed /\ next /\ UNCHANGED <<view, rest>>

DaemonNext ==
  \/ Step("update", Next, notUpdate)
  \/ Step("life", LifeNext, notLife)
  \/ Step("access", AccessNext, notAccess)
  \/ Step("analyses", AnalysesNext, notAnalyses)

\* What is awaited comes to an end, but for a Discord that does not become
\* ready; a shutdown that has begun goes on.  The views of chat and of the LLM
\* are for invariants only.
DaemonSpec ==
  /\ DaemonInit
  /\ [][DaemonNext]_daemonVars
  /\ WF_daemonVars(Step("update", Proceed, notUpdate))
  /\ WF_daemonVars(Step("update", Exit, notUpdate))
  /\ WF_daemonVars(Step("update", Reexec, notUpdate))
  /\ WF_daemonVars(Step("life", Startup, notLife))
  /\ WF_daemonVars(Step("life", Shutdown, notLife))

DaemonTypeOK == TypeOK /\ LifeTypeOK /\ AccessTypeOK /\ AnalysesTypeOK

\* However an update ends, there is a snapshot to go back to, there are not too
\* many, all of it is on record, and what is installed is what runs.
UpdatesSafe ==
  RollbackPoint /\ SnapshotsBounded /\ SnapshotsAudited /\ InstalledWithCode

\* What chat is refused, and what it is told of analyses, is on record.
ChatOnRecord == RefusalsOnRecord /\ AnalysesOnRecord

\* A daemon that is asked to stop ends (DaemonLife); the other views of the
\* process assume nothing of its fairness.
DaemonStops == view = "life" => StopsWhenAsked
=============================================================================
