----------------------------- MODULE ChatAccess -----------------------------
(***************************************************************************)
(* Who may tell the daemon what: ChatAccessControl (chat/access_control.py)*)
(* and its callers in run_daemon, the handlers of inbound messages and     *)
(* reactions and of the reload signal (core/daemon.py).                    *)
(*                                                                         *)
(* The configuration file is edited at any time, and read when the process *)
(* starts and after each SIGHUP, by a task of its own.  A message is       *)
(* decided on when it comes; what follows is awaited, and a reload may     *)
(* come between any two awaits.                                            *)
(***************************************************************************)
EXTENDS DaemonLife, FiniteSets, Sequences

CONSTANTS
  AcUsers,
  AcFiles,        \* the contents the file may have
  AcMaxEdits,     \* bound: edits of the file
  AcMaxSignals,   \* bound: reload signals
  AcMaxMessages   \* bound: messages and reactions

\* What the file says: whether it can be loaded at all, the entries of
\* allowed_users, readonly_commands, and unauthorized_response.  What is not
\* of the expected type is as if it were empty.
EntryForms == {"string", "admin", "readonly", "noRole", "invalidRole"}
Commands == {"query", "change", "talk"}     \* talk: no command at all
AcFileType ==
  [loads : BOOLEAN,
   allowed : Seq([id : AcUsers, form : EntryForms]),
   readonly : SUBSET {"query", "change"},
   response : {"silent", "deny_message", "invalid"}]

ASSUME AccessAssumption ==
  /\ IsFiniteSet(AcUsers)
  /\ AcFiles \subseteq AcFileType
  /\ AcMaxEdits \in Nat /\ AcMaxSignals \in Nat /\ AcMaxMessages \in Nat

VARIABLES
  acFile,       \* config.yaml
  acPolicy,     \* what was loaded last
  acReloads,    \* reload tasks that have not had their first turn
  acRecords,    \* reload tasks that await their audit record
  acAt,         \* what the message of a user awaits
  acAsked,      \* the command it is about
  acPending,    \* the users whose change waits for their check mark
  acEdits, acSignals, acMessages,
  acUnsignalled,\* history: edited since the file was read or a signal came?
  acRefused,    \* history: how many messages were refused
  acOnRecord,   \* history: how many refusals are on record
  acUnrecorded  \* history: records that failed or were cut off

taskVars == <<acReloads, acRecords>>
messageVars == <<acAt, acAsked, acPending>>
boundVars == <<acEdits, acSignals, acMessages>>
countVars == <<acRefused, acOnRecord, acUnrecorded>>
accessVars == <<acFile, acPolicy, taskVars, messageVars, boundVars,
                acUnsignalled, countVars>>

Roles == {"admin", "readonly", "none"}
Policies ==
  [role : [AcUsers -> Roles], readonly : SUBSET Commands, deny : BOOLEAN]

AccessTypeOK ==
  /\ acFile \in AcFiles
  /\ acPolicy \in Policies
  /\ acReloads \in 0 .. AcMaxSignals /\ acRecords \in 0 .. AcMaxSignals
  /\ acAt \in [AcUsers -> {"none", "publish", "handle", "record", "reject"}]
  /\ acAsked \in [AcUsers -> Commands]
  /\ acPending \subseteq AcUsers
  /\ acEdits \in 0 .. AcMaxEdits /\ acSignals \in 0 .. AcMaxSignals
  /\ acMessages \in 0 .. AcMaxMessages
  /\ acUnsignalled \in BOOLEAN
  /\ {acRefused, acOnRecord, acUnrecorded} \subseteq 0 .. AcMaxMessages

-----------------------------------------------------------------------------
(* The policy of a configuration *)

\* _parse_allowed_users: a string is an admin, an object without a role may
\* only read, one with a role that does not exist is ignored.
RoleOfForm(form) ==
  CASE form \in {"string", "admin"}    -> "admin"
    [] form \in {"readonly", "noRole"} -> "readonly"
    [] form = "invalidRole"            -> "none"

\* Of several entries for one user the last that is not ignored counts.
EntriesFor(file, user) ==
  {i \in DOMAIN file.allowed : /\ file.allowed[i].id = user
                               /\ RoleOfForm(file.allowed[i].form) # "none"}
RoleIn(file, user) ==
  LET entries == EntriesFor(file, user)
      last == CHOOSE i \in entries : \A j \in entries : j <= i
  IN  IF entries = {} THEN "none" ELSE RoleOfForm(file.allowed[last].form)

\* _parse_readonly_commands: the built-in set, unless one is configured.
ReadonlyCommands(file) ==
  IF file.readonly = {} THEN {"query"} ELSE file.readonly

\* _parse_unauthorized_response: silent, unless told otherwise.
DeniesByMessage(file) == file.response = "deny_message"

\* ChatAccessControl.reload
PolicyOf(file) ==
  [role |-> [u \in AcUsers |-> RoleIn(file, u)],
   readonly |-> ReadonlyCommands(file),
   deny |-> DeniesByMessage(file)]

\* ChatAccessControl.authorize; _extract_command finds no command in a talk.
Authorized(user, command) ==
  \/ acPolicy.role[user] = "admin"
  \/ acPolicy.role[user] = "readonly" /\ command \in acPolicy.readonly \union {"talk"}

AccessInit ==
  /\ acFile \in {f \in AcFiles : f.loads}
  /\ acPolicy = PolicyOf(acFile)
  /\ acReloads = 0 /\ acRecords = 0
  /\ acAt = [u \in AcUsers |-> "none"]
  /\ acAsked = [u \in AcUsers |-> "talk"]
  /\ acPending = {}
  /\ acEdits = 0 /\ acSignals = 0 /\ acMessages = 0
  /\ acUnsignalled = FALSE
  /\ acRefused = 0 /\ acOnRecord = 0 /\ acUnrecorded = 0

-----------------------------------------------------------------------------
(* Reloads *)

Edit ==
  /\ acEdits < AcMaxEdits
  /\ acEdits' = acEdits + 1
  /\ acFile' \in AcFiles \ {acFile}
  /\ acUnsignalled' = TRUE
  /\ UNCHANGED <<lifeVars, acPolicy, taskVars, messageVars, acSignals,
                 acMessages, countVars>>

\* Mutant: a signal is dropped while the task of an earlier one is not done.
NewReloadUnlessBusy ==
  acReloads' = IF acReloads + acRecords = 0 THEN 1 ELSE acReloads

\* _on_reload_signal: a task for each signal.
NewReload == acReloads' = acReloads + 1

\* SIGHUP, once its handler is installed; before that it ends the process.
ReloadSignal ==
  /\ dlPhase \notin {"down", "connect"}
  /\ acSignals < AcMaxSignals
  /\ acSignals' = acSignals + 1
  /\ NewReload
  /\ acUnsignalled' = FALSE
  /\ UNCHANGED <<lifeVars, acFile, acPolicy, acRecords, messageVars, acEdits,
                 acMessages, countVars>>

\* _reload_chat_access_config up to its record: a file that cannot be loaded
\* leaves the policy as it is.
Reload ==
  /\ acReloads > 0
  /\ acReloads' = acReloads - 1
  /\ acRecords' = acRecords + 1
  /\ acPolicy' = IF acFile.loads THEN PolicyOf(acFile) ELSE acPolicy
  /\ UNCHANGED <<lifeVars, acFile, messageVars, boundVars, acUnsignalled,
                 countVars>>

\* Its record, or an exception that nobody looks at.
ReloadDone ==
  /\ acRecords > 0
  /\ acRecords' = acRecords - 1
  /\ UNCHANGED <<lifeVars, acFile, acPolicy, acReloads, messageVars, boundVars,
                 acUnsignalled, countVars>>

-----------------------------------------------------------------------------
(* Messages and reactions *)

\* Discord hands over messages from the moment it is ready.
Listening == Runs("adapters") /\ dlReady /\ acMessages < AcMaxMessages

MessageAt(user, at) == acAt' = [acAt EXCEPT ![user] = at]
Asks(user, command) == acAsked' = [acAsked EXCEPT ![user] = command]
Over(user) == MessageAt(user, "none") /\ Asks(user, "talk")

\* What a message changes neither in the policy nor in the reloads.
policyVars == <<acFile, acPolicy, taskVars, acEdits, acSignals, acUnsignalled>>

\* Mutant: a refusal of which the user is told is not recorded.
RefuseUntold(user) ==
  /\ acRefused' = acRefused + 1
  /\ MessageAt(user, IF acPolicy.deny THEN "none" ELSE "reject")

\* audit_rejection comes first, the reply, if there is one, after it.
Refuse(user) ==
  /\ acRefused' = acRefused + 1
  /\ MessageAt(user, "reject")

\* _handle_inbound_message; one message of a user at a time is followed.
Receive(user, command) ==
  /\ Listening /\ acAt[user] = "none"
  /\ acMessages' = acMessages + 1
  /\ Asks(user, command)
  /\ \/ /\ Authorized(user, command)
        /\ MessageAt(user, "publish")
        /\ UNCHANGED acRefused
     \/ /\ ~Authorized(user, command)
        /\ Refuse(user)
  /\ UNCHANGED <<lifeVars, policyVars, acPending, acOnRecord, acUnrecorded>>

\* The append may raise, and does once the database is being closed.
Rejected(user) ==
  /\ acAt[user] = "reject"
  /\ \/ acOnRecord' = acOnRecord + 1 /\ UNCHANGED <<dlFaults, acUnrecorded>>
     \/ /\ acUnrecorded' = acUnrecorded + 1 /\ UNCHANGED acOnRecord
        /\ LifeFault \/ (dlPhase = "closeDatabase" /\ UNCHANGED dlFaults)
  /\ Over(user)
  /\ UNCHANGED <<restVars, dlPhase, dlStarted, dlUpdater, policyVars, acPending,
                 acMessages, acRefused>>

messageRest == <<lifeVars, policyVars, acMessages, countVars>>

\* chat.command.authorized is published; the dispatcher takes only commands.
Published(user) ==
  /\ acAt[user] = "publish"
  /\ IF acAsked[user] = "talk" THEN Over(user)
     ELSE MessageAt(user, "handle") /\ UNCHANGED acAsked
  /\ UNCHANGED <<messageRest, acPending>>

\* A query is carried out and then recorded; a change is recorded and then
\* waits for the check mark of its user.
Handled(user) ==
  /\ acAt[user] = "handle"
  /\ MessageAt(user, "record")
  /\ UNCHANGED <<messageRest, acAsked, acPending>>

\* A handler or its record raises, or the user is answered.
CommandDone(user) ==
  /\ acAt[user] \in {"handle", "record"}
  /\ Over(user)
  /\ \/ UNCHANGED acPending
     \/ /\ acAt[user] = "record" /\ acAsked[user] = "change"
        /\ acPending' = acPending \union {user}
  /\ UNCHANGED messageRest

\* A reaction goes to the dispatcher without a decision: it confirms what the
\* user was allowed to ask for then.
Confirm(user) ==
  /\ Listening
  /\ user \in acPending
  /\ acMessages' = acMessages + 1
  /\ acPending' = acPending \ {user}
  /\ UNCHANGED <<lifeVars, policyVars, acAt, acAsked, countVars>>

-----------------------------------------------------------------------------
(* What the steps of the daemon mean for all this *)

Refusals == {u \in AcUsers : acAt[u] = "reject"}

\* The process is gone, and its tasks with it.
AccessCutOff ==
  /\ acReloads' = 0 /\ acRecords' = 0
  /\ acAt' = [u \in AcUsers |-> "none"]
  /\ acAsked' = [u \in AcUsers |-> "talk"]
  /\ acPending' = {}
  /\ acUnrecorded' = acUnrecorded + Cardinality(Refusals)
  /\ UNCHANGED <<acFile, acPolicy, boundVars, acUnsignalled, acRefused,
                 acOnRecord>>

\* _load_config: a file that cannot be loaded ends the process at once.
AccessLoaded ==
  /\ acFile.loads
  /\ acPolicy' = PolicyOf(acFile)
  /\ acUnsignalled' = FALSE
  /\ UNCHANGED <<acFile, taskVars, messageVars, boundVars, countVars>>

\* The shutdown cancels the reload tasks there are; a later signal makes more.
ReloadsCancelled ==
  /\ acReloads' = 0 /\ acRecords' = 0
  /\ acUnsignalled' = (acUnsignalled \/ acReloads > 0)
  /\ UNCHANGED <<acFile, acPolicy, messageVars, boundVars, countVars>>

WithDaemon ==
  /\ LifeNext
  /\ CASE dlPhase' = "down" -> AccessCutOff
       [] dlPhase = "down" /\ dlPhase' # "down" -> AccessLoaded
       [] dlPhase = "stopReloads" /\ dlPhase' = "stopExporter" -> ReloadsCancelled
       [] OTHER -> UNCHANGED accessVars

AccessNext ==
  \/ WithDaemon
  \/ Edit \/ ReloadSignal \/ Reload \/ ReloadDone
  \/ \E u \in AcUsers :
       \/ \E c \in Commands : Receive(u, c)
       \/ Rejected(u) \/ Published(u) \/ Handled(u) \/ CommandDone(u)
       \/ Confirm(u)

AccessSpec == LifeInit /\ AccessInit /\ [][AccessNext]_<<lifeVars, accessVars>>

-----------------------------------------------------------------------------
(* Properties *)

\* Once the signal that follows an edit has been dealt with, the policy is
\* that of the file, however many signals, reloads and messages were under way
\* (user_stories/US-034: changes take effect on the next reload).
AccessFollowsConfig ==
  dlPhase # "down" /\ acReloads = 0 /\ ~acUnsignalled /\ acFile.loads =>
    acPolicy = PolicyOf(acFile)

\* Every refusal is on record, is being recorded, or is among those whose
\* record failed or was cut off (user_stories/US-034).
RefusalsOnRecord ==
  acRefused = acOnRecord + Cardinality(Refusals) + acUnrecorded
=============================================================================
