------------------------- MODULE ChatConfirmations -------------------------
(***************************************************************************)
(* Commands that change the server wait for a reaction: CommandDispatcher  *)
(* (chat/command_dispatcher.py) keeps what a user was asked to confirm in  *)
(* three maps, one per kind of request, and a check-mark reaction of that  *)
(* user starts what it finds there.  A confirmed configuration change is a *)
(* read-modify-write of config.yaml in a worker thread                     *)
(* (apply_config_change, chat/command_config.py).                          *)
(*                                                                         *)
(* Every message and every reaction is a coroutine of its own, so a        *)
(* request has two program counters: asking, for the command that asks for *)
(* the confirmation, and doing, for the reaction that carries it out.  A   *)
(* step runs from one await to the next; the worker thread's read of the   *)
(* file and its replacement are two steps.  The maps are keyed by adapter, *)
(* channel and user; the model has one channel, so by user.                *)
(***************************************************************************)
EXTENDS Naturals, FiniteSets

CONSTANTS
  Users, Requests,
  Keys,          \* the keys of config.yaml
  TTL,           \* _CONFIRMATION_TTL_SECONDS, in ticks
  Plans,         \* what the requests may be about: a set of functions
  MaxRestarts,   \* bound: how often the daemon is restarted
  Original,      \* the value of a key that nobody changed
  None           \* no request

Kinds == {"config", "tuning", "action"}

\* A !config proposal names one key, !tune-thresholds recommends values for
\* some, !update and !cleanup leave the configuration alone.
Request ==
  {q \in [user : Users, kind : Kinds, keys : SUBSET Keys] :
     /\ q.kind = "config" => \E k \in Keys : q.keys = {k}
     /\ q.kind = "tuning" => q.keys # {}
     /\ q.kind = "action" => q.keys = {}}

ASSUME ChatAssumption ==
  /\ Plans \subseteq [Requests -> Request]
  /\ TTL \in Nat
  /\ MaxRestarts \in Nat
  /\ Original \notin Requests
  /\ None \notin Requests

VARIABLES
  asks,         \* what each request is about; fixed from the start
  faults,       \* may an append, a send or a write raise?  Fixed, too
  asking,       \* where the coroutine of the command awaits
  doing,        \* where the coroutine of the reaction awaits
  pending,      \* _pending_config_changes, _threshold_tunings, _actions
  age,          \* how long the request is in pending, in ticks
  file,         \* config.yaml: which request set each key
  copy,         \* what a worker thread read
  at,           \* the key it is about to change
  applied,      \* keys the reply reports as changed
  failed,       \* keys the reply reports as failed
  audited,      \* keys with a successful config_change record
  restarts,
  runs,         \* history: how often the request was started
  dropped,      \* history: pending requests replaced or lost to a restart
  lastWriter,   \* history: the last request that wrote each key
  overlapped    \* history: did two read-modify-writes ever overlap?

fixedVars == <<asks, faults>>
askVars == <<asking, pending, age, dropped>>
fileVars == <<file, lastWriter>>
threadVars == <<copy, at, overlapped>>
resultVars == <<applied, failed, audited>>
vars == <<fixedVars, askVars, doing, runs, fileVars, threadVars,
          resultVars, restarts>>

AskingStages ==
  {"new", "llm",
   "recordAsk",      \* awaits _record_command, nothing pending yet
   "prompting",      \* already pending; awaits the append and the send
   "shown",          \* the prompt is in the channel
   "answered",       \* there is nothing to confirm
   "lost"}           \* an exception or a restart ended the coroutine

DoingStages ==
  {"idle",
   "apply",          \* about to read config.yaml for the next key
   "write",          \* has read it
   "recordApplied", "recordFailed",
   "run",            \* awaits the tool or the deletions, and the append
   "reply", "told",
   "lost"}

Values == Requests \union {Original}

TypeOK ==
  /\ asks \in [Requests -> Request]
  /\ faults \in BOOLEAN
  /\ asking \in [Requests -> AskingStages]
  /\ doing \in [Requests -> DoingStages]
  /\ pending \in [Kinds -> [Users -> Requests \union {None}]]
  /\ age \in [Requests -> 0 .. TTL + 1]
  /\ file \in [Keys -> Values]
  /\ copy \in [Requests -> [Keys -> Values]]
  /\ at \in [Requests -> Keys \union {None}]
  /\ applied \in [Requests -> SUBSET Keys]
  /\ failed \in [Requests -> SUBSET Keys]
  /\ audited \in [Requests -> SUBSET Keys]
  /\ restarts \in 0 .. MaxRestarts
  /\ runs \in [Requests -> Nat]
  /\ dropped \subseteq Requests
  /\ lastWriter \in [Keys -> Values]
  /\ overlapped \in BOOLEAN

Init ==
  /\ asks \in Plans
  /\ faults \in BOOLEAN
  /\ asking = [r \in Requests |-> "new"]
  /\ doing = [r \in Requests |-> "idle"]
  /\ pending = [k \in Kinds |-> [u \in Users |-> None]]
  /\ age = [r \in Requests |-> 0]
  /\ file = [k \in Keys |-> Original]
  /\ copy = [r \in Requests |-> [k \in Keys |-> Original]]
  /\ at = [r \in Requests |-> None]
  /\ applied = [r \in Requests |-> {}]
  /\ failed = [r \in Requests |-> {}]
  /\ audited = [r \in Requests |-> {}]
  /\ restarts = 0
  /\ runs = [r \in Requests |-> 0]
  /\ dropped = {}
  /\ lastWriter = [k \in Keys |-> Original]
  /\ overlapped = FALSE

-----------------------------------------------------------------------------
(* The command that asks *)

AsksTo(r, from, to) ==
  /\ asking[r] = from
  /\ asking' = [asking EXCEPT ![r] = to]

\* _cmd_config and _cmd_tune_thresholds await the LLM first; handle_message
\* records !update and !cleanup before it asks for the confirmation.
Ask(r) ==
  /\ AsksTo(r, "new", IF asks[r].kind = "action" THEN "recordAsk" ELSE "llm")
  /\ UNCHANGED <<fixedVars, pending, age, dropped, doing, runs, fileVars,
                 threadVars, resultVars, restarts>>

\* Mutant: an unanswered request is kept rather than replaced.
OfferUnlessWaiting(r) ==
  [pending EXCEPT ![asks[r].kind][asks[r].user] = IF @ = None THEN r ELSE @]

\* Mutant: an entry collects requests.
OfferToo(r) == [pending EXCEPT ![asks[r].kind][asks[r].user] = {@, r}]

\* A request is put where an earlier one of that kind and user may wait.
Offer(r) == [pending EXCEPT ![asks[r].kind][asks[r].user] = r]

Replaced(r) == {pending[asks[r].kind][asks[r].user]} \ {None}

\* The ages once the requests of S begin or end to be pending.
Aged(S) == [r \in Requests |-> IF r \in S THEN 0 ELSE age[r]]

\* The proposal or the recommendations have arrived.  The analysis appends
\* to the audit table before it returns; nothing else happens in between.
LlmProposes(r) ==
  /\ AsksTo(r, "llm", "prompting")
  /\ pending' = Offer(r)
  /\ dropped' = dropped \union Replaced(r)
  /\ age' = Aged({r} \union Replaced(r))
  /\ UNCHANGED <<fixedVars, doing, runs, fileVars, threadVars,
                 resultVars, restarts>>

\* A question, no recommendation, or no provider that answers.
LlmDeclines(r) ==
  /\ AsksTo(r, "llm", "answered")
  /\ UNCHANGED <<fixedVars, pending, age, dropped, doing, runs, fileVars,
                 threadVars, resultVars, restarts>>

RequestConfirmation(r) ==
  /\ AsksTo(r, "recordAsk", "prompting")
  /\ pending' = Offer(r)
  /\ dropped' = dropped \union Replaced(r)
  /\ age' = Aged({r} \union Replaced(r))
  /\ UNCHANGED <<fixedVars, doing, runs, fileVars, threadVars,
                 resultVars, restarts>>

\* handle_message has recorded the command and the adapter sent its reply.
Show(r) ==
  /\ AsksTo(r, "prompting", "shown")
  /\ UNCHANGED <<fixedVars, pending, age, dropped, doing, runs, fileVars,
                 threadVars, resultVars, restarts>>

\* The append or the send raises: on_message logs it and the user sees
\* nothing, but what was pending stays so.
AskRaises(r) ==
  /\ faults
  /\ \/ asking[r] \in {"recordAsk", "prompting"}
     \/ asking[r] = "llm" /\ asks[r].kind = "tuning"
  /\ asking' = [asking EXCEPT ![r] = "lost"]
  /\ UNCHANGED <<fixedVars, pending, age, dropped, doing, runs, fileVars,
                 threadVars, resultVars, restarts>>

-----------------------------------------------------------------------------
(* The reaction that confirms *)

Rank == [config |-> 1, tuning |-> 2, action |-> 3]
Waiting(u) == {k \in Kinds : pending[k][u] # None}

\* handle_reaction looks for a configuration change first, then for a tuning,
\* then for an action.  It does not look at the message the reaction is on.
FirstKind(u) == {k \in Waiting(u) : \A j \in Waiting(u) : Rank[k] <= Rank[j]}

Taken(u) == {pending[k][u] : k \in FirstKind(u)}

\* Mutant: only an expired request is deleted at once.
ForgetExpired(u) ==
  [k \in Kinds |->
     [v \in Users |->
        IF v = u /\ k \in FirstKind(u) /\ age[pending[k][v]] > TTL
        THEN None ELSE pending[k][v]]]

\* What is pending once the request that was taken is deleted.
Forget(u) ==
  [k \in Kinds |->
     [v \in Users |->
        IF v = u /\ k \in FirstKind(u) THEN None ELSE pending[k][v]]]

FirstStage(r) == IF asks[r].kind = "action" THEN "run" ELSE "apply"

\* User u reacts to a message of the channel, as often as they like: to the
\* prompt, to another one, to one of before a restart.  An expired request is
\* deleted and the reply says so.  With nothing pending nothing changes.
React(u) ==
  LET started == {r \in Taken(u) : age[r] <= TTL} IN
  /\ Waiting(u) # {}
  /\ pending' = Forget(u)
  /\ age' = Aged(Taken(u))
  /\ doing' = [r \in Requests |->
                 IF r \in started THEN FirstStage(r) ELSE doing[r]]
  /\ runs' = [r \in Requests |->
                IF r \in started THEN runs[r] + 1 ELSE runs[r]]
  /\ UNCHANGED <<fixedVars, asking, dropped, fileVars, threadVars,
                 resultVars, restarts>>

-----------------------------------------------------------------------------
(* Changing config.yaml: _execute_config_change, _execute_threshold_tuning *)

DoesTo(r, from, to) ==
  /\ doing[r] = from
  /\ doing' = [doing EXCEPT ![r] = to]

\* Mutant: a key that failed is tried again.
UnappliedKeys(r) == asks[r].keys \ applied[r]

\* The keys the loop over the recommendations has not come to yet.
KeysLeft(r) == asks[r].keys \ (applied[r] \union failed[r])

\* Mutant: the first failure ends the loop.
AfterKeyGivingUp(r) ==
  IF KeysLeft(r) = {} \/ failed[r] # {} THEN "reply" ELSE "apply"

AfterKey(r) == IF KeysLeft(r) = {} THEN "reply" ELSE "apply"

\* Mutant: the file is read once for all recommendations.
ReadOnce(r) == IF applied[r] \union failed[r] = {} THEN file ELSE copy[r]

ReadFile(r) == file

\* apply_config_change reads the file in a worker thread.
Read(r) ==
  /\ DoesTo(r, "apply", "write")
  /\ \E k \in KeysLeft(r) : at' = [at EXCEPT ![r] = k]
  /\ copy' = [copy EXCEPT ![r] = ReadFile(r)]
  /\ overlapped' = (overlapped \/ \E q \in Requests : doing[q] = "write")
  /\ UNCHANGED <<fixedVars, askVars, runs, fileVars, resultVars, restarts>>

\* os.replace puts the whole copy, with the one key changed, in place.
Write(r) ==
  /\ DoesTo(r, "write", "recordApplied")
  /\ file' = [copy[r] EXCEPT ![at[r]] = r]
  /\ lastWriter' = [lastWriter EXCEPT ![at[r]] = r]
  /\ applied' = [applied EXCEPT ![r] = @ \union {at[r]}]
  /\ UNCHANGED <<fixedVars, askVars, runs, threadVars, failed, audited,
                 restarts>>

\* Reading, parsing or writing raises.
WriteFails(r) ==
  /\ faults
  /\ DoesTo(r, "write", "recordFailed")
  /\ failed' = [failed EXCEPT ![r] = @ \union {at[r]}]
  /\ UNCHANGED <<fixedVars, askVars, runs, fileVars, threadVars, applied,
                 audited, restarts>>

\* Mutant: one record at the end of the loop, for its last key.
AuditedLast(r) ==
  IF KeysLeft(r) = {} THEN audited[r] \union {at[r]} ELSE audited[r]

AuditedNow(r) == audited[r] \union {at[r]}

RecordApplied(r) ==
  /\ DoesTo(r, "recordApplied", AfterKey(r))
  /\ audited' = [audited EXCEPT ![r] = AuditedNow(r)]
  /\ UNCHANGED <<fixedVars, askVars, runs, fileVars, threadVars, applied,
                 failed, restarts>>

\* The append of a tuning is inside its try: the key is reported as failed,
\* although it was changed.
RecordAppliedFails(r) ==
  /\ faults
  /\ asks[r].kind = "tuning"
  /\ DoesTo(r, "recordApplied", "recordFailed")
  /\ failed' = [failed EXCEPT ![r] = @ \union {at[r]}]
  /\ UNCHANGED <<fixedVars, askVars, runs, fileVars, threadVars, applied,
                 audited, restarts>>

RecordFailed(r) ==
  /\ DoesTo(r, "recordFailed", AfterKey(r))
  /\ UNCHANGED <<fixedVars, askVars, runs, fileVars, threadVars,
                 resultVars, restarts>>

-----------------------------------------------------------------------------
(* Actions, replies, and what ends a coroutine early *)

\* _execute_tool_action awaits the tool, _execute_cleanup_action deletes the
\* files; then the command is recorded.
RunAction(r) ==
  /\ DoesTo(r, "run", "reply")
  /\ UNCHANGED <<fixedVars, askVars, runs, fileVars, threadVars,
                 resultVars, restarts>>

Reply(r) ==
  /\ DoesTo(r, "reply", "told")
  /\ UNCHANGED <<fixedVars, askVars, runs, fileVars, threadVars,
                 resultVars, restarts>>

\* An exception that nothing catches before on_reaction_add logs it.
Raises(r) ==
  /\ faults
  /\ \/ doing[r] \in {"recordFailed", "run", "reply"}
     \/ doing[r] = "recordApplied" /\ asks[r].kind = "config"
  /\ doing' = [doing EXCEPT ![r] = "lost"]
  /\ UNCHANGED <<fixedVars, askVars, runs, fileVars, threadVars,
                 resultVars, restarts>>

-----------------------------------------------------------------------------
(* Time and restarts *)

AllPending == {pending[k][u] : k \in Kinds, u \in Users} \ {None}

Tick ==
  /\ \E r \in AllPending : age[r] <= TTL
  /\ age' = [r \in Requests |->
               IF r \in AllPending /\ age[r] <= TTL THEN age[r] + 1 ELSE age[r]]
  /\ UNCHANGED <<fixedVars, asking, pending, dropped, doing, runs,
                 fileVars, threadVars, resultVars, restarts>>

\* The maps and the coroutines are gone.  The prompts stay in the channel.
Restart ==
  /\ restarts < MaxRestarts
  /\ restarts' = restarts + 1
  /\ pending' = [k \in Kinds |-> [u \in Users |-> None]]
  /\ dropped' = dropped \union AllPending
  /\ age' = Aged(AllPending)
  /\ asking' = [r \in Requests |->
                  IF asking[r] \in {"new", "shown", "answered"} THEN asking[r]
                  ELSE "lost"]
  /\ doing' = [r \in Requests |->
                 IF doing[r] \in {"idle", "told"} THEN doing[r] ELSE "lost"]
  /\ UNCHANGED <<fixedVars, runs, fileVars, threadVars, resultVars>>

AskStep(r) ==
  \/ LlmProposes(r) \/ LlmDeclines(r) \/ RequestConfirmation(r)
  \/ Show(r) \/ AskRaises(r)

DoStep(r) ==
  \/ Read(r) \/ Write(r) \/ WriteFails(r)
  \/ RecordApplied(r) \/ RecordAppliedFails(r) \/ RecordFailed(r)
  \/ RunAction(r) \/ Reply(r) \/ Raises(r)

Next ==
  \/ \E r \in Requests : Ask(r) \/ AskStep(r) \/ DoStep(r)
  \/ \E u \in Users : React(u)
  \/ Tick
  \/ Restart

Spec == Init /\ [][Next]_vars

\* The event loop resumes a coroutine whose await is over; the provider, the
\* table, the worker thread, the tool and the adapter answer in the end.
FairSpec ==
  /\ Spec
  /\ \A r \in Requests : WF_vars(AskStep(r)) /\ WF_vars(DoStep(r))

-----------------------------------------------------------------------------
(* Properties *)

\* A request is carried out at most once, however often its user reacts and
\* whatever the daemon awaits meanwhile (handle_reaction deletes the request
\* before its first await).
RunsOnce == \A r \in Requests : runs[r] <= 1

\* A reaction starts at most one request, and takes nothing else from what is
\* pending: nothing of another user, and no second request of the same one.
OneRunPerTick ==
  [][\A r \in Requests :
       runs'[r] > runs[r] =>
         /\ \A q \in Requests \ {r} : runs'[q] = runs[q]
         /\ \A k \in Kinds, u \in Users :
              pending'[k][u] # pending[k][u] =>
                u = asks[r].user /\ pending[k][u] = r]_vars

\* What starts was still pending: it had not expired, no later request of the
\* kind had replaced it and no restart had come between.
DeadNeverRuns ==
  [][\A r \in Requests :
       runs'[r] > runs[r] => age[r] <= TTL /\ r \notin dropped]_vars

\* As long as no two changes are made at the same time, config.yaml holds
\* what was written last to each of its keys, also across a restart.
SerialChangesStick ==
  ~overlapped => \A k \in Keys : file[k] = lastWriter[k]

\* A change that is in config.yaml is in the audit table, or its append is
\* awaited, or the append failed or a restart cut it off; of one request that
\* is so for the key it handled last only, unless the table refused others.
FileAudited ==
  \A r \in Requests, k \in Keys :
    file[k] = r =>
      \/ k \in audited[r]
      \/ at[r] = k /\ doing[r] \in {"recordApplied", "recordFailed", "lost"}
      \/ faults /\ k \in failed[r]

\* A reply accounts for every key of the request, and says of a key that it
\* failed only if the request has not changed it or it could not be recorded.
RepliesTellAll ==
  \A r \in Requests :
    doing[r] = "told" =>
      /\ asks[r].keys = applied[r] \union failed[r]
      /\ \A k \in failed[r] :
           faults /\ k \notin audited[r] /\ (file[k] = r => k \in applied[r])

\* A user whose reaction started something hears of it, unless an exception
\* or a restart ends the coroutine.
Answered ==
  \A r \in Requests :
    runs[r] > 0 ~>
      \/ doing[r] = "told"
      \/ doing[r] = "lost" /\ (faults \/ restarts > 0)

\* user_stories/US-044: the admin must confirm the proposed change before it
\* is written.  The code confirms what is pending, whatever the reaction was to:
\* a change can be started whose proposal nobody has been shown.
ConfirmedAsAsked ==
  [][\A r \in Requests :
       asks[r].kind = "config" /\ runs'[r] > runs[r] => asking[r] = "shown"]_vars

\* user_stories/US-044: on confirmation the config is updated.  The code
\* loses one of two changes that are made at the same time.
AppliedChangesStick ==
  \A r \in Requests, k \in Keys :
    doing[r] = "told" /\ lastWriter[k] = r => file[k] = r
=============================================================================
