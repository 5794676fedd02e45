------------------------ MODULE AlertPipelineProofs ------------------------
(***************************************************************************)
(* What AlertPipeline guarantees for any set of alerts, any window of      *)
(* quiet hours and any configuration.                                      *)
(***************************************************************************)
EXTENDS AlertPipeline, TLAPS

-----------------------------------------------------------------------------
(* The quiet-hours arithmetic, for a day of any length, every window and   *)
(* every time of day                                                       *)

\* At a quiet time of day the computed sleep is at least one tick and at most
\* a day, and it ends exactly at the window's end, today or tomorrow
\* (quiet_hours_end; _ensure_quiet_alert_flush_scheduled).
LEMMA FlushDelayEndsAtEnd ==
  ASSUME NEW t \in TimeOfDay, NEW s \in TimeOfDay, NEW e \in TimeOfDay,
         IsActive(t, s, e)
  PROVE  /\ FlushDelay(t, s, e) \in 1 .. DayLen
         /\ \/ t + FlushDelay(t, s, e) = e
            \/ t + FlushDelay(t, s, e) = e + DayLen
  BY DayLenAssumption DEF TimeOfDay, IsActive, FlushDelay, QuietHoursEnd

\* The clock reads a time of day again after each tick.
LEMMA NextTimeType ==
  ASSUME NEW t \in TimeOfDay
  PROVE  NextTime(t) \in TimeOfDay
  BY DayLenAssumption DEF TimeOfDay, NextTime

\* A window can only stop being active at its end
\* (QuietHoursWindow.is_active).
LEMMA QuietEndsOnlyAtEnd ==
  ASSUME NEW t \in TimeOfDay, NEW s \in TimeOfDay, NEW e \in TimeOfDay,
         IsActive(t, s, e), NextTime(t) # e
  PROVE  IsActive(NextTime(t), s, e)
  BY DayLenAssumption DEF TimeOfDay, IsActive, NextTime

\* And it does stop there, unless it is the window that is always active.
LEMMA QuietIsOverAtEnd ==
  ASSUME NEW s \in TimeOfDay, NEW e \in TimeOfDay, s # e
  PROVE  ~IsActive(e, s, e)
  BY DayLenAssumption DEF TimeOfDay, IsActive

\* The computed sleep never exceeds a day, quiet or not.
LEMMA FlushDelayType ==
  ASSUME NEW t \in TimeOfDay, NEW s \in TimeOfDay, NEW e \in TimeOfDay
  PROVE  FlushDelay(t, s, e) \in 0 .. DayLen
  BY DayLenAssumption DEF TimeOfDay, FlushDelay, QuietHoursEnd

-----------------------------------------------------------------------------
(* Types *)

LEMMA TypeInit == Init => TypeOK
  BY DayLenAssumption, PipelineAssumption
  DEF Init, TypeOK, Severities, Info, Warning, Critical, HandlerStates, Config,
      TimeOfDay, NoTask

\* Each step of a handler coroutine keeps the types.
LEMMA HandlerType ==
  ASSUME TypeOK, NEW a \in Alerts, Handle(a)
  PROVE  TypeOK'
<1> USE PipelineAssumption DEF TypeOK, HandlerStates, Goto, GoOn, Tell,
        quietVars, correlationVars, timeVars, runVars, historyVars
<1>1. CASE Broadcast(a)
  BY <1>1 DEF Broadcast
<1>2. CASE RecordSuppressed(a)
  BY <1>2 DEF RecordSuppressed
<1>3. CASE RecordNotified(a)
  BY <1>3 DEF RecordNotified, AfterRecord
<1>4. CASE RecordThenSubmit(a)
  BY <1>4 DEF RecordThenSubmit, Submit, NoTask
<1>5. CASE LlmAnswers(a) \/ LlmFails(a) \/ LlmIsLate(a) \/ RecordOutcome(a)
  BY <1>5 DEF LlmAnswers, LlmFails, LlmIsLate, RecordOutcome
<1>6. CASE Advise(a)
  BY <1>6 DEF Advise
<1> QED
  BY <1>1, <1>2, <1>3, <1>4, <1>5, <1>6 DEF Handle

\* So does raising an alert.
LEMMA RaiseType ==
  ASSUME TypeOK, NEW a \in Alerts, NEW s \in Severities, Raise(a, s)
  PROVE  TypeOK'
<1> USE PipelineAssumption DEF TypeOK, Raise, HandlerStates, Goto, quietVars,
        correlationVars, timeVars, runVars
<1>1. CASE Discard(a, s)
  BY <1>1 DEF Discard
<1>2. CASE QueueForDigest(a, s)
  BY <1>2, FlushDelayType DEF QueueForDigest, EnsureFlushScheduled, Config
<1>3. CASE Notify(a, s)
  BY <1>3 DEF Notify
<1> QED
  BY <1>1, <1>2, <1>3

\* So do the digest's task and the correlator's tasks.
LEMMA TasksType ==
  ASSUME TypeOK, FlushTask \/ Correlate
  PROVE  TypeOK'
<1> USE PipelineAssumption DEF TypeOK, Tell, handlerVars, quietVars,
        timeVars, runVars, historyVars
<1>1. CASE FlushQuietQueue
  BY <1>1 DEF FlushQuietQueue, correlationVars
<1>2. CASE DigestSent
  BY <1>2 DEF DigestSent, correlationVars
<1>3. CASE DigestRecorded
  BY <1>3 DEF DigestRecorded, correlationVars
<1>4. CASE WindowEnds
  BY <1>4 DEF WindowEnds, NoTask
<1>5. CASE StartFlush
  <2>1. NewBatch(pending) \in Batches
    BY DEF NewBatch, Batches, BatchStages
  <2>2. batches' \subseteq Batches
    BY <1>5, <2>1 DEF StartFlush
  <2>3. flushes' \in Nat
    BY <1>5 DEF StartFlush
  <2> QED
    BY <1>5, <2>2, <2>3 DEF StartFlush
<1>6. ASSUME NEW b \in batches, Deliver(b)
      PROVE  TypeOK'
  <2> USE DEF Replace, Batches, BatchStages
  <2>1. CASE Verdict(b)
    BY <1>6, <2>1 DEF Verdict
  <2>2. CASE SendReport(b)
    BY <1>6, <2>2 DEF SendReport
  <2>3. ASSUME NEW a \in b.todo, SendEach(b, a)
        PROVE  TypeOK'
    <3>1. Without(b, a) \in Batches
      BY <1>6 DEF Without
    <3>2. batches' \subseteq Batches
      BY <1>6, <2>3, <3>1 DEF SendEach
    <3> QED
      BY <1>6, <2>3, <3>2 DEF SendEach
  <2>4. CASE RecordDecision(b)
    BY <1>6, <2>4 DEF RecordDecision
  <2> QED
    BY <1>6, <2>1, <2>2, <2>3, <2>4 DEF Deliver
<1> QED
  BY <1>1, <1>2, <1>3, <1>4, <1>5, <1>6 DEF FlushTask, Correlate

LEMMA TypeStep == TypeOK /\ [Next]_vars => TypeOK'
<1> SUFFICES ASSUME TypeOK, [Next]_vars
             PROVE  TypeOK'
  OBVIOUS
<1> USE DayLenAssumption, PipelineAssumption
<1>1. ASSUME NEW d \in 0 .. MaxMute, Mute(d)
      PROVE  TypeOK'
  BY <1>1 DEF TypeOK, Mute, handlerVars, quietVars, correlationVars,
              runVars, historyVars
<1>2. CASE Tick
  <2>1. now' \in TimeOfDay
    BY <1>2, NextTimeType DEF Tick, TypeOK
  <2> QED
    BY <1>2, <2>1 DEF Tick, NoWakeDue, CountDown, NoTask, TypeOK,
                      handlerVars, runVars, historyVars
<1>3. CASE Restart
  BY <1>3 DEF Restart, TypeOK, HandlerStates, NoTask, Held, InHandler,
              InBatches, ToldBy, Batches, BatchStages
<1>4. CASE UNCHANGED vars
  BY <1>4 DEF TypeOK, vars, handlerVars, quietVars, correlationVars,
              timeVars, runVars, historyVars
<1> QED
  BY <1>1, <1>2, <1>3, <1>4, RaiseType, HandlerType, TasksType DEF Next

\* Every state of the pipeline is well typed: the clock and the sleeps stay in
\* a day, and no counter goes below what asyncio could hold.
THEOREM TypeCorrect == Spec => []TypeOK
  BY TypeInit, TypeStep, PTL DEF Spec

-----------------------------------------------------------------------------
(* Every alert is in one place.  Every step but Raise and Restart moves a  *)
(* set of alerts from one place to another, or moves none; the invariant   *)
(* is kept because of that, and only the batches need more: each of them   *)
(* tells of alerts that no other batch has and that chat has not heard of. *)

Raised == {a \in Alerts : pc[a] # "new"}

BatchesApart ==
  /\ \A b \in batches : b.todo \subseteq b.members
  /\ \A b, c \in batches : b # c => b.members \cap c.members = {}
  /\ \A b \in batches : b.members \subseteq ToldBy(b) \cup In("told")

AccountInv == TypeOK /\ AccountedFor /\ BatchesApart /\ ToldOnce

\* There is a digest only while it is being sent.
DigestOnlyInFlight == digest # {} => flushTask = "sending"

\* The alerts of S, and only they, go from one place to another.
Moves(S, from, to) ==
  /\ S \subseteq In(from)
  /\ In(from)' = In(from) \ S
  /\ In(to)' = In(to) \cup S
  /\ \A p \in Places \ {from, to} : In(p)' = In(p)
  /\ Raised' = Raised

\* No alert goes anywhere.
StaysPut ==
  /\ \A p \in Places : In(p)' = In(p)
  /\ Raised' = Raised

LEMMA AccountedAlt ==
  AccountedFor <=> /\ \A p, q \in Places : p # q => In(p) \cap In(q) = {}
                   /\ UNION {In(p) : p \in Places} = Raised
  BY DEF AccountedFor, Raised

LEMMA MoveKeepsAccount ==
  ASSUME AccountedFor, NEW from \in Places, NEW to \in Places, from # to,
         NEW S, Moves(S, from, to)
  PROVE  AccountedFor'
<1>1. \A p, q \in Places : p # q => In(p)' \cap In(q)' = {}
  BY AccountedAlt DEF Moves
<1>2. UNION {In(p)' : p \in Places} = UNION {In(p) : p \in Places}
  BY DEF Moves
<1> QED
  BY <1>1, <1>2, AccountedAlt DEF AccountedFor, Moves, Raised

LEMMA StayKeepsAccount ==
  ASSUME AccountedFor, StaysPut
  PROVE  AccountedFor'
<1>1. UNION {In(p)' : p \in Places} = UNION {In(p) : p \in Places}
  BY DEF StaysPut
<1> QED
  BY <1>1 DEF StaysPut, AccountedFor, Raised

\* In, place by place.
LEMMA InPlaces ==
  /\ In("handler") = InHandler
  /\ In("queue") = quietQueue
  /\ In("digest") = digest
  /\ In("pending") = pending
  /\ In("batches") = InBatches
  /\ In("told") = {a \in Alerts : told[a] > 0}
  /\ In("dropped") = dropped
  /\ In("lost") = lost
  BY DEF In

LEMMA InPlacesNext ==
  /\ In("handler")' = InHandler'
  /\ In("queue")' = quietQueue'
  /\ In("digest")' = digest'
  /\ In("pending")' = pending'
  /\ In("batches")' = InBatches'
  /\ In("told")' = {a \in Alerts : told'[a] > 0}
  /\ In("dropped")' = dropped'
  /\ In("lost")' = lost'
  BY DEF In

\* Nobody is told of an alert twice: what is told now had not been told.
LEMMA TellKeepsToldOnce ==
  ASSUME TypeOK, ToldOnce, NEW S \in SUBSET Alerts, S \cap In("told") = {},
         Tell(S)
  PROVE  /\ ToldOnce'
         /\ In("told")' = In("told") \cup S
<1>1. \A a \in S : told[a] = 0
  BY InPlaces DEF TypeOK
<1>2. told' \in [Alerts -> Nat]
  BY DEF Tell, TypeOK
<1>3. ToldOnce'
  BY <1>1 DEF Tell, TypeOK, ToldOnce
<1>4. \A a \in Alerts : told'[a] > 0 <=> (told[a] > 0 \/ a \in S)
  BY DEF Tell, TypeOK
<1> QED
  BY <1>3, <1>4, InPlaces, InPlacesNext

\* A handler's step takes its alert to chat, to the buffer or to a failed
\* append, or leaves every alert where it is.
LEMMA HandlerMoves ==
  ASSUME AccountInv, NEW a \in Alerts, Handle(a)
  PROVE  AccountInv'
<1> USE DEF AccountInv
<1>1. TypeOK'
  BY HandlerType
<1>2. \E state \in HandlerStates \ {"new", "broadcast", "recordThenSubmit"} :
        Goto(a, state)
  BY DEF Handle, Broadcast, RecordSuppressed, RecordNotified, AfterRecord,
         RecordThenSubmit, LlmAnswers, LlmFails, LlmIsLate, Advise,
         RecordOutcome, GoOn, HandlerStates
<1>3. /\ pc[a] # "new"
      /\ Raised' = Raised
      /\ InHandler' = InHandler \ {a}
  BY <1>2 DEF Handle, Broadcast, RecordSuppressed, RecordNotified,
         RecordThenSubmit, LlmAnswers, LlmFails, LlmIsLate, Advise,
         RecordOutcome, GoOn, Goto, TypeOK, Raised, InHandler
<1>4. CASE Broadcast(a)
  <2>1. a \in In("handler") /\ a \notin In("told")
    BY <1>4, InPlaces DEF Broadcast, InHandler, AccountedFor, Places
  <2>2. ToldOnce' /\ In("told")' = In("told") \cup {a}
    BY <1>4, <2>1, TellKeepsToldOnce DEF Broadcast
  <2>3. batches' = batches /\ InBatches' = InBatches
    BY <1>4 DEF Broadcast, correlationVars, InBatches, ToldBy
  <2>4. Moves({a}, "handler", "told")
    BY <1>3, <1>4, <2>1, <2>2, <2>3, InPlaces, InPlacesNext
    DEF Broadcast, Moves, Places, quietVars, correlationVars
  <2>5. BatchesApart'
    BY <2>2, <2>3 DEF BatchesApart, ToldBy
  <2> QED
    BY <1>1, <2>2, <2>4, <2>5, MoveKeepsAccount DEF Places
<1>5. CASE RecordThenSubmit(a)
  <2>1. a \in In("handler")
    BY <1>5, InPlaces DEF RecordThenSubmit, InHandler
  <2>2. batches' = batches /\ InBatches' = InBatches /\ told' = told
    BY <1>5 DEF RecordThenSubmit, Submit, correlationVars, InBatches, ToldBy
  <2>3. BatchesApart' /\ ToldOnce'
    BY <2>2, InPlaces, InPlacesNext DEF BatchesApart, ToldBy, ToldOnce
  <2>4. \/ Moves({a}, "handler", "pending")
        \/ Moves({a}, "handler", "lost")
    BY <1>3, <1>5, <2>1, <2>2, InPlaces, InPlacesNext
    DEF RecordThenSubmit, Submit, Moves, Places, quietVars, correlationVars
  <2> QED
    BY <1>1, <2>3, <2>4, MoveKeepsAccount DEF Places
<1>6. CASE ~(Broadcast(a) \/ RecordThenSubmit(a))
  <2>1. a \notin InHandler
    BY <1>6 DEF Handle, RecordSuppressed, RecordNotified, LlmAnswers,
       LlmFails, LlmIsLate, Advise, RecordOutcome, GoOn, InHandler
  <2>2. UNCHANGED <<quietVars, correlationVars, told, dropped, lost>>
    BY <1>6 DEF Handle, RecordSuppressed, RecordNotified, LlmAnswers,
       LlmFails, LlmIsLate, Advise, RecordOutcome, GoOn, historyVars
  <2>3. InBatches' = InBatches
    BY <2>2 DEF correlationVars, InBatches, ToldBy
  <2>4. StaysPut
    BY <1>3, <2>1, <2>2, <2>3, InPlaces, InPlacesNext
    DEF StaysPut, Places, quietVars, correlationVars
  <2>5. BatchesApart' /\ ToldOnce'
    BY <2>2, <2>4, InPlaces, InPlacesNext
    DEF correlationVars, BatchesApart, ToldBy, ToldOnce
  <2> QED
    BY <1>1, <2>4, <2>5, StayKeepsAccount
<1> QED
  BY <1>4, <1>5, <1>6

\* A raised alert enters one place.
LEMMA RaiseMoves ==
  ASSUME AccountInv, NEW a \in Alerts, NEW s \in Severities, Raise(a, s)
  PROVE  AccountInv'
<1> USE DEF AccountInv
<1>1. TypeOK'
  BY RaiseType
<1>2. pc[a] = "new" /\ Raised' = Raised \cup {a}
  BY DEF Raise, Discard, QueueForDigest, Notify, Goto, TypeOK, Raised
<1>3. \A p \in Places : a \notin In(p)
  BY <1>2, AccountedAlt DEF Raised
<1>4. told' = told /\ batches' = batches /\ InBatches' = InBatches
  BY DEF Raise, correlationVars, InBatches, ToldBy
<1>5. BatchesApart' /\ ToldOnce'
  BY <1>4, InPlaces, InPlacesNext DEF BatchesApart, ToldBy, ToldOnce
<1>6. PICK to \in Places :
        /\ In(to)' = In(to) \cup {a}
        /\ \A p \in Places \ {to} : In(p)' = In(p)
  <2>1. InHandler' = InHandler \cup (IF Notify(a, s) THEN {a} ELSE {})
    BY <1>2 DEF Raise, Discard, QueueForDigest, Notify, Goto, TypeOK,
                InHandler, BelowMinimum, MutedAway, QueuedAway, Notified
  <2>2. CASE Discard(a, s)
    <3>1. ~Notify(a, s)
      BY <2>2 DEF Discard, Notify, Notified
    <3> QED
      BY <1>4, <2>1, <2>2, <3>1, InPlaces, InPlacesNext
      DEF Raise, Discard, Places, quietVars, correlationVars
  <2>3. CASE QueueForDigest(a, s)
    <3>1. ~Notify(a, s)
      BY <2>3 DEF QueueForDigest, Notify, Notified
    <3> QED
      BY <1>4, <2>1, <2>3, <3>1, InPlaces, InPlacesNext
      DEF Raise, QueueForDigest, Places, correlationVars
  <2>4. CASE Notify(a, s)
    BY <1>4, <2>1, <2>4, InPlaces, InPlacesNext
    DEF Raise, Notify, Places, quietVars, correlationVars
  <2> QED
    BY <2>2, <2>3, <2>4 DEF Raise
<1>7. \A p, q \in Places : p # q => In(p)' \cap In(q)' = {}
  BY <1>3, <1>6, AccountedAlt
<1>8. UNION {In(p)' : p \in Places} = Raised'
  BY <1>2, <1>6, AccountedAlt
<1> QED
  BY <1>1, <1>5, <1>7, <1>8 DEF AccountedFor, Raised

\* The flush of the quiet queue takes the queue to the digest, and the digest
\* to chat.
LEMMA FlushMoves ==
  ASSUME AccountInv, DigestOnlyInFlight, FlushTask
  PROVE  AccountInv'
<1> USE DEF AccountInv
<1>1. TypeOK'
  BY TasksType
<1>2. /\ batches' = batches /\ InBatches' = InBatches
      /\ Raised' = Raised /\ InHandler' = InHandler
  BY DEF FlushTask, FlushQuietQueue, DigestSent, DigestRecorded, handlerVars,
         correlationVars, InBatches, ToldBy, Raised, InHandler
<1>3. CASE FlushQuietQueue
  <2>1. told' = told /\ digest = {}
    BY <1>3 DEF FlushQuietQueue, historyVars, DigestOnlyInFlight
  <2>2. BatchesApart' /\ ToldOnce'
    BY <1>2, <2>1, InPlaces, InPlacesNext DEF BatchesApart, ToldBy, ToldOnce
  <2>3. StaysPut \/ Moves(quietQueue, "queue", "digest")
    BY <1>2, <1>3, <2>1, InPlaces, InPlacesNext
    DEF FlushQuietQueue, StaysPut, Moves, Places, correlationVars, historyVars
  <2> QED
    BY <1>1, <2>2, <2>3, MoveKeepsAccount, StayKeepsAccount DEF Places
<1>4. CASE DigestSent
  <2>1. digest \cap In("told") = {}
    BY InPlaces DEF AccountedFor, Places
  <2>2. ToldOnce' /\ In("told")' = In("told") \cup digest
    BY <1>4, <2>1, TellKeepsToldOnce DEF DigestSent, TypeOK
  <2>3. Moves(digest, "digest", "told")
    BY <1>2, <1>4, <2>2, InPlaces, InPlacesNext
    DEF DigestSent, Moves, Places, correlationVars
  <2>4. BatchesApart'
    BY <1>2, <2>2 DEF BatchesApart, ToldBy
  <2> QED
    BY <1>1, <2>2, <2>3, <2>4, MoveKeepsAccount DEF Places
<1>5. CASE DigestRecorded
  <2>1. StaysPut /\ told' = told
    BY <1>2, <1>5, InPlaces, InPlacesNext
    DEF DigestRecorded, StaysPut, Places, correlationVars, historyVars
  <2>2. BatchesApart' /\ ToldOnce'
    BY <1>2, <2>1, InPlaces, InPlacesNext DEF BatchesApart, ToldBy, ToldOnce
  <2> QED
    BY <1>1, <2>1, <2>2, StayKeepsAccount
<1> QED
  BY <1>3, <1>4, <1>5 DEF FlushTask

\* A batch's step tells chat of some of its alerts, or of none.  C is what
\* becomes of batch b: its members stay the same.
LEMMA ReplaceKeepsApart ==
  ASSUME AccountInv, NEW b \in batches, NEW c, Replace(b, c),
         c.members = b.members, c.todo \subseteq b.members,
         ToldBy(c) \subseteq ToldBy(b),
         In("told")' = In("told") \cup (ToldBy(b) \ ToldBy(c))
  PROVE  /\ BatchesApart'
         /\ InBatches' = InBatches \ (ToldBy(b) \ ToldBy(c))
<1> USE DEF AccountInv
<1>1. \A d : ToldBy(d)' = ToldBy(d)
  BY DEF ToldBy
<1>2. \A d \in batches \ {b} : d.members \cap b.members = {}
  BY DEF BatchesApart
<1>3. \A d \in batches : ToldBy(d) \subseteq d.members
  BY DEF BatchesApart, ToldBy, TypeOK, Batches, BatchStages
<1>4. \A d \in batches' : d = c \/ d \in batches \ {b}
  BY DEF Replace
<1>5. BatchesApart'
  <2>1. \A d \in batches' : d.todo \subseteq d.members
    BY <1>4 DEF BatchesApart
  <2>2. \A d, e \in batches' : d # e => d.members \cap e.members = {}
    BY <1>2, <1>4 DEF BatchesApart
  <2>3. \A d \in batches' : d.members \subseteq ToldBy(d) \cup In("told")'
    BY <1>4 DEF BatchesApart
  <2> QED
    BY <1>1, <2>1, <2>2, <2>3 DEF BatchesApart
<1>6. InBatches' = UNION {ToldBy(d) : d \in batches'}
  BY <1>1 DEF InBatches
<1>7. \A x : x \in InBatches' <=>
             x \in InBatches /\ x \notin ToldBy(b) \ ToldBy(c)
  BY <1>2, <1>3, <1>6 DEF Replace, InBatches
<1> QED
  BY <1>5, <1>7

\* The correlator takes the buffer to a batch, and a batch to chat.
LEMMA CorrelateMoves ==
  ASSUME AccountInv, Correlate
  PROVE  AccountInv'
<1> USE DEF AccountInv
<1>1. TypeOK'
  BY TasksType
<1>2. CASE WindowEnds
  <2>1. UNCHANGED <<handlerVars, quietVars, pending, batches, historyVars>>
    BY <1>2 DEF WindowEnds
  <2>2. InBatches' = InBatches /\ InHandler' = InHandler /\ Raised' = Raised
    BY <2>1 DEF handlerVars, InBatches, ToldBy, InHandler, Raised
  <2>3. StaysPut
    BY <2>1, <2>2, InPlaces, InPlacesNext
    DEF StaysPut, Places, quietVars, historyVars
  <2>4. BatchesApart' /\ ToldOnce'
    BY <2>1, InPlaces, InPlacesNext
    DEF BatchesApart, ToldBy, ToldOnce, historyVars
  <2> QED
    BY <1>1, <2>3, <2>4, StayKeepsAccount
<1>3. CASE StartFlush
  <2>1. UNCHANGED <<handlerVars, quietVars, historyVars>> /\ pending' = {}
    BY <1>3 DEF StartFlush
  <2>2. InHandler' = InHandler /\ Raised' = Raised
    BY <2>1 DEF handlerVars, InHandler, Raised
  <2>3. ToldOnce' /\ In("told")' = In("told")
    BY <2>1, InPlaces, InPlacesNext DEF ToldOnce, historyVars
  <2>4. CASE pending = {}
    <3>1. batches' = batches /\ InBatches' = InBatches
      BY <1>3, <2>4 DEF StartFlush, InBatches, ToldBy
    <3>2. StaysPut
      BY <2>1, <2>2, <2>4, <3>1, InPlaces, InPlacesNext
      DEF StaysPut, Places, quietVars, historyVars
    <3>3. BatchesApart'
      BY <2>3, <3>1 DEF BatchesApart, ToldBy
    <3> QED
      BY <1>1, <2>3, <3>2, <3>3, StayKeepsAccount
  <2>5. CASE pending # {}
    <3> DEFINE b == NewBatch(pending)
    <3>1. /\ batches' = batches \cup {b}
          /\ b.members = pending
          /\ b.todo \subseteq pending
          /\ ToldBy(b) = pending
      BY <1>3, <2>5 DEF StartFlush, NewBatch, ToldBy
    <3> HIDE DEF b
    <3>2. \A d : ToldBy(d)' = ToldBy(d)
      BY DEF ToldBy
    <3>3. InBatches' = InBatches \cup pending
      BY <3>1, <3>2 DEF InBatches
    <3>4. Moves(pending, "pending", "batches")
      BY <2>1, <2>2, <3>3, InPlaces, InPlacesNext
      DEF Moves, Places, quietVars, historyVars
    <3>5. \A d \in batches : d.members \cap pending = {}
      <4>1. pending \cap InBatches = {} /\ pending \cap In("told") = {}
        BY InPlaces DEF AccountedFor, Places
      <4>2. \A d \in batches : ToldBy(d) \subseteq InBatches
        BY DEF InBatches
      <4> QED
        BY <4>1, <4>2 DEF BatchesApart
    <3>6. BatchesApart'
      BY <2>3, <3>1, <3>2, <3>5 DEF BatchesApart
    <3> QED
      BY <1>1, <2>3, <3>4, <3>6, MoveKeepsAccount DEF Places
  <2> QED
    BY <2>4, <2>5
<1>4. ASSUME NEW b \in batches, Deliver(b)
      PROVE  AccountInv'
  <2>1. /\ UNCHANGED <<handlerVars, quietVars, pending, dropped, lost>>
        /\ InHandler' = InHandler /\ Raised' = Raised
    BY <1>4 DEF Deliver, Verdict, SendReport, SendEach, RecordDecision,
                historyVars, handlerVars, InHandler, Raised
  <2>2. /\ b \in Batches
        /\ b.todo \subseteq b.members
        /\ \A d : ToldBy(d)' = ToldBy(d)
    BY DEF BatchesApart, ToldBy, TypeOK
  <2>3. CASE Verdict(b)
    <3>1. PICK c : /\ Replace(b, c)
                   /\ c.members = b.members
                   /\ c.todo \subseteq b.members
                   /\ ToldBy(c) = b.members
      <4> DEFINE r == [b EXCEPT !.stage = "report"]
                 e == [b EXCEPT !.stage = "each", !.todo = b.members]
      <4>1. r.members = b.members /\ r.todo = b.todo /\ ToldBy(r) = b.members
        BY <2>2 DEF ToldBy, Batches
      <4>2. e.members = b.members /\ e.todo = b.members /\ ToldBy(e) = b.members
        BY <2>2 DEF ToldBy, Batches
      <4>3. Replace(b, r) \/ Replace(b, e)
        BY <2>3 DEF Verdict
      <4> HIDE DEF r, e
      <4> QED
        BY <2>2, <4>1, <4>2, <4>3
    <3>2. ToldBy(b) = b.members /\ told' = told
      BY <2>3 DEF Verdict, ToldBy, historyVars
    <3>3. ToldOnce' /\ In("told")' = In("told")
      BY <3>2, InPlaces, InPlacesNext DEF ToldOnce
    <3>4. BatchesApart' /\ InBatches' = InBatches
      BY <3>1, <3>2, <3>3, ReplaceKeepsApart
    <3>5. StaysPut
      BY <2>1, <3>3, <3>4, InPlaces, InPlacesNext
      DEF StaysPut, Places, quietVars
    <3> QED
      BY <1>1, <3>3, <3>4, <3>5, StayKeepsAccount
  <2>4. ASSUME NEW S \in SUBSET Alerts, NEW c, Replace(b, c),
               c.members = b.members, c.todo \subseteq b.members,
               ToldBy(c) \subseteq ToldBy(b), S = ToldBy(b) \ ToldBy(c),
               Tell(S)
        PROVE  AccountInv'
    <3>1. S \subseteq InBatches /\ S \cap In("told") = {}
      <4>1. S \subseteq InBatches
        BY <2>4 DEF InBatches
      <4>2. InBatches \cap In("told") = {}
        BY InPlaces DEF AccountedFor, Places
      <4> QED
        BY <4>1, <4>2
    <3>2. ToldOnce' /\ In("told")' = In("told") \cup S
      BY <2>4, <3>1, TellKeepsToldOnce
    <3>3. BatchesApart' /\ InBatches' = InBatches \ S
      BY <2>4, <3>2, ReplaceKeepsApart
    <3>4. Moves(S, "batches", "told")
      BY <2>1, <3>1, <3>2, <3>3, InPlaces, InPlacesNext
      DEF Moves, Places, quietVars
    <3> QED
      BY <1>1, <3>2, <3>3, <3>4, MoveKeepsAccount DEF Places
  <2>5. CASE SendReport(b)
    <3> DEFINE c == [b EXCEPT !.stage = "record"]
    <3>1. /\ c.members = b.members /\ c.todo = b.todo
          /\ ToldBy(c) = {} /\ ToldBy(b) = b.members
      BY <2>2, <2>5 DEF SendReport, ToldBy, Batches
    <3>2. Replace(b, c) /\ Tell(b.members)
      BY <2>5 DEF SendReport
    <3> HIDE DEF c
    <3> QED
      BY <2>2, <2>4, <3>1, <3>2 DEF Batches
  <2>6. ASSUME NEW a \in b.todo, SendEach(b, a)
        PROVE  AccountInv'
    <3> DEFINE c == Without(b, a)
    <3>1. /\ c.members = b.members /\ c.todo = b.todo \ {a}
          /\ ToldBy(c) = b.todo \ {a} /\ ToldBy(b) = b.todo
      BY <2>6 DEF SendEach, Without, ToldBy
    <3>2. Replace(b, c) /\ Tell({a}) /\ a \in Alerts
      BY <2>2, <2>6 DEF SendEach, Batches
    <3> HIDE DEF c
    <3> QED
      BY <2>2, <2>4, <3>1, <3>2
  <2>7. CASE RecordDecision(b)
    <3>1. /\ batches' = batches \ {b} /\ ToldBy(b) = {} /\ told' = told
      BY <2>7 DEF RecordDecision, ToldBy, historyVars
    <3>2. ToldOnce' /\ In("told")' = In("told")
      BY <3>1, InPlaces, InPlacesNext DEF ToldOnce
    <3>3. InBatches' = InBatches
      BY <2>2, <3>1 DEF InBatches
    <3>4. BatchesApart'
      BY <2>2, <3>1, <3>2 DEF BatchesApart
    <3>5. StaysPut
      BY <2>1, <3>2, <3>3, InPlaces, InPlacesNext
      DEF StaysPut, Places, quietVars
    <3> QED
      BY <1>1, <3>2, <3>4, <3>5, StayKeepsAccount
  <2> QED
    BY <1>4, <2>3, <2>5, <2>6, <2>7 DEF Deliver
<1> QED
  BY <1>2, <1>3, <1>4 DEF Correlate

\* The clock and !mute move no alert.
LEMMA ClockMoves ==
  ASSUME AccountInv, TypeOK', UNCHANGED <<handlerVars, historyVars>>,
         UNCHANGED <<quietQueue, digest, pending, batches>>
  PROVE  AccountInv'
<1>1. /\ InBatches' = InBatches /\ InHandler' = InHandler
      /\ Raised' = Raised
  BY DEF handlerVars, InBatches, ToldBy, InHandler, Raised
<1>2. StaysPut
  BY <1>1, InPlaces, InPlacesNext DEF StaysPut, Places, historyVars
<1>3. BatchesApart' /\ ToldOnce'
  BY <1>2, InPlaces, InPlacesNext
  DEF AccountInv, BatchesApart, ToldBy, ToldOnce, historyVars
<1> QED
  BY <1>2, <1>3, StayKeepsAccount DEF AccountInv

\* A restart loses what is held, and nothing that was told of or discarded.
LEMMA RestartMoves ==
  ASSUME AccountInv, TypeOK', Restart
  PROVE  AccountInv'
<1> USE DEF AccountInv
<1>0. InHandler' = {} /\ InBatches' = {}
  <2>1. InHandler' = {}
    BY DEF Restart, InHandler, TypeOK
  <2>2. InBatches' = {}
    BY DEF Restart, InBatches
  <2> QED
    BY <2>1, <2>2
<1>1. /\ In("handler")' = {} /\ In("queue")' = {} /\ In("digest")' = {}
      /\ In("pending")' = {} /\ In("batches")' = {}
      /\ In("told")' = In("told") /\ In("dropped")' = In("dropped")
      /\ In("lost")' = In("lost") \cup Held
  BY <1>0, InPlaces, InPlacesNext DEF Restart
<1>2. Held = In("handler") \cup In("queue") \cup In("digest")
               \cup In("pending") \cup In("batches")
  BY InPlaces DEF Held
<1>3. Raised' = Raised
  BY DEF Restart, Raised
<1>4. \A p, q \in Places : p # q => In(p)' \cap In(q)' = {}
  BY <1>1, <1>2, AccountedAlt DEF Places
<1>5. UNION {In(p)' : p \in Places} = UNION {In(p) : p \in Places}
  BY <1>1, <1>2 DEF Places
<1>6. BatchesApart' /\ ToldOnce'
  BY DEF Restart, BatchesApart, ToldOnce
<1> QED
  BY <1>3, <1>4, <1>5, <1>6, AccountedAlt DEF AccountedFor, Raised

LEMMA DigestStep ==
  DigestOnlyInFlight /\ [Next]_vars => DigestOnlyInFlight'
<1> SUFFICES ASSUME DigestOnlyInFlight, [Next]_vars
             PROVE  DigestOnlyInFlight'
  OBVIOUS
<1> USE DEF DigestOnlyInFlight, quietVars
<1>1. ASSUME NEW a \in Alerts, NEW s \in Severities, Raise(a, s)
      PROVE  DigestOnlyInFlight'
  BY <1>1 DEF Raise, Discard, QueueForDigest, EnsureFlushScheduled, Notify
<1>2. ASSUME NEW a \in Alerts, Handle(a)
      PROVE  DigestOnlyInFlight'
  BY <1>2 DEF Handle, Broadcast, RecordSuppressed, RecordNotified,
     RecordThenSubmit, LlmAnswers, LlmFails, LlmIsLate, Advise, RecordOutcome,
     GoOn
<1>3. CASE FlushTask
  BY <1>3 DEF FlushTask, FlushQuietQueue, DigestSent, DigestRecorded
<1>4. CASE Correlate
  BY <1>4 DEF Correlate, WindowEnds, StartFlush, Deliver, Verdict, SendReport,
     SendEach, RecordDecision
<1>5. CASE Tick \/ (\E d \in 0 .. MaxMute : Mute(d)) \/ Restart
  BY <1>5 DEF Tick, Mute, Restart
<1>6. CASE UNCHANGED vars
  BY <1>6 DEF vars
<1> QED
  BY <1>1, <1>2, <1>3, <1>4, <1>5, <1>6 DEF Next

LEMMA AccountInit == Init => AccountInv /\ DigestOnlyInFlight
<1> SUFFICES ASSUME Init
             PROVE  AccountInv /\ DigestOnlyInFlight
  OBVIOUS
<1>1. InHandler = {} /\ InBatches = {} /\ Raised = {}
  BY DEF Init, InHandler, InBatches, Raised
<1>2. \A p \in Places : In(p) = {}
  BY <1>1, InPlaces DEF Init, Places
<1>3. AccountedFor
  BY <1>1, <1>2 DEF AccountedFor, Raised
<1> QED
  BY <1>3, TypeInit
  DEF Init, AccountInv, BatchesApart, ToldOnce, DigestOnlyInFlight

LEMMA AccountStep ==
  AccountInv /\ DigestOnlyInFlight /\ [Next]_vars => AccountInv'
<1> SUFFICES ASSUME AccountInv, DigestOnlyInFlight, [Next]_vars
             PROVE  AccountInv'
  OBVIOUS
<1>1. TypeOK'
  BY TypeStep DEF AccountInv
<1>2. CASE Tick \/ (\E d \in 0 .. MaxMute : Mute(d))
  BY <1>1, <1>2, ClockMoves DEF Tick, Mute, quietVars, correlationVars
<1>3. CASE UNCHANGED vars
  BY <1>1, <1>3, ClockMoves DEF vars, quietVars, correlationVars
<1> QED
  BY <1>1, <1>2, <1>3, RaiseMoves, HandlerMoves, FlushMoves, CorrelateMoves,
     RestartMoves DEF Next

\* No alert is ever in two places, or in none: whatever is queued, buffered,
\* grouped, muted or lost in a restart, each alert that was raised is accounted
\* for.
THEOREM EveryAlertAccountedFor == Spec => []AccountedFor
<1>1. AccountInv => AccountedFor
  BY DEF AccountInv
<1> QED
  BY AccountInit, AccountStep, DigestStep, <1>1, PTL DEF Spec

\* Chat is told of an alert at most once, also when flushes of the correlation
\* buffer overlap and the daemon is restarted.
THEOREM NoAlertToldTwice == Spec => []ToldOnce
<1>1. AccountInv => ToldOnce
  BY DEF AccountInv
<1> QED
  BY AccountInit, AccountStep, DigestStep, <1>1, PTL DEF Spec

-----------------------------------------------------------------------------
(* The flush of the quiet-hours queue.  While it sleeps it counts down to  *)
(* the end of quiet hours; while it is sending, quiet hours are over, and  *)
(* so nothing is queued that it would miss.  Only a window that never ends *)
(* breaks the second half.                                                 *)

SleepToEnd ==
  flushTask = "asleep" =>
    \/ now + sleepLeft = config.quietEnd
    \/ now + sleepLeft = config.quietEnd + DayLen

SendAfterEnd ==
  /\ QuietHoursHaveEnd /\ flushTask \in {"sending", "recording"} =>
       ~InQuietWindow(now)
  /\ QueueArmed

\* The configuration is read when the daemon starts, and never again.
LEMMA ConfigFixed == [Next]_vars => config' = config
<1> USE DEF runVars
<1>1. ASSUME NEW a \in Alerts, NEW s \in Severities, Raise(a, s)
      PROVE  config' = config
  BY <1>1 DEF Raise
<1>2. ASSUME NEW a \in Alerts, Handle(a)
      PROVE  config' = config
  BY <1>2 DEF Handle, Broadcast, RecordSuppressed, RecordNotified,
     RecordThenSubmit, LlmAnswers, LlmFails, LlmIsLate, Advise, RecordOutcome,
     GoOn
<1>3. CASE FlushTask
  BY <1>3 DEF FlushTask, FlushQuietQueue, DigestSent, DigestRecorded
<1>4. CASE Correlate
  BY <1>4 DEF Correlate, WindowEnds, StartFlush, Deliver, Verdict, SendReport,
     SendEach, RecordDecision
<1>5. CASE Tick \/ (\E d \in 0 .. MaxMute : Mute(d)) \/ Restart
  BY <1>5 DEF Tick, Mute, Restart
<1>6. CASE UNCHANGED vars
  BY <1>6 DEF vars
<1> QED
  BY <1>1, <1>2, <1>3, <1>4, <1>5, <1>6 DEF Next

LEMMA SleepInit == Init => SleepToEnd /\ SendAfterEnd
  BY DEF Init, SleepToEnd, SendAfterEnd, QueueArmed

\* The steps that leave the clock, the queue and its flush alone.
LEMMA SleepUntouched ==
  ASSUME UNCHANGED <<config, now, quietVars>>
  PROVE  /\ SleepToEnd => SleepToEnd'
         /\ SendAfterEnd => SendAfterEnd'
  BY DEF quietVars, SleepToEnd, SendAfterEnd, QueueArmed, QuietHoursHaveEnd,
         InQuietWindow

LEMMA HandlersLeaveQueue ==
  ASSUME (\E a \in Alerts : Handle(a)) \/ Correlate
            \/ (\E d \in 0 .. MaxMute : Mute(d)) \/ UNCHANGED vars
  PROVE  UNCHANGED <<config, now, quietVars>>
  BY DEF runVars, Handle, Broadcast, RecordSuppressed, RecordNotified,
     RecordThenSubmit, LlmAnswers, LlmFails, LlmIsLate, Advise, RecordOutcome,
     GoOn, Correlate, WindowEnds, StartFlush, Deliver, Verdict, SendReport,
     SendEach, RecordDecision, Mute, timeVars, vars

LEMMA SleepStep == TypeOK /\ SleepToEnd /\ [Next]_vars => SleepToEnd'
<1> SUFFICES ASSUME TypeOK, SleepToEnd, [Next]_vars
             PROVE  SleepToEnd'
  OBVIOUS
<1> USE DayLenAssumption, PipelineAssumption, ConfigFixed
<1>0. config.quietStart \in TimeOfDay /\ config.quietEnd \in TimeOfDay
  BY DEF TypeOK, Config
<1>1. ASSUME NEW a \in Alerts, NEW s \in Severities, Raise(a, s)
      PROVE  SleepToEnd'
  <2>1. CASE QueueForDigest(a, s) /\ flushTask = "none"
    <3>1. IsActive(now, config.quietStart, config.quietEnd) /\ now \in TimeOfDay
      BY <2>1 DEF QueueForDigest, QueuedAway, QuietNow, InQuietWindow, TypeOK
    <3>2. /\ now' = now
          /\ sleepLeft' = FlushDelay(now, config.quietStart, config.quietEnd)
      BY <1>1, <2>1 DEF Raise, QueueForDigest, EnsureFlushScheduled, timeVars
    <3> QED
      BY <1>0, <3>1, <3>2, FlushDelayEndsAtEnd DEF SleepToEnd
  <2>2. CASE ~(QueueForDigest(a, s) /\ flushTask = "none")
    <3>1. UNCHANGED <<now, flushTask, sleepLeft>>
      BY <1>1, <2>2 DEF Raise, Discard, QueueForDigest, EnsureFlushScheduled,
                        Notify, timeVars, quietVars
    <3> QED
      BY <3>1 DEF SleepToEnd
  <2> QED
    BY <2>1, <2>2
<1>2. CASE FlushTask
  BY <1>2 DEF FlushTask, FlushQuietQueue, DigestSent, DigestRecorded,
              timeVars, SleepToEnd
<1>3. CASE Tick
  BY <1>0, <1>3 DEF Tick, NoWakeDue, SleepToEnd, NextTime, TypeOK, TimeOfDay
<1>4. CASE Restart
  BY <1>4 DEF Restart, SleepToEnd
<1> QED
  BY <1>1, <1>2, <1>3, <1>4, SleepUntouched, HandlersLeaveQueue DEF Next

\* The digest is taken at the end of quiet hours.
LEMMA FlushAtEnd ==
  ASSUME TypeOK, SleepToEnd, FlushQuietQueue
  PROVE  now = config.quietEnd
  BY DayLenAssumption, PipelineAssumption
  DEF TypeOK, Config, SleepToEnd, FlushQuietQueue, TimeOfDay

LEMMA SendStep ==
  TypeOK /\ SleepToEnd /\ SendAfterEnd /\ [Next]_vars => SendAfterEnd'
<1> SUFFICES ASSUME TypeOK, SleepToEnd, SendAfterEnd, [Next]_vars
             PROVE  SendAfterEnd'
  OBVIOUS
<1> USE ConfigFixed DEF SendAfterEnd, QueueArmed, QuietHoursHaveEnd,
        InQuietWindow
<1>1. ASSUME NEW a \in Alerts, NEW s \in Severities, Raise(a, s)
      PROVE  SendAfterEnd'
  <2>1. CASE QueueForDigest(a, s)
    <3>1. /\ QuietHoursHaveEnd => flushTask \in {"none", "asleep"}
          /\ now' = now
      BY <1>1, <2>1 DEF Raise, QueueForDigest, QueuedAway, QuietNow, TypeOK,
                        timeVars
    <3> QED
      BY <2>1, <3>1, ConfigFixed DEF QueueForDigest, EnsureFlushScheduled
  <2>2. CASE Discard(a, s) \/ Notify(a, s)
    BY <1>1, <2>2 DEF Raise, Discard, Notify, timeVars, quietVars
  <2> QED
    BY <1>1, <2>1, <2>2 DEF Raise
<1>2. CASE FlushQuietQueue
  <2>1. /\ QuietHoursHaveEnd =>
             ~IsActive(now, config.quietStart, config.quietEnd)
        /\ now' = now
    BY <1>2, FlushAtEnd, QuietIsOverAtEnd
    DEF FlushQuietQueue, timeVars, TypeOK, Config
  <2> QED
    BY <1>2, <2>1 DEF FlushQuietQueue
<1>3. CASE DigestSent \/ DigestRecorded
  BY <1>3 DEF DigestSent, DigestRecorded, timeVars
<1>4. CASE Tick
  BY <1>4 DEF Tick, DigestOutBeforeQuiet
<1>5. CASE Restart
  BY <1>5 DEF Restart
<1> QED
  BY <1>1, <1>2, <1>3, <1>4, <1>5, SleepUntouched, HandlersLeaveQueue
  DEF Next, FlushTask

\* Whenever alerts are queued, a flush is asleep that will wake for them, if
\* quiet hours have an end.
THEOREM QueueAlwaysArmed == Spec => []QueueArmed
<1>1. SendAfterEnd => QueueArmed
  BY DEF SendAfterEnd
<1> QED
  BY TypeInit, TypeStep, SleepInit, SleepStep, SendStep, <1>1, PTL DEF Spec

\* A digest is sent at the end of quiet hours and at no other time of day,
\* whatever the window.
THEOREM DigestsAtQuietEnd == Spec => DigestAtQuietEnd
<1>1. ASSUME TypeOK, SleepToEnd, [Next]_vars
      PROVE  [flushTask # "sending" /\ flushTask' = "sending"
                => now = config.quietEnd]_vars
  <2>1. ASSUME flushTask # "sending", flushTask' = "sending"
        PROVE  FlushQuietQueue
    BY <1>1, <2>1, HandlersLeaveQueue
    DEF Next, Raise, Discard, QueueForDigest, EnsureFlushScheduled, Notify,
        FlushTask, DigestSent, DigestRecorded, Tick, Restart, quietVars
  <2> QED
    BY <1>1, <2>1, FlushAtEnd
<1> QED
  BY TypeInit, TypeStep, SleepInit, SleepStep, <1>1, PTL
  DEF Spec, DigestAtQuietEnd

-----------------------------------------------------------------------------
(* Without correlation no alert is buffered, so a broadcast begins in      *)
(* _notify_and_record or in the flush, and in quiet hours neither begins   *)
(* one for an alert that is not critical.                                  *)

NothingBuffered ==
  ~config.correlation =>
    /\ pending = {} /\ batches = {}
    /\ \A a \in Alerts : pc[a] # "recordThenSubmit"

LEMMA UnbufferedStep ==
  TypeOK /\ NothingBuffered /\ [Next]_vars => NothingBuffered'
<1> SUFFICES ASSUME TypeOK, NothingBuffered, [Next]_vars
             PROVE  NothingBuffered'
  OBVIOUS
<1> USE ConfigFixed DEF NothingBuffered, correlationVars, handlerVars
<1>1. ASSUME NEW a \in Alerts, NEW s \in Severities, Raise(a, s)
      PROVE  NothingBuffered'
  BY <1>1 DEF Raise, Discard, QueueForDigest, Notify, Goto, TypeOK
<1>2. ASSUME NEW a \in Alerts, Handle(a)
      PROVE  NothingBuffered'
  BY <1>2 DEF Handle, Broadcast, RecordSuppressed, RecordNotified,
     RecordThenSubmit, LlmAnswers, LlmFails, LlmIsLate, Advise, RecordOutcome,
     GoOn, Goto, AfterRecord, TypeOK
<1>3. CASE FlushTask
  BY <1>3 DEF FlushTask, FlushQuietQueue, DigestSent, DigestRecorded
<1>4. CASE Correlate
  BY <1>4 DEF Correlate, WindowEnds, StartFlush
<1>5. CASE Tick \/ (\E d \in 0 .. MaxMute : Mute(d))
  BY <1>5 DEF Tick, Mute
<1>6. CASE Restart
  BY <1>6 DEF Restart, TypeOK
<1>7. CASE UNCHANGED vars
  BY <1>7 DEF vars
<1> QED
  BY <1>1, <1>2, <1>3, <1>4, <1>5, <1>6, <1>7 DEF Next

\* Without correlation, and with quiet hours that end, no broadcast that tells
\* of a non-critical alert begins during quiet hours.
THEOREM QuietHoursRespected == Spec => QuietRespected
<1>1. Init => NothingBuffered
  BY DEF Init, NothingBuffered
<1>2. ASSUME TypeOK, SleepToEnd, NothingBuffered, [Next]_vars
      PROVE  [QuietHoursHaveEnd /\ ~config.correlation
                => ~BeginsInQuietHours]_vars
  <2> SUFFICES ASSUME QuietHoursHaveEnd, ~config.correlation
               PROVE  \A a \in OnAir' \ OnAir :
                        severity'[a] # Critical => ~QuietNow
    BY DEF BeginsInQuietHours
  <2>0. NothingBuffered'
    BY <1>2, UnbufferedStep
  <2>1. /\ OnAir = {a \in Alerts : pc[a] = "broadcast"} \cup digest
        /\ OnAir' = {a \in Alerts : pc'[a] = "broadcast"} \cup digest'
    BY <1>2, <2>0, ConfigFixed DEF OnAir, NothingBuffered
  <2>2. ASSUME NEW a \in OnAir' \ OnAir, severity'[a] # Critical
        PROVE  ~QuietNow
    <3>1. ASSUME NEW b \in Alerts, NEW s \in Severities, Raise(b, s)
          PROVE  ~QuietNow
      <4>1. a \in Alerts /\ pc'[a] = "broadcast" /\ pc[a] # "broadcast"
        BY <2>1, <2>2, <3>1
        DEF Raise, Discard, QueueForDigest, Notify, quietVars
      <4>2. a = b /\ Notify(b, s) /\ severity'[a] = s
        BY <1>2, <3>1, <4>1
        DEF Raise, Discard, QueueForDigest, Notify, Goto, TypeOK
      <4> QED
        BY <2>2, <4>2 DEF Notify, Notified, QueuedAway
    <3>2. CASE FlushTask
      <4>1. FlushQuietQueue
        BY <2>1, <2>2, <3>2
        DEF FlushTask, DigestSent, DigestRecorded, handlerVars
      <4> QED
        BY <1>2, <4>1, FlushAtEnd, QuietIsOverAtEnd
        DEF QuietNow, InQuietWindow, QuietHoursHaveEnd, TypeOK, Config
    <3>3. CASE \E b \in Alerts : Handle(b)
      <4>1. digest' = digest
        BY <3>3, HandlersLeaveQueue DEF quietVars
      <4>2. \A x \in Alerts : pc'[x] = "broadcast" => pc[x] = "broadcast"
        BY <1>2, <3>3 DEF Handle, Broadcast, RecordSuppressed, RecordNotified,
           RecordThenSubmit, LlmAnswers, LlmFails, LlmIsLate, Advise,
           RecordOutcome, GoOn, Goto, AfterRecord, TypeOK
      <4> QED
        BY <2>1, <2>2, <4>1, <4>2
    <3>4. CASE Correlate
      BY <1>2, <2>1, <2>2, <3>4
      DEF Correlate, WindowEnds, StartFlush, NothingBuffered, handlerVars,
          quietVars
    <3>5. CASE Tick \/ (\E d \in 0 .. MaxMute : Mute(d)) \/ UNCHANGED vars
      BY <2>1, <2>2, <3>5 DEF Tick, Mute, vars, handlerVars, quietVars
    <3>6. CASE Restart
      BY <2>1, <2>2, <3>6 DEF Restart
    <3> QED
      BY <1>2, <3>1, <3>2, <3>3, <3>4, <3>5, <3>6 DEF Next
  <2> QED
    BY <2>2
<1> QED
  BY TypeInit, TypeStep, SleepInit, SleepStep, UnbufferedStep, <1>1, <1>2, PTL
  DEF Spec, QuietRespected

-----------------------------------------------------------------------------
(* What the records and the remediations may say.  Held drops out of the   *)
(* argument: an alert that is raised is held unless it has been discarded, *)
(* lost or told.                                                           *)

\* Where the handler has still to write its record, and where it is past the
\* broadcast.
BeforeRecord ==
  {"new", "broadcast", "record", "recordSuppressed", "recordThenSubmit"}
AfterBroadcast ==
  {"record", "recordResolved", "ask", "askLate", "advise", "recordAdvised",
   "recordFailure"}
Asking == {"ask", "askLate", "advise"}

\* The handler writes one record, and an alert that is discarded or queued
\* never has one that says it was notified.
RecordsInOrder ==
  \A a \in Alerts :
    /\ pc[a] \in BeforeRecord => audited[a] = "no"
    /\ a \in dropped \cup quietQueue \cup digest =>
         pc[a] \in {"recordSuppressed", "done"} /\ audited[a] # "notified"

\* Only a restart belies a record, and only with correlation.
LostAfterRecord ==
  \A a \in lost : audited[a] = "notified" => config.correlation /\ restarts > 0

\* Advice comes last: the alert was told before, it is critical, and nothing is
\* advised before the LLM has answered.
AdviceInOrder ==
  \A a \in Alerts :
    /\ pc[a] \in AfterBroadcast => told[a] > 0
    /\ pc[a] \in Asking => severity[a] = Critical
    /\ pc[a] \in BeforeRecord \cup Asking => advised[a] = 0
    /\ advised[a] > 0 => advised[a] = 1 /\ told[a] > 0 /\ severity[a] = Critical

LEMMA OwedIsHeld ==
  AccountedFor =>
    \A a \in Alerts :
      a \in Held <=> /\ pc[a] # "new" /\ a \notin dropped /\ a \notin lost
                    /\ ~(told[a] > 0)
<1> SUFFICES ASSUME AccountedFor, NEW a \in Alerts
             PROVE  a \in Held <=> /\ pc[a] # "new" /\ a \notin dropped
                                  /\ a \notin lost /\ ~(told[a] > 0)
  OBVIOUS
<1>1. /\ \A p, q \in Places : p # q => In(p) \cap In(q) = {}
      /\ pc[a] # "new" <=> \E p \in Places : a \in In(p)
  BY AccountedAlt DEF Raised
<1>2. a \in Held <=> \E p \in {"handler", "queue", "digest", "pending", "batches"} :
                       a \in In(p)
  BY InPlaces DEF Held
<1>3. told[a] > 0 <=> a \in In("told")
  BY InPlaces
<1>4. a \in dropped <=> a \in In("dropped")
  BY InPlaces
<1>5. a \in lost <=> a \in In("lost")
  BY InPlaces
<1> QED
  BY <1>1, <1>2, <1>3, <1>4, <1>5 DEF Places

LEMMA RecordsStep ==
  TypeOK /\ RecordsInOrder /\ [Next]_vars => RecordsInOrder'
<1> SUFFICES ASSUME TypeOK, RecordsInOrder, [Next]_vars
             PROVE  RecordsInOrder'
  OBVIOUS
<1> USE DEF RecordsInOrder, BeforeRecord, TypeOK
<1>1. ASSUME NEW a \in Alerts, NEW s \in Severities, Raise(a, s)
      PROVE  RecordsInOrder'
  <2>1. CASE Discard(a, s)
    BY <1>1, <2>1 DEF Raise, Discard, Goto, quietVars
  <2>2. CASE QueueForDigest(a, s)
    BY <1>1, <2>2 DEF Raise, QueueForDigest, Goto
  <2>3. CASE Notify(a, s)
    BY <1>1, <2>3 DEF Raise, Notify, Goto, quietVars
  <2> QED
    BY <1>1, <2>1, <2>2, <2>3 DEF Raise
<1>2. ASSUME NEW a \in Alerts, Handle(a)
      PROVE  RecordsInOrder'
  <2> USE DEF Goto, quietVars, historyVars
  <2>1. CASE RecordNotified(a)
    BY <2>1 DEF RecordNotified, AfterRecord
  <2>2. CASE RecordThenSubmit(a)
    BY <2>2 DEF RecordThenSubmit
  <2>3. CASE RecordSuppressed(a)
    BY <2>3 DEF RecordSuppressed
  <2>4. CASE Broadcast(a) \/ Advise(a)
    BY <2>4 DEF Broadcast, Advise
  <2>5. CASE LlmAnswers(a) \/ LlmFails(a) \/ LlmIsLate(a) \/ RecordOutcome(a)
    BY <2>5 DEF LlmAnswers, LlmFails, LlmIsLate, RecordOutcome, GoOn
  <2> QED
    BY <1>2, <2>1, <2>2, <2>3, <2>4, <2>5 DEF Handle
<1>3. CASE FlushTask
  BY <1>3 DEF FlushTask, FlushQuietQueue, DigestSent, DigestRecorded,
     handlerVars, historyVars
<1>4. CASE Correlate
  BY <1>4 DEF Correlate, WindowEnds, StartFlush, Deliver, Verdict, SendReport,
     SendEach, RecordDecision, handlerVars, quietVars, historyVars
<1>5. CASE Tick \/ (\E d \in 0 .. MaxMute : Mute(d)) \/ UNCHANGED vars
  BY <1>5 DEF Tick, Mute, vars, handlerVars, quietVars, historyVars
<1>6. CASE Restart
  BY <1>6 DEF Restart
<1> QED
  BY <1>1, <1>2, <1>3, <1>4, <1>5, <1>6 DEF Next

\* Chat does not forget what it was told.
LEMMA ToldGrows ==
  ASSUME TypeOK, [Next]_vars
  PROVE  \A a \in Alerts : told[a] > 0 => told'[a] > 0
<1>1. ASSUME NEW S, Tell(S)
      PROVE  \A a \in Alerts : told[a] > 0 => told'[a] > 0
  BY <1>1 DEF Tell, TypeOK
<1>2. CASE \E a \in Alerts : \E s \in Severities : Raise(a, s)
  BY <1>2 DEF Raise
<1>3. ASSUME NEW a \in Alerts, Handle(a)
      PROVE  \A x \in Alerts : told[x] > 0 => told'[x] > 0
  BY <1>1, <1>3 DEF Handle, Broadcast, RecordSuppressed, RecordNotified,
     RecordThenSubmit, LlmAnswers, LlmFails, LlmIsLate, Advise, RecordOutcome,
     GoOn, historyVars
<1>4. CASE FlushTask
  BY <1>1, <1>4 DEF FlushTask, FlushQuietQueue, DigestSent, DigestRecorded,
     historyVars
<1>5. CASE Correlate
  BY <1>1, <1>5 DEF Correlate, WindowEnds, StartFlush, Deliver, Verdict,
     SendReport, SendEach, RecordDecision, historyVars
<1>6. CASE Tick \/ (\E d \in 0 .. MaxMute : Mute(d)) \/ Restart
  BY <1>6 DEF Tick, Mute, Restart, historyVars
<1>7. CASE UNCHANGED vars
  BY <1>7 DEF vars, historyVars
<1> QED
  BY <1>2, <1>3, <1>4, <1>5, <1>6, <1>7 DEF Next

LEMMA AdviceStep == TypeOK /\ AdviceInOrder /\ [Next]_vars => AdviceInOrder'
<1> SUFFICES ASSUME TypeOK, AdviceInOrder, [Next]_vars
             PROVE  AdviceInOrder'
  OBVIOUS
<1> USE ToldGrows DEF AdviceInOrder, BeforeRecord, AfterBroadcast, Asking
<1>0. ASSUME UNCHANGED <<handlerVars, advised>>
      PROVE  AdviceInOrder'
  BY <1>0 DEF handlerVars
<1>1. ASSUME NEW a \in Alerts, NEW s \in Severities, Raise(a, s)
      PROVE  AdviceInOrder'
  BY <1>1 DEF Raise, Discard, QueueForDigest, Notify, Goto, TypeOK
<1>2. ASSUME NEW a \in Alerts, Handle(a)
      PROVE  AdviceInOrder'
  <2> USE DEF Goto, historyVars, TypeOK
  <2>1. CASE Broadcast(a)
    <3>1. told'[a] > 0
      BY <2>1 DEF Broadcast, Tell
    <3> QED
      BY <2>1, <3>1 DEF Broadcast
  <2>2. CASE RecordNotified(a)
    BY <2>2 DEF RecordNotified, AfterRecord
  <2>3. CASE RecordThenSubmit(a) \/ RecordSuppressed(a)
    BY <2>3 DEF RecordThenSubmit, RecordSuppressed
  <2>4. CASE Advise(a)
    BY <2>4 DEF Advise
  <2>5. CASE LlmAnswers(a) \/ LlmFails(a) \/ LlmIsLate(a) \/ RecordOutcome(a)
    BY <2>5 DEF LlmAnswers, LlmFails, LlmIsLate, RecordOutcome, GoOn
  <2> QED
    BY <1>2, <2>1, <2>2, <2>3, <2>4, <2>5 DEF Handle
<1>3. CASE FlushTask
  BY <1>0, <1>3 DEF FlushTask, FlushQuietQueue, DigestSent, DigestRecorded,
     historyVars
<1>4. CASE Correlate
  BY <1>0, <1>4 DEF Correlate, WindowEnds, StartFlush, Deliver, Verdict,
     SendReport, SendEach, RecordDecision, historyVars
<1>5. CASE Tick \/ (\E d \in 0 .. MaxMute : Mute(d)) \/ UNCHANGED vars
  BY <1>0, <1>5 DEF Tick, Mute, vars, historyVars
<1>6. CASE Restart
  BY <1>6 DEF Restart, TypeOK
<1> QED
  BY <1>1, <1>2, <1>3, <1>4, <1>5, <1>6 DEF Next

LEMMA LostStep ==
  ASSUME AccountInv, NothingBuffered, RecordsInOrder, AdviceInOrder,
         LostAfterRecord, [Next]_vars
  PROVE  LostAfterRecord'
<1> USE ConfigFixed DEF AccountInv, LostAfterRecord
<1>0. lost \subseteq Alerts
  BY DEF TypeOK
<1>1. ASSUME UNCHANGED <<restarts, audited, lost>>
      PROVE  LostAfterRecord'
  BY <1>1
<1>2. CASE \E a \in Alerts : \E s \in Severities : Raise(a, s)
  BY <1>1, <1>2 DEF Raise, runVars
<1>3. ASSUME NEW a \in Alerts, Handle(a)
      PROVE  LostAfterRecord'
  <2> USE DEF runVars, historyVars
  <2>1. CASE RecordNotified(a)
    <3>1. told[a] > 0
      BY <2>1 DEF RecordNotified, AdviceInOrder, AfterBroadcast
    <3>2. a \notin lost
      BY <3>1, InPlaces DEF AccountedFor, Places
    <3> QED
      BY <1>0, <2>1, <3>2 DEF RecordNotified, TypeOK
  <2>2. CASE RecordThenSubmit(a)
    <3>1. audited[a] = "no" /\ a \notin lost
      <4>1. a \in In("handler")
        BY <2>2, InPlaces DEF RecordThenSubmit, InHandler
      <4> QED
        BY <2>2, <4>1, InPlaces
        DEF RecordThenSubmit, RecordsInOrder, BeforeRecord, AccountedFor, Places
    <3> QED
      BY <1>0, <2>2, <3>1 DEF RecordThenSubmit, TypeOK
  <2>3. CASE RecordSuppressed(a)
    BY <1>0, <2>3 DEF RecordSuppressed, TypeOK
  <2>4. CASE Broadcast(a) \/ Advise(a)
    BY <1>1, <2>4 DEF Broadcast, Advise
  <2>5. CASE LlmAnswers(a) \/ LlmFails(a) \/ LlmIsLate(a) \/ RecordOutcome(a)
    BY <1>1, <2>5 DEF LlmAnswers, LlmFails, LlmIsLate, RecordOutcome, GoOn
  <2> QED
    BY <1>3, <2>1, <2>2, <2>3, <2>4, <2>5 DEF Handle
<1>4. CASE FlushTask
  BY <1>1, <1>4 DEF FlushTask, FlushQuietQueue, DigestSent, DigestRecorded,
     runVars, historyVars
<1>5. CASE Correlate
  BY <1>1, <1>5 DEF Correlate, WindowEnds, StartFlush, Deliver, Verdict,
     SendReport, SendEach, RecordDecision, runVars, historyVars
<1>6. CASE Tick \/ (\E d \in 0 .. MaxMute : Mute(d)) \/ UNCHANGED vars
  BY <1>1, <1>6 DEF Tick, Mute, vars, runVars, historyVars
<1>7. CASE Restart
  <2>1. restarts' > 0 /\ UNCHANGED audited
    BY <1>7 DEF Restart, TypeOK
  <2>2. ASSUME ~config.correlation
        PROVE  \A a \in Held : audited[a] # "notified"
    <3>1. Held = {a \in Alerts : pc[a] = "broadcast"} \cup quietQueue \cup digest
      BY <2>2 DEF NothingBuffered, Held, InHandler, InBatches
    <3> QED
      BY <3>1 DEF RecordsInOrder, BeforeRecord, TypeOK
  <2> QED
    BY <1>7, <2>1, <2>2 DEF Restart
<1> QED
  BY <1>2, <1>3, <1>4, <1>5, <1>6, <1>7 DEF Next

LEMMA AheadInit ==
  Init => NothingBuffered /\ RecordsInOrder /\ AdviceInOrder /\ LostAfterRecord
  BY DEF Init, NothingBuffered, RecordsInOrder, AdviceInOrder, AfterBroadcast,
     Asking, LostAfterRecord

\* Neither the record of an alert nor the remediation for it is ahead of what
\* chat was told: a record that says notified is of an alert that chat heard of
\* or that a coroutine still holds, and only with correlation, and by a
\* restart, is it ever belied.
THEOREM NothingIsAhead == Spec => []NothingAhead
<1>1. ASSUME AccountInv, RecordsInOrder, AdviceInOrder, LostAfterRecord
      PROVE  NothingAhead
  <2>1. AuditNotAhead
    <3> SUFFICES ASSUME NEW a \in Alerts, audited[a] = "notified",
                        ~(told[a] > 0), a \notin Held
                 PROVE  config.correlation /\ a \in lost /\ restarts > 0
      BY DEF AuditNotAhead
    <3>1. pc[a] # "new" /\ a \notin dropped
      BY <1>1 DEF RecordsInOrder, BeforeRecord
    <3>2. a \in lost
      BY <1>1, <3>1, OwedIsHeld DEF AccountInv
    <3> QED
      BY <1>1, <3>2 DEF LostAfterRecord
  <2>2. AdviceFollowsAlert
    BY <1>1 DEF AccountInv, TypeOK, AdviceInOrder, AdviceFollowsAlert
  <2> QED
    BY <2>1, <2>2 DEF NothingAhead
<1>2. AccountInv => TypeOK
  BY DEF AccountInv
<1> QED
  BY AccountInit, AccountStep, DigestStep, AheadInit, UnbufferedStep,
     RecordsStep, AdviceStep, LostStep, <1>1, <1>2, PTL DEF Spec

-----------------------------------------------------------------------------
(* The pipeline implements AlertPromise.  Every step lets one alert enter, *)
(* tells chat of alerts that are held, or loses such alerts (often none).  *)

Enters(a) ==
  /\ pc[a] = "new"
  /\ Raised' = Raised \cup {a}
  /\ dropped' \in {dropped, dropped \cup {a}}
  /\ UNCHANGED <<told, lost>>

Tells(S) ==
  /\ S \subseteq Held
  /\ Tell(S)
  /\ Raised' = Raised
  /\ UNCHANGED <<dropped, lost>>

Loses(S) ==
  /\ S \subseteq Held
  /\ lost' = lost \cup S
  /\ Raised' = Raised
  /\ UNCHANGED <<dropped, told>>

StepOutcome ==
  \/ \E a \in Alerts : Enters(a)
  \/ \E S \in SUBSET Alerts : Tells(S) \/ Loses(S)

LEMMA OutcomeOfStep ==
  ASSUME AccountInv, [Next]_vars
  PROVE  StepOutcome
<1> USE DEF AccountInv
<1>0. ASSUME Raised' = Raised, UNCHANGED <<told, dropped, lost>>
      PROVE  StepOutcome
  <2>1. Loses({})
    BY <1>0 DEF Loses
  <2> QED
    BY <2>1 DEF StepOutcome
<1>1. ASSUME NEW a \in Alerts, NEW s \in Severities, Raise(a, s)
      PROVE  StepOutcome
  <2>1. Enters(a)
    BY <1>1 DEF Raise, Discard, QueueForDigest, Notify, Goto, TypeOK, Raised,
                Enters
  <2> QED
    BY <2>1 DEF StepOutcome
<1>2. ASSUME NEW a \in Alerts, Handle(a)
      PROVE  StepOutcome
  <2>1. Raised' = Raised
    BY <1>2 DEF Handle, Broadcast, RecordSuppressed, RecordNotified, AfterRecord,
       RecordThenSubmit, LlmAnswers, LlmFails, LlmIsLate, Advise, RecordOutcome,
       GoOn, Goto, TypeOK, Raised
  <2>2. CASE Broadcast(a)
    <3>1. Tells({a})
      BY <2>1, <2>2 DEF Broadcast, Tells, Held, InHandler
    <3> QED
      BY <3>1 DEF StepOutcome
  <2>3. CASE RecordThenSubmit(a)
    <3>1. Loses({a}) \/ UNCHANGED <<told, dropped, lost>>
      BY <2>1, <2>3 DEF RecordThenSubmit, Loses, Held, InHandler
    <3> QED
      BY <1>0, <2>1, <3>1 DEF StepOutcome
  <2>4. CASE ~(Broadcast(a) \/ RecordThenSubmit(a))
    BY <1>0, <1>2, <2>1, <2>4 DEF Handle, RecordSuppressed, RecordNotified,
       LlmAnswers, LlmFails, LlmIsLate, Advise, RecordOutcome, GoOn, historyVars
  <2> QED
    BY <2>2, <2>3, <2>4
<1>3. CASE FlushTask
  <2>1. Raised' = Raised
    BY <1>3 DEF FlushTask, FlushQuietQueue, DigestSent, DigestRecorded,
       handlerVars, Raised
  <2>2. CASE DigestSent
    <3>1. Tells(digest)
      BY <2>1, <2>2 DEF DigestSent, Tells, Held
    <3> QED
      BY <3>1 DEF StepOutcome, TypeOK
  <2>3. CASE FlushQuietQueue \/ DigestRecorded
    BY <1>0, <2>1, <2>3 DEF FlushQuietQueue, DigestRecorded, historyVars
  <2> QED
    BY <1>3, <2>2, <2>3 DEF FlushTask
<1>4. CASE WindowEnds \/ StartFlush
  BY <1>0, <1>4 DEF WindowEnds, StartFlush, handlerVars, historyVars, Raised
<1>5. ASSUME NEW b \in batches, Deliver(b)
      PROVE  StepOutcome
  <2>1. Raised' = Raised
    BY <1>5 DEF Deliver, Verdict, SendReport, SendEach, RecordDecision,
       handlerVars, Raised
  <2>2. b.members \subseteq Alerts /\ b.todo \subseteq Alerts
    BY DEF TypeOK, Batches
  <2>3. ToldBy(b) \subseteq Held
    BY DEF Held, InBatches
  <2>4. CASE SendReport(b)
    <3>1. Tells(b.members)
      BY <2>1, <2>3, <2>4 DEF SendReport, Tells, ToldBy
    <3> QED
      BY <2>2, <3>1 DEF StepOutcome
  <2>5. ASSUME NEW a \in b.todo, SendEach(b, a)
        PROVE  StepOutcome
    <3>1. Tells({a})
      BY <2>1, <2>3, <2>5 DEF SendEach, Tells, ToldBy
    <3> QED
      BY <2>2, <3>1 DEF StepOutcome
  <2>6. CASE Verdict(b) \/ RecordDecision(b)
    BY <1>0, <2>1, <2>6 DEF Verdict, RecordDecision, historyVars
  <2> QED
    BY <1>5, <2>4, <2>5, <2>6 DEF Deliver
<1>6. CASE Tick \/ (\E d \in 0 .. MaxMute : Mute(d)) \/ UNCHANGED vars
  BY <1>0, <1>6 DEF Tick, Mute, vars, handlerVars, historyVars, Raised
<1>7. CASE Restart
  <2>1. Loses(Held)
    BY <1>7 DEF Restart, Loses, Raised
  <2>2. Held \subseteq Alerts
    BY DEF Held, InHandler, InBatches, ToldBy, TypeOK, Batches, BatchStages
  <2> QED
    BY <2>1, <2>2 DEF StepOutcome
<1> QED
  BY <1>1, <1>2, <1>3, <1>4, <1>5, <1>6, <1>7 DEF Next, Correlate

\* What has become of an alert, as the promise says it.
FateOf(a) ==
  IF pc[a] = "new" THEN "unraised"
  ELSE IF a \in dropped THEN "discarded"
  ELSE IF a \in lost THEN "lost"
  ELSE IF told[a] > 0 THEN "told" ELSE "owed"

FatesKnown == \A a \in Alerts : StatusOf(a) = FateOf(a)

LEMMA StatusIsFate == AccountedFor => FatesKnown
<1> USE DEF FatesKnown
<1> SUFFICES ASSUME AccountedFor, NEW a \in Alerts
             PROVE  StatusOf(a) = FateOf(a)
  OBVIOUS
<1>1. a \in Held <=> /\ pc[a] # "new" /\ a \notin dropped /\ a \notin lost
                    /\ ~(told[a] > 0)
  BY OwedIsHeld
<1>2. /\ a \in dropped => pc[a] # "new" /\ a \notin lost /\ ~(told[a] > 0)
      /\ a \in lost => pc[a] # "new" /\ ~(told[a] > 0)
      /\ told[a] > 0 => pc[a] # "new"
  BY InPlaces, AccountedAlt DEF Places, Raised
<1> QED
  BY <1>1, <1>2 DEF StatusOf, FateOf

\* Whatever the pipeline queues, buffers, groups or loses, it keeps the promise
\* of AlertPromise: an alert that is raised is discarded at once or owed, and
\* what is owed is told once or lost; nothing else is ever told.
THEOREM PromiseIsKept == Spec => Promised!Spec
<1>1. Init => Promised!Init
  BY AccountInit, StatusIsFate
  DEF AccountInv, FatesKnown, FateOf, Init, Promised!Init
<1>2. AccountInv => AccountedFor
  BY DEF AccountInv
<1>3. AccountedFor' => FatesKnown'
  BY StatusIsFate, PTL
<1>4. ASSUME AccountInv, AccountInv', [Next]_vars
      PROVE  [Promised!Next]_(Promised!vars)
  <2>0. /\ \A a \in Alerts : StatusOf(a) = FateOf(a)
        /\ \A a \in Alerts : StatusOf(a)' = FateOf(a)'
    BY <1>2, <1>3, <1>4, StatusIsFate DEF AccountInv, FatesKnown
  <2>1. \A a \in Alerts : a \in Held => FateOf(a) = "owed"
    BY <1>2, <1>4, OwedIsHeld DEF FateOf
  <2>2. \A a \in Alerts : pc'[a] = "new" <=> a \notin Raised'
    BY DEF Raised
  <2>3. ASSUME NEW a \in Alerts, Enters(a)
        PROVE  Promised!Raise(a)
    <3>1. a \notin dropped /\ a \notin lost /\ ~(told[a] > 0)
      BY <1>4, <2>3, InPlaces, AccountedAlt DEF AccountInv, Places, Enters, Raised
    <3>2. \A x \in Alerts \ {a} : FateOf(x)' = FateOf(x)
      BY <2>2, <2>3 DEF Enters, FateOf, Raised
    <3>3. FateOf(a)' \in {"owed", "discarded"}
      BY <2>2, <2>3, <3>1 DEF Enters, FateOf
    <3>4. FateOf(a) = "unraised"
      BY <2>3 DEF Enters, FateOf
    <3> QED
      BY <2>0, <2>3, <3>2, <3>3, <3>4
      DEF Promised!Raise, Promised!Move, Enters
  <2>4. ASSUME NEW S \in SUBSET Alerts, Tells(S)
        PROVE  Promised!Tell(S)
    <3>1. \A x \in Alerts : FateOf(x)' = IF x \in S THEN "told" ELSE FateOf(x)
      <4>1. \A x \in S : pc[x] # "new" /\ x \notin dropped /\ x \notin lost
        BY <1>2, <1>4, <2>4, OwedIsHeld DEF Tells
      <4>2. \A x \in Alerts : told'[x] = IF x \in S THEN told[x] + 1 ELSE told[x]
        BY <2>4 DEF Tells, Tell
      <4>3. \A x \in S : told'[x] > 0
        BY <1>4, <4>2 DEF AccountInv, TypeOK
      <4> QED
        BY <2>2, <2>4, <4>1, <4>2, <4>3 DEF Tells, FateOf, Raised
    <3> QED
      BY <2>0, <2>1, <2>4, <3>1
      DEF Promised!Tell, Promised!Move, Tells, Tell
  <2>5. ASSUME NEW S \in SUBSET Alerts, Loses(S)
        PROVE  Promised!Lose(S)
    <3>1. \A x \in Alerts : FateOf(x)' = IF x \in S THEN "lost" ELSE FateOf(x)
      <4>1. \A x \in S : pc[x] # "new" /\ x \notin dropped
        BY <1>2, <1>4, <2>5, OwedIsHeld DEF Loses
      <4> QED
        BY <2>2, <2>5, <4>1 DEF Loses, FateOf, Raised
    <3> QED
      BY <2>0, <2>1, <2>5, <3>1 DEF Promised!Lose, Promised!Move, Loses
  <2> QED
    BY <1>4, <2>3, <2>4, <2>5, OutcomeOfStep DEF StepOutcome, Promised!Next
<1> QED
  BY AccountInit, AccountStep, DigestStep, <1>1, <1>4, PTL
  DEF Spec, Promised!Spec
=============================================================================
