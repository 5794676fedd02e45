---------------------- MODULE ChatConfirmationsProofs ----------------------
(***************************************************************************)
(* What ChatConfirmations guarantees for any number of users, requests and *)
(* keys, whatever the requests are about.                                  *)
(***************************************************************************)
EXTENDS ChatConfirmations, TLAPS

\* What a request is about never changes, and it is well formed.
LEMMA RequestFields ==
  ASSUME NEW q \in Request
  PROVE  q.user \in Users /\ q.kind \in Kinds /\ q.keys \subseteq Keys
  BY DEF Request

LEMMA OfferType ==
  ASSUME TypeOK, NEW r \in Requests
  PROVE  /\ Offer(r) \in [Kinds -> [Users -> Requests \union {None}]]
         /\ Replaced(r) \subseteq Requests
<1>1. asks[r].user \in Users /\ asks[r].kind \in Kinds
  BY RequestFields DEF TypeOK
<1> QED
  BY <1>1 DEF TypeOK, Offer, Replaced

LEMMA AgedType ==
  ASSUME TypeOK, NEW S
  PROVE  Aged(S) \in [Requests -> 0 .. TTL + 1]
  BY ChatAssumption DEF TypeOK, Aged

LEMMA ForgetType ==
  ASSUME TypeOK, NEW u \in Users
  PROVE  /\ Forget(u) \in [Kinds -> [Users -> Requests \union {None}]]
         /\ Taken(u) \subseteq Requests
  BY ChatAssumption DEF TypeOK, Forget, Taken, FirstKind, Waiting

\* A coroutine that changes a key has one.
Changing == {"write", "recordApplied", "recordFailed"}

HasKey == \A r \in Requests : doing[r] \in Changing => at[r] \in Keys

TypeInv == TypeOK /\ HasKey

LEMMA TypeInit == Init => TypeInv
<1> SUFFICES ASSUME Init PROVE TypeInv
  OBVIOUS
<1>1. 0 \in 0 .. TTL + 1 /\ 0 \in 0 .. MaxRestarts
  BY ChatAssumption
<1>2. age \in [Requests -> 0 .. TTL + 1] /\ restarts \in 0 .. MaxRestarts
  BY <1>1 DEF Init
<1>3. asks \in [Requests -> Request]
  BY ChatAssumption DEF Init
<1> QED
  BY <1>2, <1>3
  DEF Init, TypeInv, HasKey, Changing, TypeOK, AskingStages, DoingStages, Values

\* The command that asks.
LEMMA AskType ==
  ASSUME TypeInv, NEW r \in Requests, Ask(r) \/ AskStep(r)
  PROVE  TypeInv'
<1>0. HasKey'
  BY DEF TypeInv, HasKey, AskStep, LlmProposes, RequestConfirmation, Ask,
         LlmDeclines, Show, AskRaises, threadVars
<1>1. CASE LlmProposes(r) \/ RequestConfirmation(r)
  <2>1. pending' \in [Kinds -> [Users -> Requests \union {None}]]
    BY <1>1, OfferType DEF LlmProposes, RequestConfirmation, TypeInv
  <2>2. age' \in [Requests -> 0 .. TTL + 1]
    BY <1>1, AgedType DEF LlmProposes, RequestConfirmation, TypeInv
  <2>3. dropped' \subseteq Requests
    BY <1>1, OfferType DEF LlmProposes, RequestConfirmation, TypeOK, TypeInv
  <2> QED
    BY <1>1, <1>0, <2>1, <2>2, <2>3
    DEF LlmProposes, RequestConfirmation, TypeOK, TypeInv, AsksTo,
        AskingStages, fixedVars, fileVars, threadVars, resultVars
<1>2. CASE Ask(r) \/ LlmDeclines(r) \/ Show(r) \/ AskRaises(r)
  BY <1>2, <1>0 DEF Ask, LlmDeclines, Show, AskRaises, TypeOK, TypeInv, AsksTo,
     AskingStages, fixedVars, fileVars, threadVars, resultVars
<1> QED
  BY <1>1, <1>2 DEF AskStep

\* The coroutine of the reaction.
LEMMA DoType ==
  ASSUME TypeInv, NEW r \in Requests, DoStep(r)
  PROVE  TypeInv'
<1> USE DEF TypeInv, DoesTo, DoingStages, AfterKey, fixedVars, askVars, fileVars, threadVars, resultVars
<1>1. CASE Read(r)
  <2>1. PICK k \in Keys : at' = [at EXCEPT ![r] = k]
    BY <1>1, RequestFields DEF Read, KeysLeft, TypeOK
  <2>2. at' \in [Requests -> Keys \union {None}]
    BY <2>1 DEF TypeOK
  <2>3. copy' \in [Requests -> [Keys -> Values]]
    BY <1>1 DEF Read, ReadFile, TypeOK
  <2>4. overlapped' \in BOOLEAN
    BY <1>1 DEF Read, TypeOK
  <2>5. HasKey'
    BY <1>1, <2>1 DEF Read, HasKey, Changing, TypeOK
  <2> QED
    BY <1>1, <2>2, <2>3, <2>4, <2>5 DEF Read, TypeOK
<1>2. CASE Write(r)
  <2>1. file' \in [Keys -> Values] /\ lastWriter' \in [Keys -> Values]
    BY <1>2 DEF Write, TypeOK, Values
  <2>2. at[r] \in Keys
    BY <1>2 DEF Write, HasKey, Changing
  <2>3. applied' \in [Requests -> SUBSET Keys]
    BY <1>2, <2>2 DEF Write, TypeOK
  <2> QED
    BY <1>2, <2>1, <2>3 DEF Write, TypeOK, HasKey, Changing
<1>3. CASE WriteFails(r) \/ RecordAppliedFails(r)
  <2>1. at[r] \in Keys
    BY <1>3 DEF WriteFails, RecordAppliedFails, HasKey, Changing
  <2>2. failed' = [failed EXCEPT ![r] = @ \union {at[r]}]
    BY <1>3 DEF WriteFails, RecordAppliedFails
  <2>3. failed' \in [Requests -> SUBSET Keys]
    BY <2>1, <2>2 DEF TypeOK
  <2> QED
    BY <1>3, <2>3
    DEF WriteFails, RecordAppliedFails, TypeOK, HasKey, Changing
<1>4. CASE RecordApplied(r)
  <2>1. at[r] \in Keys
    BY <1>4 DEF RecordApplied, HasKey, Changing
  <2>2. audited' \in [Requests -> SUBSET Keys]
    BY <1>4, <2>1 DEF RecordApplied, AuditedNow, TypeOK
  <2> QED
    BY <1>4, <2>2 DEF RecordApplied, TypeOK, HasKey, Changing
<1>5. CASE RecordFailed(r) \/ RunAction(r) \/ Reply(r) \/ Raises(r)
  BY <1>5
  DEF RecordFailed, RunAction, Reply, Raises, TypeOK, HasKey, Changing
<1> QED
  BY <1>1, <1>2, <1>3, <1>4, <1>5 DEF DoStep

LEMMA ReactType ==
  ASSUME TypeInv, NEW u \in Users, React(u)
  PROVE  TypeInv'
<1> USE DEF TypeInv
<1>1. pending' \in [Kinds -> [Users -> Requests \union {None}]]
  BY ForgetType DEF React
<1>2. age' \in [Requests -> 0 .. TTL + 1]
  BY AgedType DEF React
<1>3. doing' \in [Requests -> DoingStages]
  BY DEF React, TypeOK, FirstStage, DoingStages
<1>4. runs' \in [Requests -> Nat]
  BY DEF React, TypeOK
<1>5. HasKey'
  BY DEF React, HasKey, Changing, FirstStage, threadVars, TypeOK
<1> QED
  BY <1>1, <1>2, <1>3, <1>4, <1>5
  DEF React, TypeOK, fixedVars, fileVars, threadVars, resultVars

LEMMA TypeStep == TypeInv /\ [Next]_vars => TypeInv'
<1> SUFFICES ASSUME TypeInv, [Next]_vars
             PROVE  TypeInv'
  OBVIOUS
<1>1. CASE Tick
  <2>1. age' \in [Requests -> 0 .. TTL + 1]
    BY <1>1, ChatAssumption DEF Tick, TypeInv, TypeOK
  <2> QED
    BY <1>1, <2>1 DEF Tick, TypeInv, TypeOK, HasKey, fixedVars,
                      fileVars, threadVars, resultVars
<1>2. CASE Restart
  <2>1. restarts' \in 0 .. MaxRestarts
    BY <1>2, ChatAssumption DEF Restart, TypeInv, TypeOK
  <2>2. age' \in [Requests -> 0 .. TTL + 1]
    BY <1>2, AgedType DEF Restart, TypeInv
  <2>3. dropped' \subseteq Requests
    BY <1>2 DEF Restart, AllPending, TypeInv, TypeOK
  <2>4. pending' \in [Kinds -> [Users -> Requests \union {None}]]
    BY <1>2 DEF Restart
  <2>5. asking' \in [Requests -> AskingStages]
    BY <1>2 DEF Restart, TypeInv, TypeOK, AskingStages
  <2>6. doing' \in [Requests -> DoingStages] /\ HasKey'
    BY <1>2 DEF Restart, TypeInv, TypeOK, DoingStages, HasKey, Changing,
                threadVars
  <2> QED
    BY <1>2, <2>1, <2>2, <2>3, <2>4, <2>5, <2>6
    DEF Restart, TypeInv, TypeOK, fixedVars, fileVars, threadVars,
        resultVars
<1>3. CASE UNCHANGED vars
  BY <1>3 DEF vars, TypeInv, TypeOK, HasKey, fixedVars, askVars,
              fileVars, threadVars, resultVars
<1> QED
  BY <1>1, <1>2, <1>3, AskType, DoType, ReactType DEF Next

\* Every state is well typed; in particular what a worker thread changes is
\* always a key of config.yaml (apply_config_change).
THEOREM TypeCorrect == Spec => []TypeOK
<1>1. TypeInv => TypeOK
  BY DEF TypeInv
<1> QED
  BY <1>1, TypeInit, TypeStep, PTL DEF Spec

-----------------------------------------------------------------------------
(* What is pending has not been started, and will be started once: it is   *)
(* put there once, by its command, and leaves when it is taken.            *)

Unstarted(r) ==
  /\ runs[r] = 0
  /\ doing[r] = "idle"
  /\ r \notin dropped

\* The stages of a command before its request is pending.
Early == {"new", "llm", "recordAsk"}

EarlyUnstarted == \A r \in Requests : asking[r] \in Early => Unstarted(r)

PendingUnstarted ==
  \A k \in Kinds, u \in Users :
    pending[k][u] # None =>
      /\ asks[pending[k][u]].kind = k
      /\ asks[pending[k][u]].user = u
      /\ asking[pending[k][u]] \notin Early
      /\ Unstarted(pending[k][u])

RequestInv == EarlyUnstarted /\ PendingUnstarted /\ RunsOnce

LEMMA RequestInit == Init => RequestInv
  BY DEF Init, RequestInv, EarlyUnstarted, PendingUnstarted, RunsOnce,
         Unstarted

\* The steps that leave the requests that were not started alone.
Untouched ==
  /\ UNCHANGED <<asks, pending, dropped, runs>>
  /\ \A r \in Requests : asking'[r] \in Early => asking[r] \in Early
  /\ \A r \in Requests : asking[r] \notin Early => asking'[r] \notin Early
  /\ \A r \in Requests : doing[r] = "idle" => doing'[r] = "idle"

LEMMA UntouchedKeeps ==
  ASSUME TypeOK, RequestInv, Untouched
  PROVE  RequestInv'
<1>1. \A r \in Requests : Unstarted(r) => Unstarted(r)'
  BY DEF Untouched, Unstarted
<1>2. EarlyUnstarted'
  BY <1>1 DEF RequestInv, EarlyUnstarted, Untouched
<1>3. PendingUnstarted'
  BY <1>1 DEF RequestInv, PendingUnstarted, Untouched, TypeOK
<1>4. RunsOnce'
  BY DEF RequestInv, RunsOnce, Untouched
<1> QED
  BY <1>2, <1>3, <1>4 DEF RequestInv

\* A request that becomes pending replaces the one that was.
LEMMA OfferKeeps ==
  ASSUME TypeOK, RequestInv, NEW r \in Requests,
         LlmProposes(r) \/ RequestConfirmation(r)
  PROVE  RequestInv'
<1>1. asks[r].user \in Users /\ asks[r].kind \in Kinds
  BY RequestFields DEF TypeOK
<1>2. /\ asking[r] \in Early
      /\ asking' = [asking EXCEPT ![r] = "prompting"]
      /\ pending' = Offer(r)
      /\ dropped' = dropped \union Replaced(r)
      /\ UNCHANGED <<asks, doing, runs>>
  BY DEF LlmProposes, RequestConfirmation, AsksTo, Early, fixedVars
<1>3. Unstarted(r)
  BY <1>2 DEF RequestInv, EarlyUnstarted
<1>4. \A q \in Replaced(r) :
        /\ q = pending[asks[r].kind][asks[r].user] /\ q # None
        /\ asks[q].kind = asks[r].kind /\ asks[q].user = asks[r].user
        /\ asking[q] \notin Early
  <2> DEFINE q == pending[asks[r].kind][asks[r].user]
  <2>1. q # None => /\ asks[q].kind = asks[r].kind
                    /\ asks[q].user = asks[r].user
                    /\ asking[q] \notin Early
    BY <1>1 DEF RequestInv, PendingUnstarted
  <2> QED
    BY <2>1 DEF Replaced
<1>5. \A q \in Replaced(r) : \A k \in Kinds, u \in Users :
        pending[k][u] = q => k = asks[r].kind /\ u = asks[r].user
  <2> TAKE q \in Replaced(r)
  <2> TAKE k \in Kinds, u \in Users
  <2> HAVE pending[k][u] = q
  <2>1. asks[q].kind = k /\ asks[q].user = u
    BY <1>4 DEF RequestInv, PendingUnstarted
  <2> QED
    BY <1>4, <2>1
<1>6. \A q \in Replaced(r) : asking[q] \notin Early /\ q # r
  BY <1>2, <1>4
<1>7. EarlyUnstarted'
  BY <1>2, <1>6 DEF RequestInv, EarlyUnstarted, Unstarted, TypeOK, Early
<1>8. PendingUnstarted'
  <2> SUFFICES ASSUME NEW k \in Kinds, NEW u \in Users, pending'[k][u] # None
               PROVE  /\ asks'[pending'[k][u]].kind = k
                      /\ asks'[pending'[k][u]].user = u
                      /\ asking'[pending'[k][u]] \notin Early
                      /\ Unstarted(pending[k][u])'
    BY DEF PendingUnstarted
  <2>1. CASE k = asks[r].kind /\ u = asks[r].user
    <3>1. pending'[k][u] = r
      BY <1>1, <1>2, <2>1 DEF Offer, TypeOK
    <3>2. r \notin dropped'
      BY <1>2, <1>3, <1>6 DEF Unstarted
    <3> QED
      BY <1>2, <1>3, <2>1, <3>1, <3>2 DEF Unstarted, TypeOK, Early
  <2>2. CASE ~(k = asks[r].kind /\ u = asks[r].user)
    <3>1. pending'[k][u] = pending[k][u] /\ pending[k][u] \in Requests
      BY <1>1, <1>2, <2>2 DEF Offer, TypeOK
    <3>2. pending[k][u] # r
      BY <1>2, <3>1 DEF RequestInv, PendingUnstarted
    <3>3. pending[k][u] \notin Replaced(r)
      BY <1>5, <2>2
    <3> QED
      BY <1>2, <3>1, <3>2, <3>3
      DEF RequestInv, PendingUnstarted, Unstarted, TypeOK, Early
  <2> QED
    BY <2>1, <2>2
<1>9. RunsOnce'
  BY <1>2 DEF RequestInv, RunsOnce
<1> QED
  BY <1>7, <1>8, <1>9 DEF RequestInv

\* A reaction takes one request at most: the kinds have different ranks.
LEMMA TakenOnce ==
  ASSUME TypeOK, NEW u \in Users
  PROVE  /\ \A k, j \in FirstKind(u) : k = j
         /\ FirstKind(u) \subseteq Kinds
         /\ \A k \in FirstKind(u) : pending[k][u] \in Requests
<1>1. \A k \in Kinds : Rank[k] \in Nat
  BY DEF Kinds, Rank
<1>2. \A k, j \in Kinds : Rank[k] = Rank[j] => k = j
  BY DEF Kinds, Rank
<1>3. FirstKind(u) \subseteq Kinds
  BY DEF FirstKind, Waiting
<1>4. \A k \in FirstKind(u) : pending[k][u] \in Requests
  BY DEF FirstKind, Waiting, TypeOK
<1>5. \A k, j \in FirstKind(u) : Rank[k] <= Rank[j]
  BY DEF FirstKind
<1>6. \A k, j \in FirstKind(u) : k = j
  BY <1>1, <1>2, <1>3, <1>5
<1> QED
  BY <1>3, <1>4, <1>6

LEMMA ReactKeeps ==
  ASSUME TypeOK, RequestInv, NEW u \in Users, React(u)
  PROVE  RequestInv'
<1> DEFINE started == {r \in Taken(u) : age[r] <= TTL}
<1>1. \A r \in started : /\ r \in Requests /\ Unstarted(r)
                         /\ asks[r].user = u /\ asking[r] \notin Early
                         /\ \E k \in FirstKind(u) : pending[k][u] = r
  <2> TAKE r \in started
  <2>1. PICK k \in FirstKind(u) : pending[k][u] = r
    BY DEF Taken
  <2>2. k \in Kinds /\ r \in Requests
    BY <2>1, TakenOnce
  <2>3. pending[k][u] # None
    BY <2>1, <2>2, ChatAssumption
  <2>4. Unstarted(r) /\ asks[r].user = u /\ asking[r] \notin Early
    BY <2>1, <2>2, <2>3 DEF RequestInv, PendingUnstarted
  <2> QED
    BY <2>1, <2>2, <2>4
<1>2. /\ UNCHANGED <<asks, asking, dropped>>
      /\ pending' = Forget(u)
      /\ \A r \in Requests \ started :
           runs'[r] = runs[r] /\ doing'[r] = doing[r]
      /\ \A r \in started : runs'[r] = runs[r] + 1
  BY <1>1 DEF React, fixedVars, TypeOK
<1> HIDE DEF started
<1>3. EarlyUnstarted'
  BY <1>1, <1>2 DEF RequestInv, EarlyUnstarted, Unstarted
<1>4. PendingUnstarted'
  <2> SUFFICES ASSUME NEW k \in Kinds, NEW v \in Users, pending'[k][v] # None
               PROVE  /\ pending'[k][v] = pending[k][v]
                      /\ pending[k][v] \notin started
    BY <1>2 DEF PendingUnstarted, RequestInv, Unstarted, TypeOK
  <2>1. /\ pending'[k][v] = pending[k][v]
        /\ ~(v = u /\ k \in FirstKind(u))
    BY <1>2 DEF Forget
  <2>2. /\ asks[pending[k][v]].kind = k /\ asks[pending[k][v]].user = v
    BY <2>1 DEF RequestInv, PendingUnstarted
  <2>3. ASSUME pending[k][v] \in started
        PROVE  FALSE
    <3>1. PICK j \in FirstKind(u) : pending[j][u] = pending[k][v]
      BY <1>1, <2>3
    <3>2. j = k /\ u = v
      BY <2>1, <2>2, <3>1, TakenOnce DEF RequestInv, PendingUnstarted
    <3> QED
      BY <2>1, <3>1, <3>2
  <2> QED
    BY <2>1, <2>3
<1>5. RunsOnce'
  BY <1>1, <1>2 DEF RequestInv, RunsOnce, Unstarted
<1> QED
  BY <1>3, <1>4, <1>5 DEF RequestInv

LEMMA RestartKeeps ==
  ASSUME TypeOK, RequestInv, Restart
  PROVE  RequestInv'
<1>1. /\ UNCHANGED <<asks, runs>>
      /\ dropped' = dropped \union AllPending
      /\ \A r \in Requests : asking'[r] \in Early =>
           asking'[r] = asking[r] /\ r \notin AllPending
      /\ \A r \in Requests : doing[r] = "idle" => doing'[r] = "idle"
      /\ \A k \in Kinds, u \in Users : pending'[k][u] = None
  BY DEF Restart, AllPending, RequestInv, PendingUnstarted, Early, TypeOK,
         fixedVars
<1>2. EarlyUnstarted' /\ PendingUnstarted'
  BY <1>1 DEF RequestInv, EarlyUnstarted, PendingUnstarted, Unstarted
<1>3. RunsOnce'
  BY <1>1 DEF RequestInv, RunsOnce
<1> QED
  BY <1>2, <1>3 DEF RequestInv

LEMMA RequestStep == TypeInv /\ RequestInv /\ [Next]_vars => RequestInv'
<1> SUFFICES ASSUME TypeInv, RequestInv, [Next]_vars
             PROVE  RequestInv'
  OBVIOUS
<1>0. TypeOK
  BY DEF TypeInv
<1>1. ASSUME NEW r \in Requests,
             Ask(r) \/ LlmDeclines(r) \/ Show(r) \/ AskRaises(r)
      PROVE  Untouched
  BY <1>0, <1>1 DEF Ask, LlmDeclines, Show, AskRaises, AsksTo, Untouched,
     Early, TypeOK, fixedVars
<1>2. ASSUME NEW r \in Requests, DoStep(r)
      PROVE  Untouched
  <2>1. /\ doing[r] # "idle"
        /\ \E s \in DoingStages : doing' = [doing EXCEPT ![r] = s]
    BY <1>2 DEF DoStep, Read, Write, WriteFails, RecordApplied,
       RecordAppliedFails, RecordFailed, RunAction, Reply, Raises, DoesTo,
       AfterKey, DoingStages
  <2>2. UNCHANGED <<fixedVars, askVars, runs>>
    BY <1>2 DEF DoStep, Read, Write, WriteFails, RecordApplied,
       RecordAppliedFails, RecordFailed, RunAction, Reply, Raises
  <2> QED
    BY <1>0, <2>1, <2>2 DEF Untouched, TypeOK, fixedVars, askVars
<1>3. CASE Tick \/ UNCHANGED vars
  <2>1. Untouched
    BY <1>3 DEF Tick, Untouched, vars, fixedVars, askVars
  <2> QED
    BY <1>0, <2>1, UntouchedKeeps
<1> QED
  BY <1>0, <1>1, <1>2, <1>3, UntouchedKeeps, OfferKeeps, ReactKeeps,
     RestartKeeps DEF Next, AskStep

\* A confirmed command is carried out at most once, however often its user
\* reacts and however the coroutines interleave (handle_reaction).
THEOREM RequestsRunOnce == Spec => []RunsOnce
<1>1. RequestInv => RunsOnce
  BY DEF RequestInv
<1>2. TypeInv /\ RequestInv /\ [Next]_vars => (TypeInv /\ RequestInv)'
  BY TypeStep, RequestStep
<1> QED
  BY <1>1, <1>2, TypeInit, RequestInit, PTL DEF Spec

\* What a step starts, if it starts anything, is alive.
StartsAlive ==
  \A r \in Requests : runs'[r] > runs[r] => age[r] <= TTL /\ r \notin dropped

LEMMA StartsAliveStep == TypeInv /\ RequestInv /\ [Next]_vars => StartsAlive
<1> SUFFICES ASSUME TypeInv, RequestInv, [Next]_vars
             PROVE  StartsAlive
  OBVIOUS
<1>0. TypeOK
  BY DEF TypeInv
<1>1. CASE UNCHANGED runs
  BY <1>0, <1>1 DEF StartsAlive, TypeOK
<1>2. ASSUME NEW u \in Users, React(u)
      PROVE  StartsAlive
  <2> SUFFICES ASSUME NEW r \in Requests, runs'[r] > runs[r]
               PROVE  age[r] <= TTL /\ r \notin dropped
    BY DEF StartsAlive
  <2>1. r \in Taken(u) /\ age[r] <= TTL
    BY <1>0, <1>2 DEF React, TypeOK
  <2>2. PICK k \in FirstKind(u) : pending[k][u] = r
    BY <2>1 DEF Taken
  <2>3. k \in Kinds /\ pending[k][u] # None
    BY <2>2, ChatAssumption, <1>0, TakenOnce
  <2> QED
    BY <2>1, <2>2, <2>3 DEF RequestInv, PendingUnstarted, Unstarted
<1>3. ASSUME NEW r \in Requests, Ask(r) \/ AskStep(r)
      PROVE  UNCHANGED runs
  BY <1>3 DEF Ask, AskStep, LlmProposes, LlmDeclines, RequestConfirmation,
     Show, AskRaises
<1>4. ASSUME NEW r \in Requests, DoStep(r)
      PROVE  UNCHANGED runs
  BY <1>4 DEF DoStep, Read, Write, WriteFails, RecordApplied,
     RecordAppliedFails, RecordFailed, RunAction, Reply, Raises
<1>5. CASE Tick \/ Restart \/ UNCHANGED vars
  BY <1>1, <1>5 DEF Tick, Restart, vars
<1> QED
  BY <1>1, <1>2, <1>3, <1>4, <1>5 DEF Next

\* Nothing starts that has expired, was replaced by a later request of its
\* kind or was lost to a restart (_CONFIRMATION_TTL_SECONDS and the maps).
THEOREM DeadRequestsNeverRun == Spec => DeadNeverRuns
<1>1. TypeInv /\ RequestInv /\ [Next]_vars => (TypeInv /\ RequestInv)'
  BY TypeStep, RequestStep
<1>2. StartsAlive => [StartsAlive]_vars
  OBVIOUS
<1>3. DeadNeverRuns <=> [][StartsAlive]_vars
  BY DEF DeadNeverRuns, StartsAlive
<1> QED
  BY <1>1, <1>3, TypeInit, RequestInit, StartsAliveStep, PTL DEF Spec

\* A step that starts a request starts no other one and takes nothing else
\* from what is pending.
StartsAlone ==
  \A r \in Requests :
    runs'[r] > runs[r] =>
      /\ \A q \in Requests \ {r} : runs'[q] = runs[q]
      /\ \A k \in Kinds, u \in Users :
           pending'[k][u] # pending[k][u] =>
             u = asks[r].user /\ pending[k][u] = r

LEMMA StartsAloneStep == TypeInv /\ RequestInv /\ [Next]_vars => StartsAlone
<1> SUFFICES ASSUME TypeInv, RequestInv, [Next]_vars
             PROVE  StartsAlone
  OBVIOUS
<1>0. TypeOK
  BY DEF TypeInv
<1>1. CASE UNCHANGED runs
  BY <1>0, <1>1 DEF StartsAlone, TypeOK
<1>2. ASSUME NEW v \in Users, React(v)
      PROVE  StartsAlone
  <2> SUFFICES ASSUME NEW r \in Requests, runs'[r] > runs[r]
               PROVE  /\ \A q \in Requests \ {r} : runs'[q] = runs[q]
                      /\ \A k \in Kinds, u \in Users :
                           pending'[k][u] # pending[k][u] =>
                             u = asks[r].user /\ pending[k][u] = r
    BY DEF StartsAlone
  <2>1. r \in Taken(v)
    BY <1>0, <1>2 DEF React, TypeOK
  <2>2. PICK j \in FirstKind(v) : pending[j][v] = r
    BY <2>1 DEF Taken
  <2>3. /\ j \in Kinds /\ pending[j][v] # None
        /\ \A k \in FirstKind(v) : k = j
    BY <2>2, <1>0, ChatAssumption, TakenOnce
  <2>4. asks[r].user = v
    BY <2>2, <2>3 DEF RequestInv, PendingUnstarted
  <2>5. Taken(v) = {r}
    BY <2>2, <2>3 DEF Taken
  <2>6. \A q \in Requests \ {r} : runs'[q] = runs[q]
    BY <1>2, <2>5 DEF React
  <2>7. \A k \in Kinds, u \in Users :
          pending'[k][u] # pending[k][u] => u = v /\ k = j
    BY <1>2, <2>3 DEF React, Forget
  <2> QED
    BY <2>2, <2>4, <2>6, <2>7
<1>3. ASSUME NEW r \in Requests, Ask(r) \/ AskStep(r)
      PROVE  UNCHANGED runs
  BY <1>3 DEF Ask, AskStep, LlmProposes, LlmDeclines, RequestConfirmation,
     Show, AskRaises
<1>4. ASSUME NEW r \in Requests, DoStep(r)
      PROVE  UNCHANGED runs
  BY <1>4 DEF DoStep, Read, Write, WriteFails, RecordApplied,
     RecordAppliedFails, RecordFailed, RunAction, Reply, Raises
<1>5. CASE Tick \/ Restart \/ UNCHANGED vars
  BY <1>1, <1>5 DEF Tick, Restart, vars
<1> QED
  BY <1>1, <1>2, <1>3, <1>4, <1>5 DEF Next

\* A reaction starts one request at most, of the user who reacts, and takes
\* nothing else from the maps (handle_reaction and its three _pop functions).
THEOREM OneRequestPerReaction == Spec => OneRunPerTick
<1>1. TypeInv /\ RequestInv /\ [Next]_vars => (TypeInv /\ RequestInv)'
  BY TypeStep, RequestStep
<1>2. OneRunPerTick <=> [][StartsAlone]_vars
  BY DEF OneRunPerTick, StartsAlone
<1> QED
  BY <1>1, <1>2, TypeInit, RequestInit, StartsAloneStep, PTL DEF Spec

-----------------------------------------------------------------------------
(* Changes that do not overlap: a worker thread that has read the file     *)
(* still has what is in it when it writes, and no other one writes.        *)

Serial ==
  /\ \A k \in Keys : file[k] = lastWriter[k]
  /\ \A r \in Requests : doing[r] = "write" => copy[r] = file
  /\ \A r, q \in Requests : doing[r] = "write" /\ doing[q] = "write" => r = q

SerialInv == ~overlapped => Serial

LEMMA SerialInit == Init => SerialInv
  BY DEF Init, SerialInv, Serial

LEMMA SerialStep == TypeInv /\ SerialInv /\ [Next]_vars => SerialInv'
<1> SUFFICES ASSUME TypeInv, SerialInv, [Next]_vars
             PROVE  SerialInv'
  OBVIOUS
<1>0. TypeOK
  BY DEF TypeInv
<1>1. ASSUME NEW r \in Requests, Read(r)
      PROVE  SerialInv'
  <2> SUFFICES ASSUME ~overlapped'
               PROVE  Serial'
    BY DEF SerialInv
  <2>1. Serial /\ \A q \in Requests : doing[q] # "write"
    BY <1>1 DEF Read, SerialInv
  <2>2. /\ UNCHANGED <<file, lastWriter>>
        /\ copy' = [copy EXCEPT ![r] = file]
        /\ doing' = [doing EXCEPT ![r] = "write"]
    BY <1>1 DEF Read, ReadFile, DoesTo, fileVars
  <2> QED
    BY <1>0, <2>1, <2>2 DEF Serial, TypeOK
<1>2. ASSUME NEW r \in Requests, Write(r)
      PROVE  SerialInv'
  <2> SUFFICES ASSUME ~overlapped'
               PROVE  Serial'
    BY DEF SerialInv
  <2>1. Serial /\ doing[r] = "write" /\ copy[r] = file
    BY <1>2 DEF Write, DoesTo, SerialInv, Serial, threadVars
  <2>2. /\ file' = [file EXCEPT ![at[r]] = r]
        /\ lastWriter' = [lastWriter EXCEPT ![at[r]] = r]
        /\ doing' = [doing EXCEPT ![r] = "recordApplied"]
    BY <1>2, <2>1 DEF Write, DoesTo
  <2>3. \A q \in Requests : doing'[q] # "write"
    BY <1>0, <2>1, <2>2 DEF Serial, TypeOK
  <2>4. \A k \in Keys : file'[k] = lastWriter'[k]
    BY <1>0, <2>1, <2>2 DEF Serial, TypeOK
  <2> QED
    BY <2>3, <2>4 DEF Serial
<1>3. ASSUME UNCHANGED <<file, lastWriter, copy, overlapped>>,
             \A r \in Requests : doing'[r] = "write" => doing[r] = "write"
      PROVE  SerialInv'
  BY <1>3 DEF SerialInv, Serial
<1>4. ASSUME NEW r \in Requests, Ask(r) \/ AskStep(r)
      PROVE  SerialInv'
  BY <1>3, <1>4 DEF Ask, AskStep, LlmProposes, LlmDeclines,
     RequestConfirmation, Show, AskRaises, fileVars, threadVars
<1>5. ASSUME NEW r \in Requests, DoStep(r), ~Read(r), ~Write(r)
      PROVE  SerialInv'
  <2>1. UNCHANGED <<file, lastWriter, copy, overlapped>>
    BY <1>5 DEF DoStep, WriteFails, RecordApplied, RecordAppliedFails,
       RecordFailed, RunAction, Reply, Raises, fileVars, threadVars
  <2>2. \A q \in Requests : doing'[q] = "write" => doing[q] = "write"
    BY <1>0, <1>5 DEF DoStep, WriteFails, RecordApplied, RecordAppliedFails,
       RecordFailed, RunAction, Reply, Raises, DoesTo, AfterKey, TypeOK
  <2> QED
    BY <1>3, <2>1, <2>2
<1>6. ASSUME NEW u \in Users, React(u)
      PROVE  SerialInv'
  BY <1>3, <1>6 DEF React, FirstStage, fileVars, threadVars
<1>7. CASE Tick \/ Restart \/ UNCHANGED vars
  BY <1>3, <1>7 DEF Tick, Restart, vars, fileVars, threadVars
<1> QED
  BY <1>1, <1>2, <1>4, <1>5, <1>6, <1>7 DEF Next

\* If no two changes are made at the same time, none is lost, whatever fails
\* and whenever the daemon is restarted (apply_config_change).
THEOREM SerialChangesAreKept == Spec => []SerialChangesStick
<1>1. SerialInv => SerialChangesStick
  BY DEF SerialInv, Serial, SerialChangesStick
<1>2. TypeInv /\ SerialInv /\ [Next]_vars => (TypeInv /\ SerialInv)'
  BY TypeStep, SerialStep
<1> QED
  BY <1>1, <1>2, TypeInit, SerialInit, PTL DEF Spec

-----------------------------------------------------------------------------
(* What becomes of each key of a request, in the order of the loop.        *)

KeysOf(r) ==
  /\ applied[r] \union failed[r] \subseteq asks[r].keys
  /\ audited[r] \subseteq applied[r]
  /\ audited[r] \intersect failed[r] = {}
  /\ failed[r] # {} => faults
  /\ doing[r] = "idle" => applied[r] = {} /\ failed[r] = {}
  /\ doing[r] = "write" => at[r] \in KeysLeft(r)
  /\ doing[r] = "recordApplied" =>
       at[r] \in applied[r] /\ at[r] \notin failed[r] \union audited[r]
  /\ doing[r] = "recordFailed" => at[r] \in failed[r]
  /\ doing[r] = "run" => asks[r].kind = "action"
  /\ doing[r] \in {"reply", "told"} => KeysLeft(r) = {}

KeyInv == \A r \in Requests : KeysOf(r)

LEMMA KeyInit == Init => KeyInv
  BY DEF Init, KeyInv, KeysOf

\* What a request goes through does not touch another.
SameFor(q) ==
  UNCHANGED <<asks, faults, doing[q], at[q], applied[q], failed[q], audited[q]>>

LEMMA SameKeeps ==
  ASSUME NEW q \in Requests, KeysOf(q), SameFor(q)
  PROVE  KeysOf(q)'
  BY DEF KeysOf, SameFor, KeysLeft

LEMMA DoOthers ==
  ASSUME TypeOK, NEW r \in Requests, DoStep(r), NEW q \in Requests, q # r
  PROVE  SameFor(q)
<1> USE DEF DoesTo, SameFor, TypeOK, fixedVars, threadVars, resultVars
<1>1. UNCHANGED <<asks, faults>>
  BY DEF DoStep, Read, Write, WriteFails, RecordApplied, RecordAppliedFails,
     RecordFailed, RunAction, Reply, Raises
<1>2. doing'[q] = doing[q]
  BY DEF DoStep, Read, Write, WriteFails, RecordApplied, RecordAppliedFails,
     RecordFailed, RunAction, Reply, Raises
<1>3. at'[q] = at[q]
  BY DEF DoStep, Read, Write, WriteFails, RecordApplied, RecordAppliedFails,
     RecordFailed, RunAction, Reply, Raises
<1>4. applied'[q] = applied[q]
  BY DEF DoStep, Read, Write, WriteFails, RecordApplied, RecordAppliedFails,
     RecordFailed, RunAction, Reply, Raises
<1>5. failed'[q] = failed[q]
  BY DEF DoStep, Read, Write, WriteFails, RecordApplied, RecordAppliedFails,
     RecordFailed, RunAction, Reply, Raises
<1>6. audited'[q] = audited[q]
  BY DEF DoStep, Read, Write, WriteFails, RecordApplied, RecordAppliedFails,
     RecordFailed, RunAction, Reply, Raises
<1> QED
  BY <1>1, <1>2, <1>3, <1>4, <1>5, <1>6

\* The request itself.
LEMMA DoKeys ==
  ASSUME TypeInv, KeyInv, NEW r \in Requests, DoStep(r)
  PROVE  KeysOf(r)'
<1>0. TypeOK /\ KeysOf(r)
  BY DEF TypeInv, KeyInv
<1> USE <1>0 DEF KeysOf, KeysLeft, DoesTo, TypeOK, fixedVars, threadVars,
        resultVars
<1>1. CASE Read(r)
  BY <1>1 DEF Read
<1>2. CASE Write(r)
  <2>1. /\ UNCHANGED <<asks, faults, at, failed, audited>>
        /\ applied'[r] = applied[r] \union {at[r]}
        /\ doing[r] = "write" /\ doing'[r] = "recordApplied"
    BY <1>2 DEF Write
  <2> QED
    BY <2>1
<1>3. CASE WriteFails(r)
  <2>1. /\ UNCHANGED <<asks, faults, at, applied, audited>>
        /\ failed'[r] = failed[r] \union {at[r]}
        /\ doing[r] = "write" /\ doing'[r] = "recordFailed" /\ faults
    BY <1>3 DEF WriteFails
  <2> QED
    BY <2>1
<1>4. CASE RecordAppliedFails(r)
  <2>1. /\ UNCHANGED <<asks, faults, at, applied, audited>>
        /\ failed'[r] = failed[r] \union {at[r]}
        /\ doing[r] = "recordApplied" /\ doing'[r] = "recordFailed" /\ faults
    BY <1>4 DEF RecordAppliedFails
  <2> QED
    BY <2>1
<1>5. CASE RecordApplied(r)
  <2>1. /\ UNCHANGED <<asks, faults, at, applied, failed>>
        /\ audited'[r] = audited[r] \union {at[r]}
        /\ doing[r] = "recordApplied"
        /\ doing'[r] = IF KeysLeft(r) = {} THEN "reply" ELSE "apply"
    BY <1>5 DEF RecordApplied, AuditedNow, AfterKey
  <2> QED
    BY <2>1
<1>6. CASE RecordFailed(r)
  <2>1. /\ UNCHANGED <<asks, faults, at, applied, failed, audited>>
        /\ doing'[r] = IF KeysLeft(r) = {} THEN "reply" ELSE "apply"
    BY <1>6 DEF RecordFailed, AfterKey
  <2> QED
    BY <2>1
<1>7. CASE RunAction(r)
  <2>1. /\ UNCHANGED <<asks, faults, at, applied, failed, audited>>
        /\ doing[r] = "run" /\ doing'[r] = "reply"
    BY <1>7 DEF RunAction
  <2>2. asks[r].keys = {}
    BY <2>1 DEF Request
  <2> QED
    BY <2>1, <2>2
<1>8. CASE Reply(r) \/ Raises(r)
  <2>1. /\ UNCHANGED <<asks, faults, at, applied, failed, audited>>
        /\ \/ doing[r] = "reply" /\ doing'[r] = "told"
           \/ doing'[r] = "lost"
    BY <1>8 DEF Reply, Raises
  <2> QED
    BY <2>1
<1> QED
  BY <1>1, <1>2, <1>3, <1>4, <1>5, <1>6, <1>7, <1>8 DEF DoStep

\* Steps of the commands, of time and of nobody.
LEMMA AskSame ==
  ASSUME NEW q \in Requests,
         Tick \/ UNCHANGED vars \/ \E r \in Requests : Ask(r) \/ AskStep(r)
  PROVE  SameFor(q)
  BY DEF SameFor, Tick, vars, Ask, AskStep, LlmProposes, LlmDeclines,
     RequestConfirmation, Show, AskRaises, fixedVars, threadVars, resultVars

\* A reaction starts requests that nothing was done for; a restart ends some.
LEMMA StartOrEnd ==
  ASSUME TypeOK, RequestInv, NEW q \in Requests,
         Restart \/ \E u \in Users : React(u)
  PROVE  /\ UNCHANGED <<asks, faults, file, copy>>
         /\ UNCHANGED <<at[q], applied[q], failed[q], audited[q]>>
         /\ \/ doing'[q] = doing[q]
            \/ doing'[q] = "lost" /\ doing[q] # "idle"
            \/ doing[q] = "idle" /\ doing'[q] = FirstStage(q)
<1>1. CASE Restart
  BY <1>1 DEF Restart, TypeOK, fixedVars, fileVars, threadVars, resultVars
<1>2. ASSUME NEW u \in Users, React(u)
      PROVE  /\ UNCHANGED <<asks, faults, file, copy, at, applied, failed,
                            audited>>
             /\ \/ doing'[q] = doing[q]
                \/ doing[q] = "idle" /\ doing'[q] = FirstStage(q)
  <2>1. UNCHANGED <<asks, faults, file, copy, at, applied, failed, audited>>
    BY <1>2 DEF React, fixedVars, fileVars, threadVars, resultVars
  <2>2. CASE q \in Taken(u)
    <3>1. PICK k \in FirstKind(u) : pending[k][u] = q
      BY <2>2 DEF Taken
    <3>2. k \in Kinds /\ pending[k][u] # None
      BY <3>1, ChatAssumption, TakenOnce
    <3>3. doing[q] = "idle"
      BY <3>1, <3>2 DEF RequestInv, PendingUnstarted, Unstarted
    <3> QED
      BY <1>2, <2>1, <3>3 DEF React
  <2>3. CASE q \notin Taken(u)
    BY <1>2, <2>1, <2>3 DEF React
  <2> QED
    BY <2>2, <2>3
<1> QED
  BY <1>1, <1>2

LEMMA KeyStep == TypeInv /\ RequestInv /\ KeyInv /\ [Next]_vars => KeyInv'
<1> SUFFICES ASSUME TypeInv, RequestInv, KeyInv, [Next]_vars, NEW q \in Requests
             PROVE  KeysOf(q)'
  BY DEF KeyInv
<1>0. TypeOK /\ KeysOf(q)
  BY DEF TypeInv, KeyInv
<1>1. CASE Tick \/ UNCHANGED vars \/ \E r \in Requests : Ask(r) \/ AskStep(r)
  BY <1>0, <1>1, AskSame, SameKeeps
<1>2. CASE \E r \in Requests : DoStep(r)
  BY <1>0, <1>2, DoOthers, SameKeeps, DoKeys
<1>3. CASE Restart \/ \E u \in Users : React(u)
  <2>1. /\ UNCHANGED <<asks, faults, at[q], applied[q], failed[q], audited[q]>>
        /\ \/ doing'[q] = doing[q]
           \/ doing'[q] = "lost"
           \/ doing[q] = "idle" /\ doing'[q] = FirstStage(q)
    BY <1>0, <1>3, StartOrEnd
  <2> QED
    BY <1>0, <2>1 DEF KeysOf, KeysLeft, FirstStage
<1> QED
  BY <1>1, <1>2, <1>3 DEF Next

-----------------------------------------------------------------------------
(* What is in the file, or in a thread's copy of it, has a record or an    *)
(* excuse, and keeps it.                                                   *)

Settled(r, k) ==
  \/ k \in audited[r]
  \/ at[r] = k /\ doing[r] \in {"recordApplied", "recordFailed", "lost"}
  \/ faults /\ k \in failed[r]

Kept(r, k) == k \in applied[r] /\ Settled(r, k)

LEMMA KeptForever ==
  ASSUME TypeInv, RequestInv, KeyInv, [Next]_vars,
         NEW q \in Requests, NEW k \in Keys, Kept(q, k)
  PROVE  Kept(q, k)'
<1>0. TypeOK /\ KeysOf(q)
  BY DEF TypeInv, KeyInv
<1>1. ASSUME SameFor(q)
      PROVE  Kept(q, k)'
  BY <1>1 DEF SameFor, Kept, Settled
<1>2. CASE DoStep(q)
  <2> USE <1>0 DEF Kept, Settled, DoesTo, TypeOK, fixedVars, threadVars,
          resultVars
  <2>1. CASE Read(q)
    BY <2>1 DEF Read
  <2>2. CASE Write(q) \/ WriteFails(q) \/ RecordAppliedFails(q)
    <3>1. /\ UNCHANGED <<faults, at[q], audited[q]>>
          /\ applied[q] \subseteq applied'[q] /\ failed[q] \subseteq failed'[q]
          /\ \/ doing[q] = "write"
             \/ doing[q] = "recordApplied" /\ doing'[q] = "recordFailed"
      BY <2>2 DEF Write, WriteFails, RecordAppliedFails
    <3> QED
      BY <3>1
  <2>3. CASE RecordApplied(q)
    <3>1. /\ UNCHANGED <<faults, at[q], applied[q], failed[q]>>
          /\ audited'[q] = audited[q] \union {at[q]}
          /\ doing[q] = "recordApplied"
      BY <2>3 DEF RecordApplied, AuditedNow
    <3> QED
      BY <3>1
  <2>4. CASE RecordFailed(q)
    <3>1. /\ UNCHANGED <<faults, at[q], applied[q], failed[q], audited[q]>>
          /\ doing[q] = "recordFailed"
      BY <2>4 DEF RecordFailed
    <3> QED
      BY <3>1 DEF KeysOf
  <2>5. CASE RunAction(q) \/ Reply(q) \/ Raises(q)
    <3>1. /\ UNCHANGED <<faults, at[q], applied[q], failed[q], audited[q]>>
          /\ \/ doing[q] \in {"run", "reply"}
             \/ doing'[q] = "lost"
      BY <2>5 DEF RunAction, Reply, Raises
    <3> QED
      BY <3>1
  <2> QED
    BY <1>2, <2>1, <2>2, <2>3, <2>4, <2>5 DEF DoStep
<1>3. CASE Restart \/ \E u \in Users : React(u)
  <2>1. /\ UNCHANGED <<faults, at[q], applied[q], failed[q], audited[q]>>
        /\ \/ doing'[q] = doing[q]
           \/ doing'[q] = "lost"
           \/ doing[q] = "idle"
    BY <1>0, <1>3, StartOrEnd
  <2>2. doing[q] # "idle"
    BY <1>0 DEF KeysOf, Kept
  <2> QED
    BY <2>1, <2>2 DEF Kept, Settled
<1> QED
  BY <1>0, <1>1, <1>2, <1>3, AskSame, DoOthers DEF Next

FileInv ==
  /\ \A r \in Requests, k \in Keys : file[k] = r => Kept(r, k)
  /\ \A q, r \in Requests, k \in Keys : copy[q][k] = r => Kept(r, k)

LEMMA FileInit == Init => FileInv
  BY ChatAssumption DEF Init, FileInv

LEMMA FileStep ==
  TypeInv /\ RequestInv /\ KeyInv /\ FileInv /\ [Next]_vars => FileInv'
<1> SUFFICES ASSUME TypeInv, RequestInv, KeyInv, FileInv, [Next]_vars
             PROVE  FileInv'
  OBVIOUS
<1>0. TypeOK
  BY DEF TypeInv
<1>1. \A r \in Requests, k \in Keys : Kept(r, k) => Kept(r, k)'
  BY KeptForever
<1>2. ASSUME UNCHANGED <<file, copy>>
      PROVE  FileInv'
  BY <1>1, <1>2 DEF FileInv
<1>3. ASSUME NEW r \in Requests, Read(r)
      PROVE  FileInv'
  <2>1. UNCHANGED file /\ copy' = [copy EXCEPT ![r] = file]
    BY <1>3 DEF Read, ReadFile, fileVars
  <2> QED
    BY <1>0, <1>1, <2>1 DEF FileInv, TypeOK
<1>4. ASSUME NEW r \in Requests, Write(r)
      PROVE  FileInv'
  <2>1. /\ UNCHANGED copy
        /\ file' = [copy[r] EXCEPT ![at[r]] = r]
    BY <1>4 DEF Write, threadVars
  <2>2. Kept(r, at[r])'
    BY <1>0, <1>4 DEF Write, DoesTo, Kept, Settled, TypeOK, threadVars
  <2>3. UNCHANGED at
    BY <1>4 DEF Write, threadVars
  <2>4. \A q \in Requests, k \in Keys : file'[k] = q => Kept(q, k)'
    <3> SUFFICES ASSUME NEW q \in Requests, NEW k \in Keys, file'[k] = q
                 PROVE  Kept(q, k)'
      OBVIOUS
    <3>1. CASE k = at[r]
      <4>1. q = r
        BY <1>0, <2>1, <3>1 DEF TypeOK
      <4> QED
        BY <2>2, <2>3, <3>1, <4>1
    <3>2. CASE k # at[r]
      BY <1>0, <1>1, <2>1, <3>2 DEF FileInv, TypeOK
    <3> QED
      BY <3>1, <3>2
  <2> QED
    BY <1>1, <2>1, <2>4 DEF FileInv
<1>5. ASSUME NEW r \in Requests, DoStep(r), ~Read(r), ~Write(r)
      PROVE  UNCHANGED <<file, copy>>
  BY <1>5 DEF DoStep, WriteFails, RecordApplied, RecordAppliedFails,
     RecordFailed, RunAction, Reply, Raises, fileVars, threadVars
<1>6. ASSUME NEW r \in Requests, Ask(r) \/ AskStep(r)
      PROVE  UNCHANGED <<file, copy>>
  BY <1>6 DEF Ask, AskStep, LlmProposes, LlmDeclines, RequestConfirmation,
     Show, AskRaises, fileVars, threadVars
<1>7. ASSUME NEW u \in Users, React(u)
      PROVE  UNCHANGED <<file, copy>>
  BY <1>7 DEF React, fileVars, threadVars
<1>8. CASE Tick \/ Restart \/ UNCHANGED vars
  BY <1>2, <1>8 DEF Tick, Restart, vars, fileVars, threadVars
<1> QED
  BY <1>2, <1>3, <1>4, <1>5, <1>6, <1>7, <1>8 DEF Next

ChangeInv == TypeInv /\ RequestInv /\ KeyInv /\ FileInv

LEMMA ChangeStep == ChangeInv /\ [Next]_vars => ChangeInv'
  BY TypeStep, RequestStep, KeyStep, FileStep DEF ChangeInv

LEMMA ChangeInit == Init => ChangeInv
  BY TypeInit, RequestInit, KeyInit, FileInit DEF ChangeInv

\* A change that is in config.yaml has its audit record, or the record is
\* being written, failed or was cut off with the coroutine
\* (_execute_config_change, _execute_threshold_tuning).
THEOREM ChangesAudited == Spec => []FileAudited
<1>1. ChangeInv => FileAudited
  BY DEF ChangeInv, FileInv, Kept, Settled, FileAudited
<1> QED
  BY <1>1, ChangeInit, ChangeStep, PTL DEF Spec

\* A reply tells what became of every key, and tells it right
\* (_execute_config_change, _execute_threshold_tuning).
THEOREM RepliesAccurate == Spec => []RepliesTellAll
<1>1. ASSUME ChangeInv, NEW r \in Requests, doing[r] = "told"
      PROVE  /\ asks[r].keys = applied[r] \union failed[r]
             /\ \A k \in failed[r] :
                  faults /\ k \notin audited[r] /\ (file[k] = r => k \in applied[r])
  <2>1. KeysOf(r) /\ failed[r] \subseteq Keys
    BY <1>1 DEF ChangeInv, KeyInv, TypeInv, TypeOK
  <2>2. asks[r].keys = applied[r] \union failed[r]
    BY <1>1, <2>1 DEF KeysOf, KeysLeft
  <2>3. \A k \in Keys : file[k] = r => k \in applied[r]
    BY <1>1 DEF ChangeInv, FileInv, Kept
  <2> QED
    BY <2>1, <2>2, <2>3 DEF KeysOf
<1>2. ChangeInv => RepliesTellAll
  BY <1>1 DEF RepliesTellAll
<1> QED
  BY <1>2, ChangeInit, ChangeStep, PTL DEF Spec
=============================================================================
