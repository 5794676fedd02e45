------------------------ MODULE ServiceMonitorProofs ------------------------
(***************************************************************************)
(* What ServiceMonitor guarantees for any number of services, attempts and *)
(* errors.                                                                 *)
(***************************************************************************)
EXTENDS ServiceMonitor, TLAPS

\* All that matters of the list of services.
LEMMA ServicesAreIndexed ==
  /\ Services \subseteq Nat
  /\ 1 \in Services
  /\ \A s \in Services : s < Count => s + 1 \in Services
  BY MonitorAssumption DEF Services

\* The updates of the counters keep their type.
LEMMA ZeroType == Zero \in [Services -> Nat]
  BY DEF Zero

LEMMA CounterTypes ==
  \A f \in [Services -> Nat], s \in Services :
    Plus(f, s) \in [Services -> Nat] /\ Reset(f, s) \in [Services -> Nat]
  BY DEF Plus, Reset

LEMMA BoundsAreReached ==
  /\ CheckInterval \in 0 .. CheckInterval
  /\ 0 \in 0 .. MaxErrors
  /\ 0 \in 0 .. MaxRestarts
  BY MonitorAssumption

LEMMA TypeInit == Init => TypeOK
<1> SUFFICES ASSUME Init PROVE TypeOK
  OBVIOUS
<1>1. sinceCheck \in 0 .. CheckInterval /\ errors \in 0 .. MaxErrors
        /\ restarts \in 0 .. MaxRestarts
  BY BoundsAreReached DEF Init
<1> QED
  BY <1>1, ServicesAreIndexed, ZeroType DEF Init, TypeOK, Steps

LEMMA TypeStep == TypeOK /\ [Next]_vars => TypeOK'
<1> SUFFICES ASSUME TypeOK, [Next]_vars PROVE TypeOK'
  OBVIOUS
<1> USE MonitorAssumption, ServicesAreIndexed DEF TypeOK, Steps, NextService,
        Clear, worldVars, passVars, monitorVars, historyVars
<1>1. CASE Begin
  BY <1>1 DEF Begin
<1>2. CASE FoundActive
  BY <1>2, CounterTypes DEF FoundActive
<1>3. CASE FoundExhausted
  BY <1>3 DEF FoundExhausted
<1>4. CASE FoundFailed
  BY <1>4, CounterTypes DEF FoundFailed
<1>5. CASE Report
  BY <1>5 DEF Report
<1>6. CASE RestartService
  BY <1>6, CounterTypes DEF RestartService
<1>7. CASE Recheck
  BY <1>7 DEF Recheck
<1>8. CASE Audit
  BY <1>8, CounterTypes DEF Audit
<1>9. CASE Restarted
  BY <1>9, CounterTypes DEF Restarted
<1>10. CASE TryAgain
  BY <1>10, CounterTypes DEF TryAgain
<1>11. CASE GiveUp
  BY <1>11, CounterTypes DEF GiveUp
<1>12. CASE Exhausted
  BY <1>12, CounterTypes DEF Exhausted
<1>13. CASE Abort
  BY <1>13, CounterTypes DEF Abort
<1>14. ASSUME NEW s \in Services, ServiceFails(s) \/ ServiceRecovers(s)
       PROVE  TypeOK'
  BY <1>14 DEF ServiceFails, ServiceRecovers
<1>15. CASE Tick
  BY <1>15 DEF Tick
<1>16. CASE RestartDaemon
  <2>1. sinceCheck' \in 0 .. CheckInterval /\ restarts' \in 0 .. MaxRestarts
    BY <1>16, BoundsAreReached DEF RestartDaemon
  <2> QED
    BY <1>16, <2>1, ZeroType DEF RestartDaemon
<1>17. CASE UNCHANGED vars
  BY <1>17 DEF vars
<1> QED
  BY <1>1, <1>2, <1>3, <1>4, <1>5, <1>6, <1>7, <1>8, <1>9, <1>10, <1>11,
     <1>12, <1>13, <1>14, <1>15, <1>16, <1>17 DEF Next, Pass

\* Every state of the monitor is well typed; the loop never leaves the list of
\* services.
THEOREM TypeCorrect == Spec => []TypeOK
  BY TypeInit, TypeStep, PTL DEF Spec

-----------------------------------------------------------------------------

\* While an attempt is under way, the service is one the monitor has not given
\* up on, and the alert that gives up comes with its place in the set.
AttemptUnderWay ==
  /\ step \in {"report", "restart", "recheck", "audit", "result"}
       => at \notin exhausted
  /\ step = "exhaust" => at \in exhausted

\* An attempt is counted before its restart is commanded, and a service that
\* may be attempted once more has an attempt left.
AttemptsCounted ==
  \A s \in Services :
    /\ commands[s] + InFlight(s, {"report", "restart"}) <= attempts[s]
    /\ attempts[s] <= MaxAttempts + aborts[s]
    /\ \/ s \in exhausted
       \/ InFlight(s, {"report", "restart", "recheck", "audit", "result"}) = 1
       \/ attempts[s] < MaxAttempts + aborts[s]

\* A restart is commanded before it is recorded.
CommandedFirst ==
  \A s \in Services :
    records[s] + InFlight(s, {"recheck", "audit"}) <= commands[s]

MonitorInv ==
  /\ AttemptUnderWay
  /\ AttemptsCounted
  /\ CommandedFirst
  /\ RestartsOnRecord
  /\ SilentOnlyAfterCritical

LEMMA MonitorInit == Init => MonitorInv
  BY MonitorAssumption, ServicesAreIndexed
  DEF Init, MonitorInv, AttemptUnderWay, AttemptsCounted, CommandedFirst,
      RestartsOnRecord, SilentOnlyAfterCritical, InFlight, Zero

LEMMA MonitorStep == TypeOK /\ MonitorInv /\ [Next]_vars => MonitorInv'
<1> SUFFICES ASSUME TypeOK, MonitorInv, [Next]_vars PROVE MonitorInv'
  OBVIOUS
<1> USE MonitorAssumption, ServicesAreIndexed DEF TypeOK, Steps, MonitorInv,
        AttemptUnderWay, AttemptsCounted, CommandedFirst, RestartsOnRecord,
        SilentOnlyAfterCritical, InFlight, NextService, Plus,
        Reset, Clear, Zero, worldVars, passVars, monitorVars, historyVars
<1>1. CASE Begin
  BY <1>1 DEF Begin
<1>2. CASE FoundActive
  BY <1>2 DEF FoundActive
<1>3. CASE FoundExhausted
  BY <1>3 DEF FoundExhausted
<1>4. CASE FoundFailed
  BY <1>4 DEF FoundFailed
<1>5. CASE Report
  BY <1>5 DEF Report
<1>6. CASE RestartService
  BY <1>6 DEF RestartService
<1>7. CASE Recheck
  BY <1>7 DEF Recheck
<1>8. CASE Audit
  BY <1>8 DEF Audit
<1>9. CASE Restarted
  BY <1>9 DEF Restarted
<1>10. CASE TryAgain
  BY <1>10 DEF TryAgain
<1>11. CASE GiveUp
  BY <1>11 DEF GiveUp
<1>12. CASE Exhausted
  BY <1>12 DEF Exhausted
<1>13. CASE Abort
  BY <1>13 DEF Abort
<1>14. ASSUME NEW s \in Services, ServiceFails(s) \/ ServiceRecovers(s)
       PROVE  MonitorInv'
  BY <1>14 DEF ServiceFails, ServiceRecovers
<1>15. CASE Tick
  BY <1>15 DEF Tick
<1>16. CASE RestartDaemon
  BY <1>16 DEF RestartDaemon
<1>17. CASE UNCHANGED vars
  BY <1>17 DEF vars
<1> QED
  BY <1>1, <1>2, <1>3, <1>4, <1>5, <1>6, <1>7, <1>8, <1>9, <1>10, <1>11,
     <1>12, <1>13, <1>14, <1>15, <1>16, <1>17 DEF Next, Pass

LEMMA MonitorInvariant == Spec => [](TypeOK /\ MonitorInv)
  BY TypeInit, TypeStep, MonitorInit, MonitorStep, PTL DEF Spec

\* However many services and errors there are, a service is restarted at most
\* max_restart_attempts times in a row, and once more for each error that cut
\* an attempt short.
THEOREM RestartsAreBounded == Spec => []RetriesBounded
<1>1. TypeOK /\ MonitorInv => RetriesBounded
  BY DEF TypeOK, MonitorInv, AttemptsCounted, RetriesBounded, InFlight
<1> QED
  BY <1>1, MonitorInvariant, PTL

\* The monitor goes silent about a service only when its one critical alert is
\* published.
THEOREM GivingUpIsAnnounced == Spec => []SilentOnlyAfterCritical
<1>1. MonitorInv => SilentOnlyAfterCritical
  BY DEF MonitorInv
<1> QED
  BY <1>1, MonitorInvariant, PTL

\* Results told to chat are in the audit log, and only an error leaves a
\* restart without a record.
THEOREM RestartsAreAudited == Spec => []RestartsOnRecord
<1>1. MonitorInv => RestartsOnRecord
  BY DEF MonitorInv
<1> QED
  BY <1>1, MonitorInvariant, PTL
=============================================================================
