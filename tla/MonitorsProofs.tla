---------------------------- MODULE MonitorsProofs ----------------------------
(***************************************************************************)
(* What the monitors of one daemon guarantee: their types, that reports    *)
(* are exact, that tampering is reported, that alerts are spaced, and that *)
(* nothing is missed.                                                      *)
(***************************************************************************)
EXTENDS MCMonitors, SequenceTheorems, FiniteSetTheorems,
        WellFoundedInduction, TLAPS

-----------------------------------------------------------------------------
(* Reports: the invariant *)

\* What monitor m has on record as reported, and what there is to report now.
DigestRow(m) == IF m = "daily" THEN row.date ELSE row.week
PeriodNow(m) == IF m = "daily" THEN Day(now) ELSE Week(now)

\* A digest that is due is made; its row is written.
IsMaking(m) ==
  UnderWay(m) /\ step \notin {"daily.date", "weekly.week", "daily.setTs",
                              "weekly.setTs"}
RowWritten(m) == step = IF m = "daily" THEN "daily.setTs" ELSE "weekly.setTs"

\* The row is never ahead of the clock or of what is being reported.
RowInOrder(m) ==
  /\ DigestRow(m) <= PeriodNow(m)
  /\ UnderWay(m) => period <= PeriodNow(m) /\ DigestRow(m) <= period
  /\ IsMaking(m) => DigestRow(m) < period
  /\ RowWritten(m) => DigestRow(m) = period

\* What it says has been reported, and what is about to be written to it.
RowTrue(m) ==
  /\ Unrecorded(m) \/ RowWritten(m) => published[m][period] > 0
  /\ DigestRow(m) # Never => published[m][DigestRow(m)] > 0

\* The periods up to the row may have had a digest of their own.
DigestsBounded(m) ==
  \A p \in Periods :
    published[m][p] <= cut[m][p]
      + IF p <= DigestRow(m) \/ (Unrecorded(m) /\ p = period) THEN 1 ELSE 0

LookedReported(m) ==
  \A p \in looked[m] :
    published[m][p] > 0 \/ p \in hurt[m] \/ (UnderWay(m) /\ period = p)

DigestInv(m) ==
  RowInOrder(m) /\ RowTrue(m) /\ DigestsBounded(m) /\ LookedReported(m)

BuildSteps == {"daily.publish", "daily.setDate", "daily.setTs"}

\* Where a digest leaves off is on record, or it is what the digest that has
\* been built reaches; all before it have been counted, and all behind it have
\* not, while nothing has been cut off.
CountInv ==
  /\ row.at <= Len(log) /\ base <= Len(log) /\ asOf.pos <= Len(log)
  /\ step \in BuildSteps \union {"daily.build"} =>
       since = IF row.at = Never THEN base ELSE row.at
  /\ step \in BuildSteps \union {"daily.since", "daily.build"} =>
       row.at <= asOf.pos
  /\ \A i \in Alerts : base < i /\ i <= row.at => counted[i] > 0
  /\ step \in BuildSteps => \A i \in Alerts :
       since < i /\ i <= asOf.pos => counted[i] > 0
  /\ hurt["daily"] = {} => \A i \in Alerts :
       /\ counted[i] > 1 => i \in late
       /\ counted[i] > 0 => i \in late \/ i <= (IF step \in BuildSteps
                                                THEN asOf.pos ELSE row.at)

\* No checkup is later than the one on record, which is an interval behind
\* while another is made.
CheckupInv ==
  /\ row.checkup <= now /\ stamp <= now
  /\ \A i \in 1 .. Len(checkups) : checkups[i] <= row.checkup
  /\ step = "checkup.llm" => CheckupDue
  /\ step = "checkup.set" =>
       row.checkup = Never \/ stamp - row.checkup >= Interval
  /\ step = "checkup.audit" =>
       /\ row.checkup = stamp
       /\ \A i \in 1 .. Len(checkups) : stamp - checkups[i] >= Interval
  /\ CheckupsApart

ReportsInv ==
  TypeOK /\ (\A m \in Digests : DigestInv(m)) /\ CountInv /\ CheckupInv

-----------------------------------------------------------------------------
(* Reports: the calendar *)

\* A later time is in no earlier period.
LEMMA DivMonotone ==
  ASSUME NEW n \in Nat \ {0}, NEW a \in Nat, NEW b \in Nat, a <= b
  PROVE  a \div n \in Nat /\ b \div n \in Nat /\ a \div n <= b \div n
<1> DEFINE q == a \div n
           r == b \div n
<1>1. q \in Int /\ r \in Int
  OBVIOUS
<1>2. n * q <= a /\ a < n * q + n /\ n * r <= b /\ b < n * r + n
  OBVIOUS
<1> HIDE DEF q, r
<1>3. q >= 0 /\ r >= 0
  BY <1>1, <1>2
<1>4. r >= q
  BY <1>1, <1>2
<1> QED
  BY <1>1, <1>3, <1>4 DEF q, r

\* Division does not enlarge.
LEMMA DivNoGreater ==
  ASSUME NEW n \in Nat \ {0}, NEW a \in Nat
  PROVE  a \div n <= a
<1> DEFINE q == a \div n
<1>1. q \in Int /\ n * q <= a
  OBVIOUS
<1> HIDE DEF q
<1>2. q >= 0
  BY DivMonotone, 0 \div n = 0 DEF q
<1>3. q <= n * q
  BY <1>1, <1>2
<1> QED
  BY <1>1, <1>3 DEF q

\* The periods of the clock, which a tick does not take back.
LEMMA Calendar ==
  ASSUME NEW t \in Times
  PROVE  /\ Day(t) \in Periods /\ Week(t) \in Periods
         /\ Day(t) <= Day(t + 1) /\ Week(t) <= Week(t + 1)
<1>1. DayLen \in Nat \ {0} /\ DaysPerWeek \in Nat \ {0} /\ MaxTime \in Nat
        /\ t \in Nat /\ t + 1 \in Nat /\ t <= MaxTime
  BY ReportsAssumption DEF Times
<1>2. /\ Day(t) \in Nat /\ Day(t + 1) \in Nat /\ Day(MaxTime) \in Nat
      /\ Day(t) <= Day(t + 1) /\ Day(t) <= Day(MaxTime)
  BY <1>1, DivMonotone DEF Day
<1>3. Week(t) \in Nat /\ Week(t + 1) \in Nat /\ Week(t) <= Week(t + 1)
  BY <1>1, <1>2, DivMonotone DEF Week
<1>4. Week(t) <= Day(t)
  BY <1>1, <1>2, DivNoGreater DEF Week
<1> QED
  BY <1>2, <1>3, <1>4 DEF Periods

\* The present period is one of those.
LEMMA PeriodNowType ==
  ASSUME now \in Times, NEW m
  PROVE  PeriodNow(m) \in Periods
  BY Calendar DEF PeriodNow

-----------------------------------------------------------------------------
(* Reports: types *)

\* Histories start at zero.
LEMMA ReportsZeros ==
  0 \in Times /\ 0 \in Positions /\ 0 \in Periods /\ NoPosition.pos = 0
  BY ReportsAssumption, Calendar
  DEF Times, Positions, Periods, Day, NoPosition

\* The types hold at first.
LEMMA ReportsTypesInit == Init => TypeOK
<1> SUFFICES ASSUME Init PROVE TypeOK
  OBVIOUS
<1> QED
  BY ReportsZeros, ReportsAssumption
  DEF Init, TypeOK, NoPosition, Steps, Digests, Monitors

\* What an error or a stop leaves behind is of the same types.
LEMMA CutTypes ==
  ASSUME TypeOK, CutOff
  PROVE  /\ row' \in [date : Periods \union {Never},
                       week : Periods \union {Never},
                       at : Positions \union {Never},
                       checkup : Times \union {Never}]
         /\ cut' \in [Digests -> [Periods -> Nat]]
         /\ hurt' \in [Digests -> SUBSET Periods]
         /\ lostCheckups' \subseteq Times
<1>1. row' \in RowsAfterCut
  BY DEF CutOff
<1>2. row' \in {row, DailyDateRow, DailyTsRow, WeeklyWeekRow, CheckupRow}
  BY <1>1 DEF RowsAfterCut
<1>3. row' \in [date : Periods \union {Never}, week : Periods \union {Never},
              at : Positions \union {Never}, checkup : Times \union {Never}]
  BY <1>2
  DEF DailyDateRow, DailyTsRow, WeeklyWeekRow, CheckupRow, TypeOK
<1>5. cut' \in [Digests -> [Periods -> Nat]]
  BY DEF CutOff, TypeOK
<1>6. hurt' \in [Digests -> SUBSET Periods]
  BY DEF CutOff, TypeOK
<1>7. lostCheckups' \subseteq Times
  BY DEF CutOff, TypeOK
<1> QED
  BY <1>3, <1>5, <1>6, <1>7

\* What an alert is counted in, is a section.
LEMMA SectionType ==
  TypeOK => InSection \subseteq Alerts
<1> SUFFICES ASSUME TypeOK, NEW i \in InSection PROVE i \in Alerts
  OBVIOUS
<1>1. since \in Nat /\ Len(log) \in Nat /\ Len(log) <= MaxAlerts
        /\ MaxAlerts \in Nat
  BY ReportsAssumption DEF TypeOK, Positions
<1> QED
  BY <1>1 DEF InSection, Alerts

\* A publication keeps the types of what is counted.
LEMMA PublishesType ==
  ASSUME TypeOK, NEW m \in Digests, Publishes(m)
  PROVE  published' \in [Digests -> [Periods -> Nat]]
<1>1. published[m] \in [Periods -> Nat] /\ period \in Periods
        /\ published \in [Digests -> [Periods -> Nat]]
  BY DEF TypeOK
<1>2. [published[m] EXCEPT ![period] = @ + 1] \in [Periods -> Nat]
  BY <1>1
<1>3. PICK f \in [Periods -> Nat] : f = [published[m] EXCEPT ![period] = @ + 1]
  BY <1>2
<1>4. published' = [published EXCEPT ![m] = f]
  BY <1>1, <1>3 DEF Publishes
<1> QED
  BY <1>1, <1>3, <1>4

\* Each step keeps the types of the reports.
LEMMA ReportsTypesStep == TypeOK /\ [Next]_vars => TypeOK'
<1> SUFFICES ASSUME TypeOK, [Next]_vars PROVE TypeOK'
  OBVIOUS
<1>0. TypeOK /\ 0 \in Times /\ 0 \in Positions /\ 0 \in Periods
  BY ReportsZeros
<1> USE DEF loopVars, localVars, worldVars, digestVars, countVars, checkupVars,
            Steps
<1>1. CASE BeginPass
  BY <1>0, <1>1
  DEF BeginPass, TypeOK
<1>2. CASE EndPass
  BY <1>0, <1>2, ReportsAssumption DEF EndPass, TypeOK, Times
<1>3. CASE \E d \in Digests : NotDue(d)
  BY <1>0, <1>3
  DEF NotDue, ComesTo, TypeOK
<1>4. CASE DailyLooks
  <2>1. Day(now) \in Periods
    BY <1>0, Calendar DEF TypeOK
  <2>2. "daily" \in Digests /\ "daily.date" \in Steps
    BY DEF Digests
  <2> QED
    BY <1>0, <1>4, <2>1, <2>2 DEF DailyLooks, ComesTo, Looks, TypeOK
<1>5. CASE DailySent
  BY <1>0, <1>5
  DEF DailySent, Returns, Goes, Forgets, NoPosition, TypeOK
<1>6. CASE DailyUnsent
  <2>1. Len(log) \in Positions
    BY <1>0, ReportsAssumption DEF TypeOK, Positions
  <2> QED
    BY <1>0, <1>6, <2>1 DEF DailyUnsent, Goes, TypeOK
<1>7. CASE DailySince
  <2>1. 0 .. Len(log) \subseteq Positions
    BY <1>0, ReportsAssumption DEF TypeOK, Positions
  <2>2. since' \in Positions /\ base' \in Positions
    BY <1>0, <1>7, <2>1 DEF DailySince, DayAgo, TypeOK
  <2> QED
    BY <1>0, <1>7, <2>2 DEF DailySince, Goes, TypeOK
<1>8. CASE DailyBuild
  <2>1. published' \in [Digests -> [Periods -> Nat]]
    BY <1>0, <1>8, PublishesType DEF DailyBuild, Digests
  <2>2. counted' \in [Alerts -> Nat]
    BY <1>0, <1>8 DEF DailyBuild, TypeOK
  <2>3. late' \subseteq Alerts
    BY <1>0, <1>8, SectionType DEF DailyBuild, TypeOK
  <2> QED
    BY <1>0, <1>8, <2>1, <2>2, <2>3 DEF DailyBuild, Goes, TypeOK
<1>9. CASE DailyPublished
  BY <1>0, <1>9
  DEF DailyPublished, Goes, TypeOK
<1>10. CASE DailyDateSet
  BY <1>0, <1>10
  DEF DailyDateSet, Goes, DailyDateRow, TypeOK
<1>11. CASE DailyTsSet
  BY <1>0, <1>11
  DEF DailyTsSet, Returns, Goes, Forgets, DailyTsRow, NoPosition, Positions,
      Periods, TypeOK
<1>12. CASE WeeklyLooks
  <2>1. Week(now) \in Periods
    BY <1>0, Calendar DEF TypeOK
  <2>2. "weekly" \in Digests
    BY DEF Digests
  <2> QED
    BY <1>0, <1>12, <2>1, <2>2 DEF WeeklyLooks, ComesTo, Looks, TypeOK
<1>13. CASE WeeklySent
  BY <1>0, <1>13
  DEF WeeklySent, Returns, Goes, Forgets, NoPosition, TypeOK
<1>14. CASE WeeklyUnsent
  BY <1>0, <1>14
  DEF WeeklyUnsent, Goes, TypeOK
<1>15. CASE WeeklyBuild
  <2>1. published' \in [Digests -> [Periods -> Nat]]
    BY <1>0, <1>15, PublishesType DEF WeeklyBuild, Digests
  <2> QED
    BY <1>0, <1>15, <2>1 DEF WeeklyBuild, Goes, TypeOK
<1>16. CASE WeeklyPublished
  BY <1>0, <1>16
  DEF WeeklyPublished, Goes, TypeOK
<1>17. CASE WeeklyWeekSet
  BY <1>0, <1>17
  DEF WeeklyWeekSet, Goes, WeeklyWeekRow, TypeOK
<1>18. CASE WeeklyTsSet
  BY <1>0, <1>18
  DEF WeeklyTsSet, Returns, Goes, Forgets, NoPosition, TypeOK
<1>19. CASE CheckupLooks
  BY <1>0, <1>19
  DEF CheckupLooks, ComesTo, TypeOK
<1>20. CASE CheckupRecent
  BY <1>0, <1>20
  DEF CheckupRecent, Returns, Goes, Forgets, NoPosition, TypeOK
<1>21. CASE CheckupStarts
  BY <1>0, <1>21
  DEF CheckupStarts, Goes, TypeOK
<1>22. CASE CheckupAnswered
  BY <1>0, <1>22
  DEF CheckupAnswered, Goes, TypeOK
<1>23. CASE CheckupSet
  BY <1>0, <1>23
  DEF CheckupSet, Goes, CheckupRow, TypeOK
<1>24. CASE CheckupAudited
  BY <1>0, <1>24
  DEF CheckupAudited, Goes, TypeOK
<1>25. CASE CheckupPublished
  BY <1>0, <1>25
  DEF CheckupPublished, Returns, Goes, Forgets, NoPosition, TypeOK
<1>26. CASE Raises
  <2>1. TypeOK /\ CutOff /\ Forgets
    BY <1>0, <1>26 DEF Raises
  <2>2. row' \in RowsAfterCut
    BY <2>1 DEF CutOff
  <2>3. errors' \in 0 .. MaxErrors
    BY <1>0, <1>26, ReportsAssumption DEF Raises, TypeOK
  <2> QED
    BY <1>0, <1>26, <2>1, <2>2, <2>3, CutTypes, ReportsZeros
    DEF Raises, Forgets, TypeOK, NoPosition
<1>27. CASE Stop
  <2>1. TypeOK /\ CutOff /\ Forgets
    BY <1>0, <1>27 DEF Stop
  <2>2. row' \in RowsAfterCut
    BY <2>1 DEF CutOff
  <2>3. stops' \in 0 .. MaxStops
    BY <1>0, <1>27, ReportsAssumption DEF Stop, TypeOK
  <2> QED
    BY <1>0, <1>27, <2>1, <2>2, <2>3, CutTypes, ReportsZeros
    DEF Stop, Forgets, TypeOK, NoPosition
<1>28. CASE Start
  BY <1>0, <1>28
  DEF Start, TypeOK
<1>29. CASE Tick
  <2>1. now' \in Times
    BY <1>0, <1>29, ReportsAssumption DEF Tick, TypeOK, Times
  <2> QED
    BY <1>0, <1>29, <2>1 DEF Tick, TypeOK
<1>30. CASE AlertFires
  <2>1. log' \in Seq(Times) /\ Len(log') = Len(log) + 1
    BY <1>0, <1>30, AppendProperties DEF AlertFires, TypeOK
  <2>2. Len(log') <= MaxAlerts
    BY <1>0, <1>30, <2>1, ReportsAssumption DEF AlertFires, TypeOK
  <2> QED
    BY <1>0, <1>30, <2>1, <2>2 DEF AlertFires, TypeOK
<1>31. CASE UNCHANGED vars
  BY <1>0, <1>31 DEF vars, TypeOK
<1> QED
  BY <1>1, <1>2, <1>3, <1>4, <1>5, <1>6, <1>7, <1>8, <1>9, <1>10, <1>11, <1>12,
     <1>13, <1>14, <1>15, <1>16, <1>17, <1>18, <1>19, <1>20, <1>21, <1>22,
     <1>23, <1>24, <1>25, <1>26, <1>27, <1>28, <1>29, <1>30, <1>31
  DEF Next, DailyStep, WeeklyStep, CheckupStep

-----------------------------------------------------------------------------
(* Reports: digests *)

\* The invariant of a digest holds at first.
LEMMA DigestInvInit ==
  ASSUME Init, NEW m \in Digests
  PROVE  DigestInv(m)
<1>1. PeriodNow(m) \in Periods
  BY PeriodNowType, ReportsZeros DEF Init
<1>2. DigestRow(m) = Never
  BY DEF Init, DigestRow
<1> QED
  BY <1>1, <1>2
  DEF Init, DigestInv, RowInOrder, RowTrue, DigestsBounded, LookedReported,
      UnderWay, IsMaking, RowWritten, Unrecorded, DailySteps, WeeklySteps,
      Never, Periods

\* The numbers that a digest compares.
LEMMA DigestTypes ==
  ASSUME TypeOK, NEW m \in Digests
  PROVE  /\ m \in {"daily", "weekly"}
         /\ DigestRow(m) \in Periods \union {Never}
         /\ PeriodNow(m) \in Periods /\ Periods \subseteq Nat /\ Never = -1
         /\ published[m] \in [Periods -> Nat] /\ cut[m] \in [Periods -> Nat]
         /\ period \in Periods /\ period \in Nat
         /\ DigestRow(m) \in Int /\ PeriodNow(m) \in Int
         /\ \A p \in Periods :
              p \in Int /\ published[m][p] \in Int /\ cut[m][p] \in Int
<1>1. m \in {"daily", "weekly"} /\ PeriodNow(m) \in Periods
  BY PeriodNowType DEF TypeOK, Digests
<1>2. Periods \subseteq Nat /\ Never = -1
  BY DEF Periods, Never
<1>3. DigestRow(m) \in Periods \union {Never} /\ period \in Periods
  BY DEF DigestRow, TypeOK
<1>4. \A p \in Periods : p \in Int
  BY <1>2
<1>5. DigestRow(m) \in Periods \/ DigestRow(m) = -1
  BY <1>2, <1>3
<1>6. DigestRow(m) \in Int /\ PeriodNow(m) \in Int
  BY <1>1, <1>4, <1>5
<1>7. period \in Nat
  BY <1>2, <1>3
<1>8. published[m] \in [Periods -> Nat] /\ cut[m] \in [Periods -> Nat]
  BY DEF TypeOK
<1>9. \A p \in Periods : published[m][p] \in Int /\ cut[m][p] \in Int
  BY <1>8
<1> QED
  BY <1>1, <1>2, <1>3, <1>4, <1>6, <1>7, <1>8, <1>9

\* An error or a stop comes behind the publication of a digest, or its row is
\* as it was.
LEMMA CutKeepsDigests ==
  ASSUME TypeOK, NEW m \in Digests, DigestInv(m), CutOff, Forgets,
         step' \in {"down", "loop"}, UNCHANGED <<now, published, looked>>
  PROVE  DigestInv(m)'
<1>0. /\ m \in {"daily", "weekly"}
      /\ DigestRow(m) \in Periods \union {Never}
      /\ PeriodNow(m) \in Periods /\ Periods \subseteq Nat /\ Never = -1
      /\ published[m] \in [Periods -> Nat] /\ cut[m] \in [Periods -> Nat]
      /\ period \in Periods /\ period \in Nat
      /\ DigestRow(m) \in Int /\ PeriodNow(m) \in Int
      /\ \A p \in Periods :
           p \in Int /\ published[m][p] \in Int /\ cut[m][p] \in Int
  BY DigestTypes
<1>1. \/ DigestRow(m)' = DigestRow(m)
      \/ /\ DigestRow(m)' = period /\ Unrecorded(m)
         /\ UnderWay(m) /\ IsMaking(m)
  <2>1. row' \in RowsAfterCut
    BY DEF CutOff
  <2>2. CASE step = "daily.setDate"
    BY <1>0, <2>1, <2>2
    DEF RowsAfterCut, DailyDateRow, DigestRow, Unrecorded, TypeOK, UnderWay,
        IsMaking, DailySteps
  <2>3. CASE step = "weekly.setWeek"
    BY <1>0, <2>1, <2>3
    DEF RowsAfterCut, WeeklyWeekRow, DigestRow, Unrecorded, TypeOK, UnderWay,
        IsMaking, WeeklySteps
  <2>4. CASE step \notin {"daily.setDate", "weekly.setWeek"}
    BY <2>1, <2>4
    DEF RowsAfterCut, DailyTsRow, CheckupRow, DigestRow, TypeOK
  <2> QED
    BY <2>2, <2>3, <2>4
<1>2. /\ PeriodNow(m)' = PeriodNow(m) /\ published' = published
      /\ looked' = looked
      /\ ~UnderWay(m)' /\ ~IsMaking(m)' /\ ~RowWritten(m)' /\ ~Unrecorded(m)'
  BY <1>0
  DEF PeriodNow, UnderWay, IsMaking, RowWritten, Unrecorded, DailySteps,
      WeeklySteps
<1>3. /\ hurt'[m] = hurt[m] \union IF UnderWay(m) THEN {period} ELSE {}
      /\ \A p \in Periods : cut'[m][p] =
           cut[m][p] + IF Unrecorded(m) /\ p = period THEN 1 ELSE 0
  BY DEF CutOff
<1>4. RowInOrder(m)'
  BY <1>0, <1>1, <1>2 DEF DigestInv, RowInOrder
<1>5. RowTrue(m)'
  BY <1>0, <1>1, <1>2 DEF DigestInv, RowTrue
<1>6. DigestsBounded(m)'
  BY <1>0, <1>1, <1>2, <1>3 DEF DigestInv, DigestsBounded, RowInOrder
<1>7. LookedReported(m)'
  BY <1>2, <1>3 DEF DigestInv, LookedReported
<1> QED
  BY <1>4, <1>5, <1>6, <1>7 DEF DigestInv

\* Each step keeps the invariant of each digest.
LEMMA DigestInvStep ==
  ASSUME TypeOK, NEW m \in Digests, DigestInv(m), [Next]_vars
  PROVE  DigestInv(m)'
<1>0. /\ TypeOK /\ DigestInv(m) /\ m \in {"daily", "weekly"}
      /\ DigestRow(m) \in Periods \union {Never}
      /\ PeriodNow(m) \in Periods /\ Periods \subseteq Nat /\ Never = -1
      /\ published[m] \in [Periods -> Nat] /\ cut[m] \in [Periods -> Nat]
      /\ period \in Periods /\ period \in Nat
      /\ DigestRow(m) \in Int /\ PeriodNow(m) \in Int
      /\ \A p \in Periods :
           p \in Int /\ published[m][p] \in Int /\ cut[m][p] \in Int
  BY DigestTypes
<1> USE DEF loopVars, localVars, worldVars, digestVars, countVars, checkupVars,
            DigestInv, UnderWay, IsMaking, RowWritten, Unrecorded, DailySteps,
            WeeklySteps, DigestRow, PeriodNow
<1>1. CASE BeginPass
  BY <1>0, <1>1
  DEF BeginPass, TypeOK, RowInOrder, RowTrue, DigestsBounded, LookedReported
<1>2. CASE EndPass
  BY <1>0, <1>2
  DEF EndPass, TypeOK, RowInOrder, RowTrue, DigestsBounded, LookedReported
<1>3. CASE \E d \in Digests : NotDue(d)
  BY <1>0, <1>3
  DEF NotDue, ComesTo, TypeOK, RowInOrder, RowTrue, DigestsBounded,
      LookedReported
<1>4. CASE DailyLooks
  <2>1. CASE m = "weekly"
    BY <1>0, <1>4, <2>1
    DEF DailyLooks, ComesTo, Looks, TypeOK, RowInOrder, RowTrue,
        DigestsBounded, LookedReported
  <2>2. CASE m = "daily"
    <3>1. RowInOrder(m)'
      <4>1. /\ period' = PeriodNow(m) /\ PeriodNow(m)' = PeriodNow(m)
            /\ DigestRow(m)' = DigestRow(m)
            /\ DigestRow(m) <= PeriodNow(m)
            /\ ~IsMaking(m)' /\ ~RowWritten(m)'
        BY <1>0, <1>4, <2>2 DEF DailyLooks, ComesTo, Looks, RowInOrder
      <4> HIDE DEF PeriodNow, DigestRow, UnderWay, IsMaking, RowWritten
      <4> QED
        BY <1>0, <4>1 DEF RowInOrder
    <3>2. RowTrue(m)'
      BY <1>0, <1>4, <2>2 DEF DailyLooks, ComesTo, Looks, TypeOK, RowTrue
    <3>3. DigestsBounded(m)'
      BY <1>0, <1>4, <2>2 DEF DailyLooks, ComesTo, Looks, TypeOK, DigestsBounded
    <3>4. LookedReported(m)'
      BY <1>0, <1>4, <2>2 DEF DailyLooks, ComesTo, Looks, TypeOK, LookedReported
    <3> QED
      BY <3>1, <3>2, <3>3, <3>4
  <2> QED
    BY <1>0, <2>1, <2>2
<1>5. CASE DailySent
  <2>1. CASE m = "daily"
    BY <1>0, <1>5, <2>1
    DEF DailySent, Returns, Goes, Forgets, TypeOK, RowInOrder, RowTrue,
        DigestsBounded, LookedReported
  <2>2. CASE m = "weekly"
    BY <1>0, <1>5, <2>2
    DEF DailySent, Returns, Goes, Forgets, TypeOK, RowInOrder, RowTrue,
        DigestsBounded, LookedReported
  <2> QED
    BY <1>0, <2>1, <2>2
<1>6. CASE DailyUnsent
  <2>1. CASE m = "weekly"
    BY <1>0, <1>6, <2>1
    DEF DailyUnsent, Goes, TypeOK, RowInOrder, RowTrue, DigestsBounded,
        LookedReported
  <2>2. CASE m = "daily"
    <3>1. RowInOrder(m)'
      <4>1. /\ period' = period /\ PeriodNow(m)' = PeriodNow(m)
            /\ DigestRow(m)' = DigestRow(m) /\ DigestRow(m) # period
            /\ UnderWay(m) /\ ~RowWritten(m)'
        BY <1>0, <1>6, <2>2 DEF DailyUnsent, Goes
      <4> HIDE DEF PeriodNow, DigestRow, UnderWay, IsMaking, RowWritten
      <4> QED
        BY <1>0, <4>1 DEF RowInOrder
    <3>2. RowTrue(m)'
      BY <1>0, <1>6, <2>2 DEF DailyUnsent, Goes, TypeOK, RowTrue
    <3>3. DigestsBounded(m)'
      BY <1>0, <1>6, <2>2 DEF DailyUnsent, Goes, TypeOK, DigestsBounded
    <3>4. LookedReported(m)'
      BY <1>0, <1>6, <2>2 DEF DailyUnsent, Goes, TypeOK, LookedReported
    <3> QED
      BY <3>1, <3>2, <3>3, <3>4
  <2> QED
    BY <1>0, <2>1, <2>2
<1>7. CASE DailySince
  BY <1>0, <1>7
  DEF DailySince, Goes, DayAgo, TypeOK, RowInOrder, RowTrue, DigestsBounded,
      LookedReported
<1>8. CASE DailyBuild
  <2>1. CASE m = "weekly"
    BY <1>0, <1>8, <2>1
    DEF DailyBuild, Goes, Publishes, InSection, TypeOK, RowInOrder, RowTrue,
        DigestsBounded, LookedReported
  <2>2. CASE m = "daily"
    <3>1. RowInOrder(m)'
      BY <1>0, <1>8, <2>2
      DEF DailyBuild, Goes, Publishes, InSection, TypeOK, RowInOrder
    <3>2. RowTrue(m)'
      BY <1>0, <1>8, <2>2
      DEF DailyBuild, Goes, Publishes, InSection, TypeOK, RowTrue
    <3>3. DigestsBounded(m)'
      <4>1. /\ period' = period /\ cut' = cut
            /\ DigestRow(m)' = DigestRow(m) /\ DigestRow(m) < period
            /\ Unrecorded(m)' /\ ~Unrecorded(m)
        BY <1>0, <1>8, <2>2 DEF DailyBuild, Goes, Publishes, RowInOrder
      <4>2. \A p \in Periods : published'[m][p] =
              published[m][p] + IF p = period THEN 1 ELSE 0
        BY <1>0, <1>8, <2>2, SMTT(20) DEF DailyBuild, Goes, Publishes, TypeOK
      <4> HIDE DEF DigestRow, Unrecorded
      <4> QED
        BY <1>0, <4>1, <4>2 DEF DigestsBounded
    <3>4. LookedReported(m)'
      BY <1>0, <1>8, <2>2
      DEF DailyBuild, Goes, Publishes, InSection, TypeOK, LookedReported
    <3> QED
      BY <3>1, <3>2, <3>3, <3>4
  <2> QED
    BY <1>0, <2>1, <2>2
<1>9. CASE DailyPublished
  BY <1>0, <1>9
  DEF DailyPublished, Goes, TypeOK, RowInOrder, RowTrue, DigestsBounded,
      LookedReported
<1>10. CASE DailyDateSet
  <2>1. CASE m = "weekly"
    BY <1>0, <1>10, <2>1
    DEF DailyDateSet, Goes, DailyDateRow, TypeOK, RowInOrder, RowTrue,
        DigestsBounded, LookedReported
  <2>2. CASE m = "daily"
    <3>1. RowInOrder(m)'
      BY <1>0, <1>10, <2>2
      DEF DailyDateSet, Goes, DailyDateRow, TypeOK, RowInOrder
    <3>2. RowTrue(m)'
      BY <1>0, <1>10, <2>2 DEF DailyDateSet, Goes, DailyDateRow, TypeOK, RowTrue
    <3>3. DigestsBounded(m)'
      <4>1. /\ period' = period /\ cut' = cut /\ published' = published
            /\ DigestRow(m)' = period /\ DigestRow(m) < period
            /\ ~Unrecorded(m)'
        BY <1>0, <1>10, <2>2
        DEF DailyDateSet, Goes, DailyDateRow, RowInOrder, TypeOK
      <4> HIDE DEF DigestRow, Unrecorded
      <4> QED
        BY <1>0, <4>1 DEF DigestsBounded
    <3>4. LookedReported(m)'
      BY <1>0, <1>10, <2>2
      DEF DailyDateSet, Goes, DailyDateRow, TypeOK, LookedReported
    <3> QED
      BY <3>1, <3>2, <3>3, <3>4
  <2> QED
    BY <1>0, <2>1, <2>2
<1>11. CASE DailyTsSet
  BY <1>0, <1>11
  DEF DailyTsSet, Returns, Goes, Forgets, DailyTsRow, TypeOK, RowInOrder,
      RowTrue, DigestsBounded, LookedReported
<1>12. CASE WeeklyLooks
  <2>1. CASE m = "daily"
    BY <1>0, <1>12, <2>1
    DEF WeeklyLooks, ComesTo, Looks, TypeOK, RowInOrder, RowTrue,
        DigestsBounded, LookedReported
  <2>2. CASE m = "weekly"
    <3>1. RowInOrder(m)'
      <4>1. /\ period' = PeriodNow(m) /\ PeriodNow(m)' = PeriodNow(m)
            /\ DigestRow(m)' = DigestRow(m)
            /\ DigestRow(m) <= PeriodNow(m)
            /\ ~IsMaking(m)' /\ ~RowWritten(m)'
        BY <1>0, <1>12, <2>2 DEF WeeklyLooks, ComesTo, Looks, RowInOrder
      <4> HIDE DEF PeriodNow, DigestRow, UnderWay, IsMaking, RowWritten
      <4> QED
        BY <1>0, <4>1 DEF RowInOrder
    <3>2. RowTrue(m)'
      BY <1>0, <1>12, <2>2 DEF WeeklyLooks, ComesTo, Looks, TypeOK, RowTrue
    <3>3. DigestsBounded(m)'
      BY <1>0, <1>12, <2>2
      DEF WeeklyLooks, ComesTo, Looks, TypeOK, DigestsBounded
    <3>4. LookedReported(m)'
      BY <1>0, <1>12, <2>2
      DEF WeeklyLooks, ComesTo, Looks, TypeOK, LookedReported
    <3> QED
      BY <3>1, <3>2, <3>3, <3>4
  <2> QED
    BY <1>0, <2>1, <2>2
<1>13. CASE WeeklySent
  <2>1. CASE m = "daily"
    BY <1>0, <1>13, <2>1
    DEF WeeklySent, Returns, Goes, Forgets, TypeOK, RowInOrder, RowTrue,
        DigestsBounded, LookedReported
  <2>2. CASE m = "weekly"
    BY <1>0, <1>13, <2>2
    DEF WeeklySent, Returns, Goes, Forgets, TypeOK, RowInOrder, RowTrue,
        DigestsBounded, LookedReported
  <2> QED
    BY <1>0, <2>1, <2>2
<1>14. CASE WeeklyUnsent
  <2>1. CASE m = "daily"
    BY <1>0, <1>14, <2>1
    DEF WeeklyUnsent, Goes, TypeOK, RowInOrder, RowTrue, DigestsBounded,
        LookedReported
  <2>2. CASE m = "weekly"
    <3>1. RowInOrder(m)'
      <4>1. /\ period' = period /\ PeriodNow(m)' = PeriodNow(m)
            /\ DigestRow(m)' = DigestRow(m) /\ DigestRow(m) # period
            /\ UnderWay(m) /\ ~RowWritten(m)'
        BY <1>0, <1>14, <2>2 DEF WeeklyUnsent, Goes
      <4> HIDE DEF PeriodNow, DigestRow, UnderWay, IsMaking, RowWritten
      <4> QED
        BY <1>0, <4>1 DEF RowInOrder
    <3>2. RowTrue(m)'
      BY <1>0, <1>14, <2>2 DEF WeeklyUnsent, Goes, TypeOK, RowTrue
    <3>3. DigestsBounded(m)'
      BY <1>0, <1>14, <2>2 DEF WeeklyUnsent, Goes, TypeOK, DigestsBounded
    <3>4. LookedReported(m)'
      BY <1>0, <1>14, <2>2 DEF WeeklyUnsent, Goes, TypeOK, LookedReported
    <3> QED
      BY <3>1, <3>2, <3>3, <3>4
  <2> QED
    BY <1>0, <2>1, <2>2
<1>15. CASE WeeklyBuild
  <2>1. CASE m = "daily"
    BY <1>0, <1>15, <2>1
    DEF WeeklyBuild, Goes, Publishes, TypeOK, RowInOrder, RowTrue,
        DigestsBounded, LookedReported
  <2>2. CASE m = "weekly"
    <3>1. RowInOrder(m)'
      BY <1>0, <1>15, <2>2 DEF WeeklyBuild, Goes, Publishes, TypeOK, RowInOrder
    <3>2. RowTrue(m)'
      BY <1>0, <1>15, <2>2 DEF WeeklyBuild, Goes, Publishes, TypeOK, RowTrue
    <3>3. DigestsBounded(m)'
      <4>1. /\ period' = period /\ cut' = cut
            /\ DigestRow(m)' = DigestRow(m) /\ DigestRow(m) < period
            /\ Unrecorded(m)' /\ ~Unrecorded(m)
        BY <1>0, <1>15, <2>2 DEF WeeklyBuild, Goes, Publishes, RowInOrder
      <4>2. \A p \in Periods : published'[m][p] =
              published[m][p] + IF p = period THEN 1 ELSE 0
        BY <1>0, <1>15, <2>2, SMTT(20) DEF WeeklyBuild, Goes, Publishes, TypeOK
      <4> HIDE DEF DigestRow, Unrecorded
      <4> QED
        BY <1>0, <4>1, <4>2 DEF DigestsBounded
    <3>4. LookedReported(m)'
      BY <1>0, <1>15, <2>2
      DEF WeeklyBuild, Goes, Publishes, TypeOK, LookedReported
    <3> QED
      BY <3>1, <3>2, <3>3, <3>4
  <2> QED
    BY <1>0, <2>1, <2>2
<1>16. CASE WeeklyPublished
  BY <1>0, <1>16
  DEF WeeklyPublished, Goes, TypeOK, RowInOrder, RowTrue, DigestsBounded,
      LookedReported
<1>17. CASE WeeklyWeekSet
  <2>1. CASE m = "daily"
    BY <1>0, <1>17, <2>1
    DEF WeeklyWeekSet, Goes, WeeklyWeekRow, TypeOK, RowInOrder, RowTrue,
        DigestsBounded, LookedReported
  <2>2. CASE m = "weekly"
    <3>1. RowInOrder(m)'
      BY <1>0, <1>17, <2>2
      DEF WeeklyWeekSet, Goes, WeeklyWeekRow, TypeOK, RowInOrder
    <3>2. RowTrue(m)'
      BY <1>0, <1>17, <2>2
      DEF WeeklyWeekSet, Goes, WeeklyWeekRow, TypeOK, RowTrue
    <3>3. DigestsBounded(m)'
      <4>1. /\ period' = period /\ cut' = cut /\ published' = published
            /\ DigestRow(m)' = period /\ DigestRow(m) < period
            /\ ~Unrecorded(m)'
        BY <1>0, <1>17, <2>2
        DEF WeeklyWeekSet, Goes, WeeklyWeekRow, RowInOrder, TypeOK
      <4> HIDE DEF DigestRow, Unrecorded
      <4> QED
        BY <1>0, <4>1 DEF DigestsBounded
    <3>4. LookedReported(m)'
      BY <1>0, <1>17, <2>2
      DEF WeeklyWeekSet, Goes, WeeklyWeekRow, TypeOK, LookedReported
    <3> QED
      BY <3>1, <3>2, <3>3, <3>4
  <2> QED
    BY <1>0, <2>1, <2>2
<1>18. CASE WeeklyTsSet
  BY <1>0, <1>18
  DEF WeeklyTsSet, Returns, Goes, Forgets, TypeOK, RowInOrder, RowTrue,
      DigestsBounded, LookedReported
<1>19. CASE CheckupLooks
  BY <1>0, <1>19
  DEF CheckupLooks, ComesTo, TypeOK, RowInOrder, RowTrue, DigestsBounded,
      LookedReported
<1>20. CASE CheckupRecent
  BY <1>0, <1>20
  DEF CheckupRecent, Returns, Goes, Forgets, TypeOK, RowInOrder, RowTrue,
      DigestsBounded, LookedReported
<1>21. CASE CheckupStarts
  BY <1>0, <1>21
  DEF CheckupStarts, Goes, TypeOK, RowInOrder, RowTrue, DigestsBounded,
      LookedReported
<1>22. CASE CheckupAnswered
  BY <1>0, <1>22
  DEF CheckupAnswered, Goes, TypeOK, RowInOrder, RowTrue, DigestsBounded,
      LookedReported
<1>23. CASE CheckupSet
  BY <1>0, <1>23
  DEF CheckupSet, Goes, CheckupRow, TypeOK, RowInOrder, RowTrue,
      DigestsBounded, LookedReported
<1>24. CASE CheckupAudited
  BY <1>0, <1>24
  DEF CheckupAudited, Goes, TypeOK, RowInOrder, RowTrue, DigestsBounded,
      LookedReported
<1>25. CASE CheckupPublished
  BY <1>0, <1>25
  DEF CheckupPublished, Returns, Goes, Forgets, TypeOK, RowInOrder, RowTrue,
      DigestsBounded, LookedReported
<1>26. CASE Raises
  BY <1>26, CutKeepsDigests DEF Raises
<1>27. CASE Stop
  BY <1>27, CutKeepsDigests DEF Stop
<1>28. CASE Start
  BY <1>0, <1>28
  DEF Start, TypeOK, RowInOrder, RowTrue, DigestsBounded, LookedReported
<1>29. CASE Tick
  <2>1. PeriodNow(m) <= PeriodNow(m)'
    BY <1>29, Calendar DEF Tick, TypeOK
  <2>2. now' \in Times
    BY <1>0, <1>29, ReportsAssumption DEF Tick, TypeOK, Times
  <2>3. PeriodNow(m)' \in Periods
    BY <2>2, Calendar DEF PeriodNow
  <2>4. /\ UNCHANGED <<step, period, row, published, cut, looked, hurt>>
        /\ DigestRow(m)' = DigestRow(m)
    BY <1>29 DEF Tick
  <2> HIDE DEF PeriodNow, DigestRow
  <2>5. PeriodNow(m)' \in Int
    BY <1>0, <2>3
  <2>6. RowInOrder(m)'
    BY <1>0, <2>1, <2>4, <2>5 DEF RowInOrder
  <2> QED
    BY <1>0, <2>4, <2>6 DEF RowTrue, DigestsBounded, LookedReported
<1>30. CASE AlertFires
  BY <1>0, <1>30
  DEF AlertFires, TypeOK, RowInOrder, RowTrue, DigestsBounded, LookedReported
<1>31. CASE UNCHANGED vars
  BY <1>0, <1>31
  DEF vars, TypeOK, RowInOrder, RowTrue, DigestsBounded, LookedReported
<1> QED
  BY <1>1, <1>2, <1>3, <1>4, <1>5, <1>6, <1>7, <1>8, <1>9, <1>10, <1>11, <1>12,
     <1>13, <1>14, <1>15, <1>16, <1>17, <1>18, <1>19, <1>20, <1>21, <1>22,
     <1>23, <1>24, <1>25, <1>26, <1>27, <1>28, <1>29, <1>30, <1>31
  DEF Next, DailyStep, WeeklyStep, CheckupStep

-----------------------------------------------------------------------------
(* Reports: what the daily digest counts *)

\* The invariant of the counted alerts holds at first.
LEMMA CountInvInit == Init => CountInv
<1> SUFFICES ASSUME Init PROVE CountInv
  OBVIOUS
<1>1. /\ row.at = -1 /\ Never = -1 /\ Len(log) = 0 /\ base = 0
      /\ asOf.pos = 0 /\ step = "loop"
      /\ \A i \in Alerts : counted[i] = 0 /\ i \in Nat
  BY DEF Init, Never, NoPosition, Alerts
<1> QED
  BY <1>1 DEF CountInv, BuildSteps

\* The numbers that the counts compare.
LEMMA CountTypes ==
  ASSUME TypeOK
  PROVE  /\ row.at \in Int /\ base \in Int /\ since \in Int
         /\ asOf.pos \in Int /\ Len(log) \in Nat /\ Never = -1
         /\ row.at = Never \/ row.at \in Nat
         /\ \A i \in Alerts : i \in Nat /\ i > 0 /\ counted[i] \in Nat
<1>1. Positions \subseteq Nat /\ Never = -1
  BY DEF Positions, Never
<1>2. row.at \in Positions \/ row.at = Never
  BY DEF TypeOK
<1>3. base \in Positions /\ since \in Positions /\ asOf.pos \in Positions
        /\ Len(log) \in Nat
  BY DEF TypeOK
<1>4. \A i \in Alerts : counted[i] \in Nat
  BY DEF TypeOK
<1>5. \A i \in Alerts : i \in Nat /\ i > 0
  BY DEF Alerts
<1>6. base \in Nat /\ since \in Nat /\ asOf.pos \in Nat
  BY <1>1, <1>3
<1>7. row.at = Never \/ row.at \in Nat
  BY <1>1, <1>2
<1> QED
  BY <1>1, <1>3, <1>4, <1>5, <1>6, <1>7

\* An error or a stop that comes upon a daily digest leaves a mark; another
\* leaves everything of the digest as it was.
LEMMA CutKeepsCounts ==
  ASSUME TypeOK, CountInv, CutOff, Forgets, step' \in {"down", "loop"},
         UNCHANGED <<log, countVars>>
  PROVE  CountInv'
<1>0. /\ row.at \in Int /\ base \in Int /\ since \in Int
      /\ asOf.pos \in Int /\ Len(log) \in Nat /\ Never = -1
      /\ row.at = Never \/ row.at \in Nat
      /\ \A i \in Alerts : i \in Nat /\ i > 0 /\ counted[i] \in Nat
  BY CountTypes
<1>1. /\ log' = log /\ base' = base /\ counted' = counted /\ late' = late
      /\ asOf'.pos = 0 /\ step' \notin BuildSteps
      /\ step' \notin {"daily.since", "daily.build"}
  BY DEF countVars, Forgets, NoPosition, BuildSteps
<1>2. row' \in RowsAfterCut /\ hurt'["daily"] =
        hurt["daily"] \union IF UnderWay("daily") THEN {period} ELSE {}
  BY DEF CutOff, Digests
<1>3. CASE UnderWay("daily")
  <2>1. row'.at = row.at \/ (row'.at = asOf.pos /\ step = "daily.setTs")
    BY <1>2, <1>3
    DEF RowsAfterCut, DailyDateRow, DailyTsRow, UnderWay, DailySteps, TypeOK
  <2>2. hurt'["daily"] # {}
    BY <1>2, <1>3
  <2> QED
    BY <1>0, <1>1, <2>1, <2>2 DEF CountInv, BuildSteps
<1>4. CASE ~UnderWay("daily")
  <2>1. row'.at = row.at /\ step \notin BuildSteps
    BY <1>2, <1>4
    DEF RowsAfterCut, WeeklyWeekRow, CheckupRow, UnderWay, DailySteps, TypeOK,
        BuildSteps
  <2>2. hurt'["daily"] = hurt["daily"]
    BY <1>2, <1>4
  <2> QED
    BY <1>0, <1>1, <2>1, <2>2 DEF CountInv
<1> QED
  BY <1>3, <1>4

\* Each step keeps the invariant of the counted alerts.
LEMMA CountInvStep == TypeOK /\ CountInv /\ [Next]_vars => CountInv'
<1> SUFFICES ASSUME TypeOK, CountInv, [Next]_vars PROVE CountInv'
  OBVIOUS
<1>0. /\ TypeOK /\ CountInv
      /\ row.at \in Int /\ base \in Int /\ since \in Int
      /\ asOf.pos \in Int /\ Len(log) \in Nat /\ Never = -1
      /\ row.at = Never \/ row.at \in Nat
      /\ \A i \in Alerts : i \in Nat /\ i > 0 /\ counted[i] \in Nat
  BY CountTypes
<1> USE DEF loopVars, localVars, worldVars, digestVars, countVars, checkupVars,
            BuildSteps
<1>1. CASE BeginPass
  BY <1>0, <1>1
  DEF BeginPass, CountInv
<1>2. CASE EndPass
  BY <1>0, <1>2
  DEF EndPass, CountInv
<1>3. CASE \E d \in Digests : NotDue(d)
  BY <1>0, <1>3
  DEF NotDue, ComesTo, CountInv
<1>4. CASE DailyLooks
  BY <1>0, <1>4
  DEF DailyLooks, ComesTo, Looks, CountInv
<1>5. CASE DailySent
  BY <1>0, <1>5
  DEF DailySent, Returns, Goes, Forgets, NoPosition, CountInv
<1>6. CASE DailyUnsent
  BY <1>0, <1>6
  DEF DailyUnsent, Goes, CountInv
<1>7. CASE DailySince
  BY <1>0, <1>7
  DEF DailySince, Goes, DayAgo, CountInv
<1>8. CASE DailyBuild
  BY <1>0, <1>8, SMTT(20)
  DEF DailyBuild, Goes, Publishes, InSection, CountInv
<1>9. CASE DailyPublished
  BY <1>0, <1>9
  DEF DailyPublished, Goes, CountInv
<1>10. CASE DailyDateSet
  BY <1>0, <1>10
  DEF DailyDateSet, Goes, DailyDateRow, CountInv
<1>11. CASE DailyTsSet
  BY <1>0, <1>11
  DEF DailyTsSet, Returns, Goes, Forgets, DailyTsRow, NoPosition, CountInv
<1>12. CASE WeeklyLooks
  BY <1>0, <1>12
  DEF WeeklyLooks, ComesTo, Looks, CountInv
<1>13. CASE WeeklySent
  BY <1>0, <1>13
  DEF WeeklySent, Returns, Goes, Forgets, NoPosition, CountInv
<1>14. CASE WeeklyUnsent
  BY <1>0, <1>14
  DEF WeeklyUnsent, Goes, CountInv
<1>15. CASE WeeklyBuild
  BY <1>0, <1>15
  DEF WeeklyBuild, Goes, Publishes, CountInv
<1>16. CASE WeeklyPublished
  BY <1>0, <1>16
  DEF WeeklyPublished, Goes, CountInv
<1>17. CASE WeeklyWeekSet
  BY <1>0, <1>17
  DEF WeeklyWeekSet, Goes, WeeklyWeekRow, CountInv
<1>18. CASE WeeklyTsSet
  BY <1>0, <1>18
  DEF WeeklyTsSet, Returns, Goes, Forgets, NoPosition, CountInv
<1>19. CASE CheckupLooks
  BY <1>0, <1>19
  DEF CheckupLooks, ComesTo, CountInv
<1>20. CASE CheckupRecent
  BY <1>0, <1>20
  DEF CheckupRecent, Returns, Goes, Forgets, NoPosition, CountInv
<1>21. CASE CheckupStarts
  BY <1>0, <1>21
  DEF CheckupStarts, Goes, CountInv
<1>22. CASE CheckupAnswered
  BY <1>0, <1>22
  DEF CheckupAnswered, Goes, CountInv
<1>23. CASE CheckupSet
  BY <1>0, <1>23
  DEF CheckupSet, Goes, CheckupRow, CountInv
<1>24. CASE CheckupAudited
  BY <1>0, <1>24
  DEF CheckupAudited, Goes, CountInv
<1>25. CASE CheckupPublished
  BY <1>0, <1>25
  DEF CheckupPublished, Returns, Goes, Forgets, NoPosition, CountInv
<1>26. CASE Raises
  BY <1>26, CutKeepsCounts DEF Raises
<1>27. CASE Stop
  BY <1>27, CutKeepsCounts DEF Stop
<1>28. CASE Start
  BY <1>0, <1>28
  DEF Start, CountInv
<1>29. CASE Tick
  BY <1>0, <1>29
  DEF Tick, CountInv
<1>30. CASE AlertFires
  BY <1>0, <1>30
  DEF AlertFires, CountInv
<1>31. CASE UNCHANGED vars
  BY <1>0, <1>31 DEF vars, CountInv
<1> QED
  BY <1>1, <1>2, <1>3, <1>4, <1>5, <1>6, <1>7, <1>8, <1>9, <1>10, <1>11, <1>12,
     <1>13, <1>14, <1>15, <1>16, <1>17, <1>18, <1>19, <1>20, <1>21, <1>22,
     <1>23, <1>24, <1>25, <1>26, <1>27, <1>28, <1>29, <1>30, <1>31
  DEF Next, DailyStep, WeeklyStep, CheckupStep

-----------------------------------------------------------------------------
(* Reports: checkups *)

\* The invariant of the checkups holds at first.
LEMMA CheckupInvInit == Init => CheckupInv
<1> SUFFICES ASSUME Init PROVE CheckupInv
  OBVIOUS
<1> QED
  BY DEF Init, CheckupInv, CheckupsApart, Never

\* The numbers that the checkups compare.
LEMMA CheckupTypes ==
  ASSUME TypeOK
  PROVE  /\ now \in Nat /\ stamp \in Nat /\ Never = -1 /\ Interval \in Nat
         /\ row.checkup \in Int /\ (row.checkup = Never \/ row.checkup \in Nat)
         /\ Len(checkups) \in Nat /\ checkups \in Seq(Times)
         /\ \A i \in 1 .. Len(checkups) : checkups[i] \in Nat
<1>1. Times \subseteq Nat /\ Never = -1 /\ Interval \in Nat
  BY ReportsAssumption DEF Times, Never
<1>2. now \in Nat /\ stamp \in Nat
  BY <1>1 DEF TypeOK
<1>3. row.checkup \in Times \/ row.checkup = Never
  BY DEF TypeOK
<1>4. row.checkup \in Nat \/ row.checkup = Never
  BY <1>1, <1>3
<1>5. checkups \in Seq(Times) /\ Len(checkups) \in Nat
  BY DEF TypeOK
<1>6. \A i \in 1 .. Len(checkups) : checkups[i] \in Nat
  BY <1>1, <1>5, ElementOfSeq
<1> QED
  BY <1>1, <1>2, <1>4, <1>5, <1>6

\* The row is written before the checkup is on record and in chat; one that is
\* cut off in between is lost.
LEMMA CutKeepsCheckups ==
  ASSUME TypeOK, CheckupInv, CutOff, Forgets, step' \in {"down", "loop"},
         UNCHANGED <<now, checkups, audited>>
  PROVE  CheckupInv'
<1>0. /\ now \in Nat /\ stamp \in Nat /\ Never = -1 /\ Interval \in Nat
      /\ row.checkup \in Int /\ (row.checkup = Never \/ row.checkup \in Nat)
      /\ Len(checkups) \in Nat /\ checkups \in Seq(Times)
      /\ \A i \in 1 .. Len(checkups) : checkups[i] \in Nat
  BY CheckupTypes
<1>1. /\ now' = now /\ checkups' = checkups /\ audited' = audited /\ stamp' = 0
      /\ step' \notin {"checkup.llm", "checkup.set", "checkup.audit"}
  BY DEF Forgets
<1>2. \/ row'.checkup = row.checkup
      \/ row'.checkup = stamp /\ step = "checkup.set"
  BY DEF CutOff, RowsAfterCut, DailyDateRow, DailyTsRow, WeeklyWeekRow,
         CheckupRow, TypeOK
<1>3. /\ lostCheckups \subseteq lostCheckups'
      /\ step \in {"checkup.set", "checkup.audit"} => stamp \in lostCheckups'
  BY DEF CutOff
<1>4. row'.checkup <= now' /\ stamp' <= now'
        /\ \A i \in 1 .. Len(checkups') : checkups'[i] <= row'.checkup
  BY <1>0, <1>1, <1>2 DEF CheckupInv
<1>5. CheckupsApart'
  BY <1>0, <1>1, <1>2, <1>3 DEF CheckupInv, CheckupsApart
<1> QED
  BY <1>1, <1>4, <1>5 DEF CheckupInv

\* Each step keeps the invariant of the checkups.
LEMMA CheckupInvStep == TypeOK /\ CheckupInv /\ [Next]_vars => CheckupInv'
<1> SUFFICES ASSUME TypeOK, CheckupInv, [Next]_vars PROVE CheckupInv'
  OBVIOUS
<1>0. /\ TypeOK /\ CheckupInv
      /\ now \in Nat /\ stamp \in Nat /\ Never = -1 /\ Interval \in Nat
      /\ row.checkup \in Int /\ (row.checkup = Never \/ row.checkup \in Nat)
      /\ Len(checkups) \in Nat /\ checkups \in Seq(Times)
      /\ \A i \in 1 .. Len(checkups) : checkups[i] \in Nat
  BY CheckupTypes
<1> USE DEF loopVars, localVars, worldVars, digestVars, countVars, checkupVars
<1>1. CASE BeginPass
  BY <1>0, <1>1
  DEF BeginPass, CheckupInv, CheckupsApart, CheckupDue
<1>2. CASE EndPass
  BY <1>0, <1>2
  DEF EndPass, CheckupInv, CheckupsApart, CheckupDue
<1>3. CASE \E d \in Digests : NotDue(d)
  BY <1>0, <1>3
  DEF NotDue, ComesTo, CheckupInv, CheckupsApart, CheckupDue
<1>4. CASE DailyLooks
  BY <1>0, <1>4
  DEF DailyLooks, ComesTo, Looks, CheckupInv, CheckupsApart, CheckupDue
<1>5. CASE DailySent
  BY <1>0, <1>5
  DEF DailySent, Returns, Goes, Forgets, CheckupInv, CheckupsApart, CheckupDue
<1>6. CASE DailyUnsent
  BY <1>0, <1>6
  DEF DailyUnsent, Goes, CheckupInv, CheckupsApart, CheckupDue
<1>7. CASE DailySince
  BY <1>0, <1>7
  DEF DailySince, Goes, DayAgo, CheckupInv, CheckupsApart, CheckupDue
<1>8. CASE DailyBuild
  BY <1>0, <1>8
  DEF DailyBuild, Goes, Publishes, InSection, CheckupInv, CheckupsApart,
      CheckupDue
<1>9. CASE DailyPublished
  BY <1>0, <1>9
  DEF DailyPublished, Goes, CheckupInv, CheckupsApart, CheckupDue
<1>10. CASE DailyDateSet
  BY <1>0, <1>10
  DEF DailyDateSet, Goes, DailyDateRow, CheckupInv, CheckupsApart, CheckupDue
<1>11. CASE DailyTsSet
  BY <1>0, <1>11
  DEF DailyTsSet, Returns, Goes, Forgets, DailyTsRow, CheckupInv,
      CheckupsApart, CheckupDue
<1>12. CASE WeeklyLooks
  BY <1>0, <1>12
  DEF WeeklyLooks, ComesTo, Looks, CheckupInv, CheckupsApart, CheckupDue
<1>13. CASE WeeklySent
  BY <1>0, <1>13
  DEF WeeklySent, Returns, Goes, Forgets, CheckupInv, CheckupsApart, CheckupDue
<1>14. CASE WeeklyUnsent
  BY <1>0, <1>14
  DEF WeeklyUnsent, Goes, CheckupInv, CheckupsApart, CheckupDue
<1>15. CASE WeeklyBuild
  BY <1>0, <1>15
  DEF WeeklyBuild, Goes, Publishes, CheckupInv, CheckupsApart, CheckupDue
<1>16. CASE WeeklyPublished
  BY <1>0, <1>16
  DEF WeeklyPublished, Goes, CheckupInv, CheckupsApart, CheckupDue
<1>17. CASE WeeklyWeekSet
  BY <1>0, <1>17
  DEF WeeklyWeekSet, Goes, WeeklyWeekRow, CheckupInv, CheckupsApart, CheckupDue
<1>18. CASE WeeklyTsSet
  BY <1>0, <1>18
  DEF WeeklyTsSet, Returns, Goes, Forgets, CheckupInv, CheckupsApart, CheckupDue
<1>19. CASE CheckupLooks
  BY <1>0, <1>19
  DEF CheckupLooks, ComesTo, CheckupInv, CheckupsApart, CheckupDue
<1>20. CASE CheckupRecent
  BY <1>0, <1>20
  DEF CheckupRecent, Returns, Goes, Forgets, CheckupInv, CheckupsApart,
      CheckupDue
<1>21. CASE CheckupStarts
  BY <1>0, <1>21
  DEF CheckupStarts, Goes, CheckupInv, CheckupsApart, CheckupDue
<1>22. CASE CheckupAnswered
  BY <1>0, <1>22
  DEF CheckupAnswered, Goes, CheckupInv, CheckupsApart, CheckupDue
<1>23. CASE CheckupSet
  <2>1. /\ UNCHANGED <<now, stamp, checkups, audited, lostCheckups>>
        /\ step = "checkup.set" /\ step' = "checkup.audit"
    BY <1>23 DEF CheckupSet, Goes
  <2>2. row'.checkup = stamp
    BY <1>0, <1>23 DEF CheckupSet, CheckupRow, TypeOK
  <2>3. row.checkup = Never \/ stamp - row.checkup >= Interval
    BY <1>0, <2>1 DEF CheckupInv
  <2>4. \A i \in 1 .. Len(checkups) :
          checkups[i] <= stamp /\ stamp - checkups[i] >= Interval
    BY <1>0, <2>3 DEF CheckupInv
  <2>5. CheckupsApart'
    BY <1>0, <2>1, <2>2 DEF CheckupInv, CheckupsApart
  <2> QED
    BY <1>0, <2>1, <2>2, <2>4, <2>5 DEF CheckupInv
<1>24. CASE CheckupAudited
  <2>1. /\ Len(checkups') = Len(checkups) + 1
        /\ checkups'[Len(checkups) + 1] = stamp
        /\ \A i \in 1 .. Len(checkups) : checkups'[i] = checkups[i]
    BY <1>0, <1>24 DEF CheckupAudited, TypeOK
  <2>2. /\ UNCHANGED <<row, now, stamp, lostCheckups>>
        /\ audited' = audited \union {stamp}
        /\ row.checkup = stamp /\ step' = "checkup.publish"
        /\ \A i \in 1 .. Len(checkups) : stamp - checkups[i] >= Interval
    BY <1>0, <1>24 DEF CheckupAudited, Goes, CheckupInv
  <2>3. \A i \in 1 .. Len(checkups') : checkups'[i] <= row.checkup
    BY <1>0, <2>1, <2>2 DEF CheckupInv
  <2>4. \A i, j \in 1 .. Len(checkups') :
          i < j => checkups'[j] - checkups'[i] >= Interval
    <3> SUFFICES ASSUME NEW i \in 1 .. Len(checkups'),
                        NEW j \in 1 .. Len(checkups'), i < j
                 PROVE  checkups'[j] - checkups'[i] >= Interval
      OBVIOUS
    <3>1. i \in 1 .. Len(checkups) /\ checkups'[i] = checkups[i]
      BY <1>0, <2>1
    <3>2. CASE j = Len(checkups) + 1
      BY <1>0, <2>1, <2>2, <3>1, <3>2
    <3>3. CASE j \in 1 .. Len(checkups)
      BY <1>0, <2>1, <3>1, <3>3 DEF CheckupInv, CheckupsApart
    <3> QED
      BY <1>0, <2>1, <3>2, <3>3
  <2>5. \A i \in 1 .. Len(checkups') : checkups'[i] \in audited'
    BY <1>0, <2>1, <2>2 DEF CheckupInv, CheckupsApart
  <2>6. \E i \in 1 .. Len(checkups') : checkups'[i] = row.checkup
    BY <1>0, <2>1, <2>2
  <2> QED
    BY <1>0, <2>2, <2>3, <2>4, <2>5, <2>6 DEF CheckupInv, CheckupsApart
<1>25. CASE CheckupPublished
  BY <1>0, <1>25
  DEF CheckupPublished, Returns, Goes, Forgets, CheckupInv, CheckupsApart,
      CheckupDue
<1>26. CASE Raises
  BY <1>26, CutKeepsCheckups DEF Raises
<1>27. CASE Stop
  BY <1>27, CutKeepsCheckups DEF Stop
<1>28. CASE Start
  BY <1>0, <1>28
  DEF Start, CheckupInv, CheckupsApart, CheckupDue
<1>29. CASE Tick
  BY <1>0, <1>29
  DEF Tick, CheckupInv, CheckupsApart, CheckupDue
<1>30. CASE AlertFires
  BY <1>0, <1>30
  DEF AlertFires, CheckupInv, CheckupsApart, CheckupDue
<1>31. CASE UNCHANGED vars
  BY <1>0, <1>31 DEF vars, CheckupInv, CheckupsApart, CheckupDue
<1> QED
  BY <1>1, <1>2, <1>3, <1>4, <1>5, <1>6, <1>7, <1>8, <1>9, <1>10, <1>11, <1>12,
     <1>13, <1>14, <1>15, <1>16, <1>17, <1>18, <1>19, <1>20, <1>21, <1>22,
     <1>23, <1>24, <1>25, <1>26, <1>27, <1>28, <1>29, <1>30, <1>31
  DEF Next, DailyStep, WeeklyStep, CheckupStep

\* While another monitor is on, the reports rest.
LEMMA ReportsInvHolds == MonitorsSpec => []ReportsInv
<1>1. MonitorsInit => ReportsInv
  BY ReportsTypesInit, DigestInvInit, CountInvInit, CheckupInvInit
  DEF MonitorsInit, ReportsInv
<1>2. ReportsInv /\ [MonitorsNext]_<<vars, watchVars>> => ReportsInv'
  <2> SUFFICES ASSUME ReportsInv, [Next]_vars PROVE ReportsInv'
    BY DEF MonitorsNext
  <2>1. TypeOK'
    BY ReportsTypesStep DEF ReportsInv
  <2>2. \A m \in Digests : DigestInv(m)'
    BY DigestInvStep DEF ReportsInv
  <2>3. CountInv' /\ CheckupInv'
    BY CountInvStep, CheckupInvStep DEF ReportsInv
  <2> QED
    BY <2>1, <2>2, <2>3 DEF ReportsInv
<1> QED
  BY <1>1, <1>2, PTL DEF MonitorsSpec

\* The invariant implies what it is for.
LEMMA InvIsExact == ReportsInv => ReportsExact
<1> SUFFICES ASSUME ReportsInv PROVE ReportsExact
  OBVIOUS
<1>1. ReportedOnce
  <2> SUFFICES ASSUME NEW m \in Digests, NEW p \in Periods
               PROVE  published[m][p] <= 1 + cut[m][p]
    BY DEF ReportedOnce
  <2>1. DigestsBounded(m) /\ published[m][p] \in Int /\ cut[m][p] \in Int
    BY DigestTypes DEF ReportsInv, DigestInv
  <2> QED
    BY <2>1 DEF DigestsBounded
<1>2. PeriodsReported
  BY DEF ReportsInv, DigestInv, LookedReported, PeriodsReported
<1>3. AlertsCounted
  <2>1. Len(log) \in Nat /\ Len(log) <= MaxAlerts /\ MaxAlerts \in Nat
    BY ReportsAssumption DEF ReportsInv, TypeOK
  <2>2. 1 .. Len(log) \subseteq Alerts
    BY <2>1 DEF Alerts
  <2> QED
    BY <2>2 DEF ReportsInv, CountInv, AlertsCounted
<1> QED
  BY <1>1, <1>2, <1>3 DEF ReportsExact

\* Every period that a digest was due in is reported, once but for what was cut
\* off between publication and row; and every alert up to the last digest is in
\* one (DailyDigestMonitor, WeeklyDigestMonitor).
THEOREM ReportsAreExact == MonitorsSpec => []ReportsExact
  BY ReportsInvHolds, InvIsExact, PTL

-----------------------------------------------------------------------------
(* The loop of the monitors that watch the host *)

\* What a step of a monitor does to its pass.
PassStep == PassGoesOn \/ PassEnds \/ PassRaises \/ Tolerated

\* Such a step keeps the types, and leaves the clock and the daemon alone.
LEMMA PassStepTypes ==
  ASSUME PassesTypeOK, PassStep
  PROVE  /\ PassesTypeOK'
         /\ UNCHANGED <<watched, moUp, moNow, moStops>>
         /\ moErrors' \in {moErrors, moErrors + 1}
<1>1. UNCHANGED <<watched, moUp, moNow, moStops>>
  BY DEF PassStep, PassGoesOn, PassEnds, PassRaises, Tolerated, passVars
<1>2. moErrors' = moErrors \/ (moErrors' = moErrors + 1 /\ MayFail)
  BY DEF PassStep, PassGoesOn, PassEnds, PassRaises, Tolerated, passVars
<1>3. moWake' = moWake \/ moWake' = moNow + MoPause
  BY DEF PassStep, PassGoesOn, PassEnds, PassRaises, Tolerated, passVars
<1>4. moWake' \in 0 .. MoMaxTime + MoPause
  BY <1>3, MonitorsAssumption DEF PassesTypeOK, MoTimes
<1>5. moErrors' \in Nat /\ moStops' \in Nat
        /\ moErrors' + moStops' <= MoMaxMishaps
  BY <1>1, <1>2, MonitorsAssumption DEF PassesTypeOK, MayFail
<1> QED
  BY <1>1, <1>2, <1>4, <1>5 DEF PassesTypeOK

\* Every step of every monitor is one.
LEMMA MetricsPass == MetricsTypeOK /\ MetricsNext => PassStep
  BY DEF MetricsNext, PassStep, MtBegin, MtDetected, MtSampled, MtCounted,
         MtUnsampled, MtPublished, MtInserted, MtSends, MtResets, MtJudge,
         MetricsTypeOK

LEMMA IntegrityPass == FiNextStep => PassStep
  BY DEF FiNextStep, PassStep, FiBegin, FiIsDue, FiBaselineRead, FiHashed,
         FiUnreadable, FiCreated, FiRecorded, FiPublished, FiStateSet,
         FiRaises, FiUpdateAsked, FiUpserted, FiUpdateRecorded, FiUpdateEnds,
         FiEdit

LEMMA OldFilesPass == OfNextStep => PassStep
  BY DEF OfNextStep, PassStep, OfBegin, OfIsDue, OfScanned, OfRecords,
         OfStateSet, OfRaises

LEMMA FilesPass == FilesNext => PassStep
  BY IntegrityPass, OldFilesPass DEF FilesNext

LEMMA ConnectionsPass == ConnectionsNext => PassStep
  BY DEF ConnectionsNext, PassStep, CoBegin, CoSeen, CoRecorded, CoCounted,
         CoChecked, CoClassified, CoPublished, CoStored, CoUpserted, CoRaises,
         CoGoesOn

LEMMA DirectoriesPass == DirectoriesNext => PassStep
  BY DEF DirectoriesNext, PassStep, DcCollect, DcMakeDirectory, DcEnqueue,
         DcHandled, DcRecorded, DcPublished, DcFails

\* The types of a pass hold at first.
LEMMA PassesTypesInit == PassesInit => PassesTypeOK
  BY MonitorsAssumption DEF PassesInit, PassesTypeOK, MoTimes

\* Which monitor is on never changes, and time, errors and stops only grow.
LEMMA PassesKept ==
  ASSUME PassesTypeOK, MetricsTypeOK, WatchNext
  PROVE  /\ PassesTypeOK' /\ watched' = watched
         /\ moNow' \in {moNow, moNow + 1}
         /\ moErrors' \in {moErrors, moErrors + 1}
         /\ moStops' \in {moStops, moStops + 1}
<1>1. CASE PassStep
  BY <1>1, PassStepTypes
<1>2. CASE TimePasses
  BY <1>2, MonitorsAssumption DEF TimePasses, PassesTypeOK, MoTimes
<1>3. CASE StopsPasses
  <2>1. moStops' = moStops + 1 /\ moErrors' = moErrors
          /\ moErrors + moStops < MoMaxMishaps
    BY <1>3 DEF StopsPasses, MayFail
  <2>2. moStops' \in Nat /\ moErrors' + moStops' <= MoMaxMishaps
    BY <2>1, MonitorsAssumption DEF PassesTypeOK
  <2> QED
    BY <1>3, <2>1, <2>2 DEF StopsPasses, PassesTypeOK
<1>4. CASE StartsPasses
  BY <1>4, MonitorsAssumption DEF StartsPasses, PassesTypeOK, MoTimes
<1> QED
  BY <1>1, <1>2, <1>3, <1>4, MetricsPass, FilesPass, ConnectionsPass,
     DirectoriesPass
  DEF WatchNext

-----------------------------------------------------------------------------
(* Files: the invariant *)

\* The steps of a round that are about one file.
AtFile == {"hash", "create", "record", "publish"}

\* What a round still owes is among the files it has not come to, or the one
\* it is at; a baseline it has read is the one a file differs from.  Nothing is
\* owed once the next round is not due.
IntegrityInv ==
  /\ \A f \in fiOwed : FiDiffers(f)
  /\ fiRun.at <= moNow /\ fiLast <= moNow
  /\ fiOwed # {} => FiDueAt(moNow)
  /\ fiRun.pc \in AtFile =>
       /\ fiRun.file \in FiFiles
       /\ fiOwed \subseteq fiRun.left \union {fiRun.file}
  /\ fiRun.pc \in {"baseline", "setState"} => fiOwed \subseteq fiRun.left
  /\ fiRun.pc = "setState" => fiRun.left = {}
  /\ fiRun.pc \in AtFile /\ fiRun.file \in fiOwed =>
       /\ fiRun.pc # "create"
       /\ fiRun.expected = fiBaseline[fiRun.file]
       /\ fiRun.pc = "record" => fiRun.alarm

\* A scan without its files is being recorded, or has an error behind it.
OldFilesInv ==
  /\ \A d \in OfDirs : ofRows[d] = "scan" =>
       moErrors > 0 \/ (ofRun.pc = "entries" /\ ofRun.dir = d)
  /\ OldFilesWhole

\* FilesTypeOK in its two parts.
FiRuns == [pc : FiSteps, left : SUBSET FiFiles,
           file : FiFiles \union {None}, at : MoTimes,
           expected : Contents \union {None}, alarm : BOOLEAN]

IntegrityTypes ==
  /\ fiDirectory \in BOOLEAN
  /\ fiHost \in [FiFiles -> Contents \union {None}]
  /\ fiBaseline \in [FiFiles -> Contents \union {None}]
  /\ fiLast \in MoStamps
  /\ fiRun \in FiRuns
  /\ fiChat \in [pc : FiChatSteps, left : SUBSET FiFiles,
                 file : FiFiles \union {None}, hash : Contents \union {None}]
  /\ fiEdits \in 0 .. FiMaxEdits /\ fiUpdates \in 0 .. FiMaxUpdates
  /\ fiOwed \subseteq FiFiles

OldFilesTypes ==
  /\ ofLast \in MoStamps
  /\ ofRun \in [pc : OfSteps, left : SUBSET OfDirs,
                dir : OfDirs \union {None}, at : MoTimes]
  /\ ofRows \in [OfDirs -> {None, "scan", "entries"}]
  /\ ofStored \in [OfDirs -> {None, "scan", "entries"}]

FilesInv ==
  IntegrityTypes /\ OldFilesTypes /\ IntegrityInv /\ OldFilesInv

-----------------------------------------------------------------------------
(* Files: integrity *)

\* The invariant of file integrity holds at first.
LEMMA IntegrityInit ==
  PassesInit /\ FilesInit => IntegrityTypes /\ IntegrityInv
<1> SUFFICES ASSUME PassesInit, FilesInit
             PROVE  IntegrityTypes /\ IntegrityInv
  OBVIOUS
<1>1. 0 \in MoTimes /\ NotYet \in MoStamps /\ NotYet = -1
  BY MonitorsAssumption DEF MoTimes, MoStamps, NotYet
<1>2. fiBaseline \in [FiFiles -> Contents \union {None}]
  BY DEF FilesInit, Contents
<1>3. fiRun \in FiRuns /\ fiRun.pc = "asleep" /\ fiRun.at = 0
  BY <1>1 DEF FilesInit, FiRuns, FiIdle, FiSteps, Contents
<1>4. fiDirectory \in BOOLEAN
  BY DEF FilesInit
<1>5. fiHost \in [FiFiles -> Contents \union {None}]
  BY DEF FilesInit, Contents
<1>6. fiChat \in [pc : FiChatSteps, left : SUBSET FiFiles,
                 file : FiFiles \union {None}, hash : Contents \union {None}]
  BY DEF FilesInit, FiChatIdle, FiChatSteps
<1>7. fiLast = NotYet /\ fiEdits = 0 /\ fiUpdates = 0 /\ fiOwed = {}
  BY DEF FilesInit
<1>8. IntegrityTypes
  BY <1>1, <1>2, <1>3, <1>4, <1>5, <1>6, <1>7, FilesAssumption
  DEF IntegrityTypes
<1> QED
  BY <1>1, <1>3, <1>7, <1>8 DEF PassesInit, IntegrityInv, AtFile

\* A round goes on to its next file, or to its end.
LEMMA FiNextType ==
  ASSUME NEW r \in FiRuns
  PROVE  /\ FiNext(r) \in FiRuns
         /\ FiNext(r).pc = IF r.left = {} THEN "setState" ELSE "baseline"
         /\ FiNext(r).left = r.left /\ FiNext(r).at = r.at
  BY DEF FiNext, FiRuns, FiSteps

\* What a hash is judged to be keeps the type of a round.
LEMMA FiVerdictType ==
  ASSUME NEW r \in FiRuns, NEW actual \in Contents \union {None}
  PROVE  FiVerdict(r, actual) \in FiRuns
<1>1. CASE actual = None /\ r.expected = None
  BY <1>1, FiNextType DEF FiVerdict
<1>2. CASE actual # None /\ r.expected = None
  BY <1>2 DEF FiVerdict, FiRuns, FiSteps
<1>3. CASE r.expected # None
  BY <1>3 DEF FiVerdict, FiRuns, FiSteps
<1> QED
  BY <1>1, <1>2, <1>3

\* Each step of file integrity keeps its types.
LEMMA IntegrityTypesStep ==
  ASSUME PassesTypeOK, IntegrityTypes, IntegrityInv, FiNextStep
  PROVE  IntegrityTypes'
<1>0. /\ PassesTypeOK /\ IntegrityTypes /\ IntegrityInv
      /\ 0 \in MoTimes /\ moNow \in MoTimes /\ MoTimes \subseteq MoStamps
  BY MonitorsAssumption DEF MoTimes, MoStamps, PassesTypeOK
<1> USE DEF FiAt, FiGoto, FiKeeps, FiChatAt, FiChatKeeps, FiSteps, FiChatSteps
<1>1. CASE FiBegin
  BY <1>0, <1>1
  DEF FiBegin, FiTargets, FiIdle, IntegrityTypes, FiRuns
<1>2. CASE FiIsDue
  <2>1. FiIdle \in FiRuns
    BY <1>0 DEF FiIdle, FiRuns
  <2>2. fiRun' \in FiRuns
    BY <1>0, <1>2, <2>1, FiNextType DEF FiIsDue, IntegrityTypes
  <2>3. fiOwed' \subseteq FiFiles
    BY <1>0, <1>2 DEF FiIsDue, IntegrityTypes, FiRuns
  <2> QED
    BY <1>0, <1>2, <2>2, <2>3 DEF FiIsDue, IntegrityTypes
<1>3. CASE \E f \in FiFiles : FiBaselineRead(f)
  <2>1. PICK f \in FiFiles : FiBaselineRead(f)
    BY <1>3
  <2>2. fiBaseline[f] \in Contents \union {None}
    BY <1>0 DEF IntegrityTypes
  <2>3. fiRun' \in FiRuns
    BY <1>0, <2>1, <2>2 DEF FiBaselineRead, IntegrityTypes, FiRuns
  <2> QED
    BY <1>0, <2>1, <2>3 DEF FiBaselineRead, IntegrityTypes
<1>4. CASE FiHashed
  <2>1. fiRun.file \in FiFiles
    BY <1>0, <1>4 DEF FiHashed, IntegrityInv, AtFile
  <2>2. fiHost[fiRun.file] \in Contents \union {None}
    BY <1>0, <2>1 DEF IntegrityTypes
  <2>3. fiRun' \in FiRuns
    BY <1>0, <1>4, <2>2, FiVerdictType DEF FiHashed, IntegrityTypes
  <2> QED
    BY <1>0, <1>4, <2>3 DEF FiHashed, IntegrityTypes
<1>5. CASE FiUnreadable
  BY <1>0, <1>5
  DEF FiUnreadable, IntegrityTypes, FiRuns
<1>6. CASE FiCreated
  BY <1>0, <1>6
  DEF FiCreated, IntegrityTypes, FiRuns
<1>7. CASE FiRecorded
  <2>1. fiRun' \in FiRuns
    BY <1>0, <1>7, FiNextType DEF FiRecorded, IntegrityTypes, FiRuns
  <2> QED
    BY <1>0, <1>7, <2>1 DEF FiRecorded, IntegrityTypes
<1>8. CASE FiPublished
  <2>1. fiRun' \in FiRuns
    BY <1>0, <1>8, FiNextType DEF FiPublished, IntegrityTypes
  <2> QED
    BY <1>0, <1>8, <2>1 DEF FiPublished, IntegrityTypes
<1>9. CASE FiStateSet
  BY <1>0, <1>9
  DEF FiStateSet, FiIdle, IntegrityTypes, FiRuns
<1>10. CASE FiRaises
  BY <1>0, <1>10
  DEF FiRaises, FiIdle, IntegrityTypes, FiRuns
<1>11. CASE FiUpdateAsked
  <2>1. fiUpdates' \in 0 .. FiMaxUpdates
    BY <1>0, <1>11, FilesAssumption DEF FiUpdateAsked, IntegrityTypes
  <2>2. PICK files \in SUBSET FiFiles : FiHashes(files)
    BY <1>0, <1>11 DEF FiUpdateAsked
  <2>3. fiChat' \in [pc : FiChatSteps, left : SUBSET FiFiles,
                     file : FiFiles \union {None}, hash : Contents \union {None}]
    BY <1>0, <2>2 DEF FiHashes, FiChatIdle, FiChatSteps, IntegrityTypes
  <2> QED
    BY <1>0, <1>11, <2>1, <2>3 DEF FiUpdateAsked, FiChatKeeps, IntegrityTypes
<1>12. CASE FiUpserted
  BY <1>0, <1>12
  DEF FiUpserted, IntegrityTypes
<1>13. CASE FiUpdateRecorded
  BY <1>0, <1>13
  DEF FiUpdateRecorded, FiHashes, FiChatIdle, IntegrityTypes
<1>14. CASE FiUpdateEnds
  BY <1>0, <1>14
  DEF FiUpdateEnds, FiChatIdle, IntegrityTypes
<1>15. CASE \E f \in FiFiles : FiEdit(f)
  <2>1. fiEdits' \in 0 .. FiMaxEdits
    BY <1>0, <1>15, FilesAssumption DEF FiEdit, IntegrityTypes
  <2> QED
    BY <1>0, <1>15, <2>1 DEF FiEdit, IntegrityTypes
<1> QED
  BY <1>1, <1>2, <1>3, <1>4, <1>5, <1>6, <1>7, <1>8, <1>9, <1>10, <1>11, <1>12,
     <1>13, <1>14, <1>15
  DEF FiNextStep

\* Each step of file integrity keeps its invariant.
LEMMA IntegrityInvStep ==
  ASSUME PassesTypeOK, IntegrityTypes, IntegrityInv, FiNextStep
  PROVE  IntegrityInv'
<1>0. /\ IntegrityTypes /\ IntegrityInv /\ moNow' = moNow
      /\ moNow \in Nat /\ fiRun.at \in Nat /\ fiLast \in Int /\ NotYet = -1
      /\ FiInterval \in Nat
  <2>1. MoTimes \subseteq Nat /\ NotYet = -1
    BY DEF MoTimes, NotYet
  <2>2. moNow \in Nat /\ fiRun.at \in Nat
    BY <2>1 DEF PassesTypeOK, IntegrityTypes, FiRuns
  <2>3. fiLast \in Nat \/ fiLast = -1
    BY <2>1 DEF IntegrityTypes, MoStamps
  <2>4. PassStep
    BY IntegrityPass
  <2> QED
    BY <2>1, <2>2, <2>3, <2>4, PassStepTypes, FilesAssumption
<1> USE DEF FiAt, FiGoto, FiKeeps, FiChatAt, FiChatKeeps, AtFile, FiDiffers
<1>1. CASE FiBegin
  BY <1>0, <1>1
  DEF FiBegin, FiTargets, FiIdle, FiDueAt, IntegrityInv, IntegrityTypes
<1>2. CASE FiIsDue
  <2>1. CASE FiDueAt(fiRun.at)
    <3>1. /\ fiRun' = FiNext(fiRun) /\ UNCHANGED <<fiHost, fiBaseline, fiLast>>
          /\ fiOwed' = {f \in fiRun.left : FiDiffers(f)}
      BY <1>2, <2>1 DEF FiIsDue
    <3>2. /\ fiRun'.pc = IF fiRun.left = {} THEN "setState" ELSE "baseline"
          /\ fiRun'.left = fiRun.left /\ fiRun'.at = fiRun.at
      BY <1>0, <3>1, FiNextType DEF IntegrityTypes
    <3>3. FiDueAt(moNow)'
      BY <1>0, <2>1, <3>1 DEF FiDueAt, IntegrityInv
    <3> QED
      BY <1>0, <3>1, <3>2, <3>3 DEF IntegrityInv
  <2>2. CASE ~FiDueAt(fiRun.at)
    BY <1>0, <1>2, <2>2 DEF FiIsDue, FiIdle, FiDueAt, IntegrityInv
  <2> QED
    BY <2>1, <2>2
<1>3. CASE \E f \in FiFiles : FiBaselineRead(f)
  BY <1>0, <1>3
  DEF FiBaselineRead, FiDueAt, IntegrityInv, IntegrityTypes
<1>4. CASE FiHashed
  <2> DEFINE f == fiRun.file
  <2>1. /\ fiRun \in FiRuns /\ f \in FiFiles
        /\ UNCHANGED <<fiHost, fiBaseline, fiLast, fiOwed>>
        /\ fiOwed \subseteq fiRun.left \union {f}
        /\ fiRun' = FiVerdict(fiRun, fiHost[f])
        /\ f \in fiOwed => fiRun.expected = fiBaseline[f] /\ FiDiffers(f)
    BY <1>0, <1>4 DEF FiHashed, IntegrityInv, IntegrityTypes
  <2>2. CASE fiHost[f] = None /\ fiRun.expected = None
    <3>1. fiRun' = FiNext(fiRun) /\ f \notin fiOwed
      BY <2>1, <2>2 DEF FiVerdict
    <3>2. /\ fiRun'.pc = IF fiRun.left = {} THEN "setState" ELSE "baseline"
          /\ fiRun'.left = fiRun.left /\ fiRun'.at = fiRun.at
      BY <2>1, <3>1, FiNextType
    <3> QED
      BY <1>0, <2>1, <3>1, <3>2 DEF IntegrityInv, FiDueAt
  <2>3. CASE fiHost[f] # None /\ fiRun.expected = None
    <3>1. /\ fiRun' = [fiRun EXCEPT !.pc = "create", !.expected = fiHost[f]]
          /\ f \notin fiOwed
      BY <2>1, <2>3 DEF FiVerdict
    <3>2. /\ fiRun'.pc = "create" /\ fiRun'.left = fiRun.left
          /\ fiRun'.at = fiRun.at /\ fiRun'.file = f
      BY <2>1, <3>1 DEF FiRuns
    <3> QED
      BY <1>0, <2>1, <3>1, <3>2 DEF IntegrityInv, FiDueAt
  <2>4. CASE fiRun.expected # None
    <3>1. fiRun' = [fiRun EXCEPT !.pc = "record",
                                 !.alarm = fiHost[f] # fiRun.expected]
      BY <2>1, <2>4 DEF FiVerdict
    <3>2. /\ fiRun'.pc = "record" /\ fiRun'.left = fiRun.left
          /\ fiRun'.at = fiRun.at /\ fiRun'.file = f
          /\ fiRun'.expected = fiRun.expected
          /\ fiRun'.alarm = (fiHost[f] # fiRun.expected)
      BY <2>1, <3>1 DEF FiRuns
    <3> QED
      BY <1>0, <2>1, <3>2 DEF IntegrityInv, FiDueAt
  <2> QED
    BY <2>2, <2>3, <2>4
<1>5. CASE FiUnreadable
  BY <1>0, <1>5
  DEF FiUnreadable, FiDueAt, IntegrityInv, IntegrityTypes
<1>6. CASE FiCreated
  BY <1>0, <1>6
  DEF FiCreated, FiDueAt, IntegrityInv, IntegrityTypes
<1>7. CASE FiRecorded
  <2>1. CASE fiRun.alarm
    BY <1>0, <1>7, <2>1 DEF FiRecorded, IntegrityInv, IntegrityTypes, FiRuns,
       FiDueAt
  <2>2. CASE ~fiRun.alarm
    <3>1. /\ fiRun' = FiNext(fiRun) /\ fiRun.pc = "record"
          /\ UNCHANGED <<fiHost, fiBaseline, fiLast, fiOwed>>
      BY <1>7, <2>2 DEF FiRecorded
    <3>2. /\ fiRun'.pc = IF fiRun.left = {} THEN "setState" ELSE "baseline"
          /\ fiRun'.left = fiRun.left /\ fiRun'.at = fiRun.at
      BY <1>0, <3>1, FiNextType DEF IntegrityTypes
    <3> QED
      BY <1>0, <2>2, <3>1, <3>2 DEF IntegrityInv, FiDueAt
  <2> QED
    BY <2>1, <2>2
<1>8. CASE FiPublished
  BY <1>0, <1>8
  DEF FiPublished, FiNext, FiDueAt, IntegrityInv, IntegrityTypes
<1>9. CASE FiStateSet
  BY <1>0, <1>9
  DEF FiStateSet, FiIdle, FiDueAt, IntegrityInv, IntegrityTypes
<1>10. CASE FiRaises
  BY <1>0, <1>10
  DEF FiRaises, FiIdle, FiDueAt, IntegrityInv, IntegrityTypes
<1>11. CASE FiUpdateAsked
  BY <1>0, <1>11
  DEF FiUpdateAsked, FiHashes, FiDueAt, IntegrityInv, IntegrityTypes
<1>12. CASE FiUpserted
  BY <1>0, <1>12
  DEF FiUpserted, FiDueAt, IntegrityInv, IntegrityTypes
<1>13. CASE FiUpdateRecorded
  BY <1>0, <1>13
  DEF FiUpdateRecorded, FiHashes, FiChatIdle, FiDueAt, IntegrityInv,
      IntegrityTypes
<1>14. CASE FiUpdateEnds
  BY <1>0, <1>14
  DEF FiUpdateEnds, FiChatIdle, FiDueAt, IntegrityInv, IntegrityTypes
<1>15. CASE \E f \in FiFiles : FiEdit(f)
  BY <1>0, <1>15
  DEF FiEdit, FiDueAt, IntegrityInv, IntegrityTypes
<1> QED
  BY <1>1, <1>2, <1>3, <1>4, <1>5, <1>6, <1>7, <1>8, <1>9, <1>10, <1>11, <1>12,
     <1>13, <1>14, <1>15
  DEF FiNextStep

-----------------------------------------------------------------------------
(* Files: old files, and what both have *)

\* The invariant of old files holds at first.
LEMMA OldFilesInit ==
  FilesInit => OldFilesTypes /\ OldFilesInv
<1> SUFFICES ASSUME FilesInit PROVE OldFilesTypes /\ OldFilesInv
  OBVIOUS
<1>1. /\ ofRun = OfIdle /\ ofLast = NotYet /\ ofStored = ofRows
      /\ ofRows = [d \in OfDirs |-> None]
  BY DEF FilesInit
<1>2. 0 \in MoTimes /\ NotYet \in MoStamps
  BY MonitorsAssumption DEF MoTimes, MoStamps
<1>3. OldFilesTypes
  BY <1>1, <1>2 DEF OldFilesTypes, OfIdle, OfSteps
<1> QED
  BY <1>1, <1>3 DEF OldFilesInv, OldFilesWhole, None

OfRuns == [pc : OfSteps, left : SUBSET OfDirs, dir : OfDirs \union {None},
           at : MoTimes]

\* A scan goes on to its next directory, or to its end.
LEMMA OfNextType ==
  ASSUME NEW r \in OfRuns
  PROVE  OfNext(r) \in OfRuns /\ OfNext(r).pc \in {"scan", "setState"}
  BY DEF OfNext, OfRuns, OfSteps

\* Each step of a scan for old files keeps their invariant.
LEMMA OldFilesStep ==
  ASSUME PassesTypeOK, OldFilesTypes, OldFilesInv, OfNextStep
  PROVE  OldFilesTypes' /\ OldFilesInv'
<1>0. /\ OldFilesTypes /\ OldFilesInv /\ moErrors \in Nat
      /\ 0 \in MoTimes /\ moNow \in MoTimes
      /\ moErrors' = moErrors \/ moErrors' = moErrors + 1
  BY MonitorsAssumption, OldFilesPass, PassStepTypes
  DEF MoTimes, PassesTypeOK, OldFilesInv
<1> USE DEF OfAt, OfGoto, OfNext, OfIdle, OfSteps, OldFilesTypes, OldFilesInv,
            OldFilesWhole, Tolerated, PassGoesOn, PassEnds, passVars
<1>1. CASE OfBegin
  BY <1>0, <1>1 DEF OfBegin
<1>2. CASE OfIsDue
  <2>1. ofRun \in OfRuns
    BY <1>0 DEF OfRuns
  <2>2. OfIdle \in OfRuns /\ OfIdle.pc # "entries"
    BY <1>0 DEF OfRuns
  <2> HIDE DEF OfNext, OfIdle
  <2>3. ofRun' \in {OfNext(ofRun), OfIdle}
    BY <1>2 DEF OfIsDue
  <2>4. OfNext(ofRun) \in OfRuns /\ OfNext(ofRun).pc # "entries"
    BY <2>1, OfNextType
  <2>5. ofRun' \in OfRuns /\ ofRun'.pc # "entries"
    BY <2>2, <2>3, <2>4, Zenon
  <2> QED
    BY <1>0, <1>2, <2>5 DEF OfIsDue, OfRuns
<1>3. CASE \E d \in OfDirs : OfScanned(d)
  <2>1. PICK d \in OfDirs : OfScanned(d)
    BY <1>3
  <2>2. PICK r \in OfRuns : r = [ofRun EXCEPT !.left = @ \ {d}]
    <3>1. [ofRun EXCEPT !.left = @ \ {d}] \in OfRuns
      BY <1>0 DEF OfRuns
    <3> QED
      BY <3>1
  <2>3. \/ ofRun' = [r EXCEPT !.dir = d, !.pc = "insert"] /\ PassGoesOn
        \/ ofRun' = OfNext(r) /\ Tolerated
    BY <2>1, <2>2 DEF OfScanned
  <2> HIDE DEF OfNext
  <2>4. ofRun' \in OfRuns /\ ofRun'.pc # "entries"
    BY <2>3, <2>2, OfNextType DEF OfRuns
  <2>5. UNCHANGED <<ofLast, ofRows, ofStored>> /\ ofRun.pc = "scan"
    BY <2>1 DEF OfScanned
  <2> QED
    BY <1>0, <2>4, <2>5 DEF OfRuns
<1>4. CASE OfRecords
  <2>1. ofRun \in OfRuns
    BY <1>0 DEF OfRuns
  <2>2. CASE ofRun' = OfNext(ofRun)
    <3>1. ofRun' \in OfRuns /\ ofRun'.pc \in {"scan", "setState"}
      BY <2>1, <2>2, OfNextType
    <3> HIDE DEF OfNext
    <3>2. \/ /\ ofRun.pc = "commit" /\ ofRows' = ofRows /\ ofStored' = ofRows
          \/ /\ moErrors' = moErrors + 1
             /\ ofRows' = ofRows /\ ofStored' = ofStored
      BY <1>4, <2>1, <2>2, <3>1 DEF OfRecords, OfRuns
    <3>3. ofLast' = ofLast
      BY <1>4 DEF OfRecords
    <3> QED
      BY <1>0, <3>1, <3>2, <3>3 DEF OfRuns
  <2>3. CASE ofRun' # OfNext(ofRun)
    <3>1. \/ /\ ofRun.pc = "insert" /\ ofRun' = [ofRun EXCEPT !.pc = "entries"]
             /\ ofRows' = [ofRows EXCEPT ![ofRun.dir] = "scan"]
          \/ /\ ofRun.pc = "entries" /\ ofRun' = [ofRun EXCEPT !.pc = "commit"]
             /\ ofRows' = [ofRows EXCEPT ![ofRun.dir] = "entries"]
      BY <1>4, <2>3 DEF OfRecords
    <3>2. ofLast' = ofLast /\ ofStored' = ofStored
      BY <1>4, <2>3 DEF OfRecords
    <3> QED
      BY <1>0, <3>1, <3>2
  <2> QED
    BY <2>2, <2>3
<1>5. CASE OfStateSet
  BY <1>0, <1>5 DEF OfStateSet, MoStamps
<1>6. CASE OfRaises
  BY <1>0, <1>6 DEF OfRaises
<1> QED
  BY <1>1, <1>2, <1>3, <1>4, <1>5, <1>6 DEF OfNextStep

\* A new process has no round under way, and owes what the old one did.
LEMMA FilesForgetStep ==
  ASSUME PassesTypeOK, FilesInv, StartsPasses, FilesForget
  PROVE  FilesInv'
<1>1. 0 \in MoTimes /\ moNow' = moNow /\ moErrors' = moErrors
  BY MonitorsAssumption DEF MoTimes, StartsPasses
<1>2. IntegrityTypes'
  <2>1. fiRun' \in FiRuns
    BY <1>1 DEF FilesForget, FiIdle, FiRuns, FiSteps
  <2>2. fiChat' \in [pc : FiChatSteps, left : SUBSET FiFiles,
                     file : FiFiles \union {None},
                     hash : Contents \union {None}]
    BY DEF FilesForget, FiChatIdle, FiChatSteps
  <2> QED
    BY <2>1, <2>2 DEF FilesForget, FilesInv, IntegrityTypes
<1>3. IntegrityInv'
  <2>1. fiRun'.pc = "asleep" /\ fiRun'.at = 0 /\ moNow \in Nat
    BY DEF FilesForget, FiIdle, PassesTypeOK, MoTimes
  <2> QED
    BY <1>1, <2>1
    DEF FilesForget, FilesInv, IntegrityInv, FiDiffers, FiDueAt, AtFile
<1>4. OldFilesTypes'
  BY <1>1 DEF FilesForget, FilesInv, OldFilesTypes, OfIdle, OfSteps
<1>5. OldFilesInv'
  BY <1>1 DEF FilesForget, FilesInv, OldFilesInv, OldFilesWhole
<1> QED
  BY <1>2, <1>3, <1>4, <1>5 DEF FilesInv

\* What other monitors do, and time and stops, leave the files as they are.
LEMMA FilesRest ==
  ASSUME PassesTypeOK, FilesInv, UNCHANGED filesVars,
         moNow' \in {moNow, moNow + 1}, moErrors' \in {moErrors, moErrors + 1}
  PROVE  FilesInv'
<1>1. UNCHANGED <<fiDirectory, fiHost, fiBaseline, fiLast, fiRun, fiChat,
                  fiEdits, fiUpdates, fiOwed, ofRun, ofLast, ofRows, ofStored>>
  BY DEF filesVars, integrityVars, oldFilesVars
<1>2. IntegrityTypes' /\ OldFilesTypes'
  BY <1>1 DEF FilesInv, IntegrityTypes, OldFilesTypes
<1>3. OldFilesInv'
  BY <1>1 DEF FilesInv, OldFilesInv, OldFilesWhole, PassesTypeOK
<1>4. moNow \in Nat /\ fiRun.at \in Nat /\ fiLast \in Int /\ FiInterval \in Nat
  BY FilesAssumption
  DEF PassesTypeOK, FilesInv, IntegrityTypes, MoTimes, MoStamps, NotYet, FiRuns
<1>5. IntegrityInv'
  BY <1>1, <1>4 DEF FilesInv, IntegrityInv, FiDiffers, FiDueAt, AtFile
<1> QED
  BY <1>2, <1>3, <1>5 DEF FilesInv

\* Each step of any monitor keeps the invariant of the files.
LEMMA FilesInvStep ==
  ASSUME PassesTypeOK, MetricsTypeOK, FilesInv, WatchNext
  PROVE  FilesInv'
<1>1. CASE FiNextStep /\ UNCHANGED oldFilesVars
  <2>1. IntegrityTypes' /\ IntegrityInv'
    BY <1>1, IntegrityTypesStep, IntegrityInvStep DEF FilesInv
  <2>2. moErrors' \in {moErrors, moErrors + 1} /\ moErrors \in Nat
    BY PassesKept DEF PassesTypeOK
  <2>3. OldFilesTypes' /\ OldFilesInv'
    BY <1>1, <2>2
    DEF FilesInv, OldFilesTypes, OldFilesInv, OldFilesWhole, oldFilesVars
  <2> QED
    BY <2>1, <2>3 DEF FilesInv
<1>2. CASE OfNextStep /\ UNCHANGED integrityVars
  <2>1. OldFilesTypes' /\ OldFilesInv'
    BY <1>2, OldFilesStep DEF FilesInv
  <2>2. moNow' = moNow
    BY <1>2, OldFilesPass, PassStepTypes
  <2>3. IntegrityTypes' /\ IntegrityInv'
    BY <1>2, <2>2
    DEF FilesInv, IntegrityTypes, IntegrityInv, FiDiffers, FiDueAt, AtFile,
        integrityVars
  <2> QED
    BY <2>1, <2>3 DEF FilesInv
<1>3. CASE UNCHANGED filesVars
  BY <1>3, PassesKept, FilesRest
<1>4. CASE StartsPasses /\ FilesForget
  BY <1>4, FilesForgetStep
<1> QED
  BY <1>1, <1>2, <1>3, <1>4
  DEF WatchNext, FilesNext, notMetrics, notConnections, notDirectories

-----------------------------------------------------------------------------
(* Metrics: the invariant *)

\* What has been counted, or lost on the way to the table.
Counted == mtStored + mtLost + mtRun.bytes

\* What a sample holds was sent since the one before it, and what the next one
\* will find is not in any yet.
TrafficInv ==
  /\ mtCounter <= mtTraffic /\ mtTraffic <= MtMaxTraffic
  /\ mtRun.pc \notin {"publish", "insert"} => mtRun.bytes = 0
  /\ Counted <= mtTraffic
  /\ mtPrev # NotYet => Counted + mtGap + MtDelta <= mtTraffic
  /\ mtResets = 0 =>
       /\ mtCounter = mtTraffic
       /\ mtPrev # NotYet =>
            /\ mtPrev <= mtCounter
            /\ Counted + mtGap + mtCounter - mtPrev = mtTraffic

\* Subject m has been told now, or recently enough.
ToldAt(m) ==
  /\ mtLast[m] # NotYet
  /\ mtLast[m] = mtRun.at \/ mtRun.at - mtLast[m] < MtCooldown

\* What this life of the daemon has in mind is the last alert of a subject, and
\* a sample's alerts are due or told.
AlertsInv ==
  /\ mtRun.at <= moNow
  /\ \A m \in MtSubjects : mtLast[m] <= moNow
  /\ \A i \in 1 .. Len(mtAlerts) :
       /\ mtAlerts[i].life <= moStops
       /\ mtAlerts[i].life = moStops =>
            /\ moUp
            /\ mtLast[mtAlerts[i].subject] # NotYet
            /\ mtAlerts[i].at <= mtLast[mtAlerts[i].subject]
  /\ moUp => \A m \in MtSubjects : mtLast[m] # NotYet =>
       \E i \in 1 .. Len(mtAlerts) :
         /\ mtAlerts[i].subject = m /\ mtAlerts[i].life = moStops
         /\ mtAlerts[i].at = mtLast[m]
  /\ mtRun.pc \in {"publish", "insert"} =>
       /\ \A m \in mtRun.todo :
            mtLast[m] = NotYet \/ mtRun.at - mtLast[m] >= MtCooldown
       /\ \/ watched = "cpu" /\ mtStreak <= MtConsecutive
          \/ \A m \in mtRun.over \ mtRun.todo : ToldAt(m)
  /\ mtRun.pc = "insert" => mtRun.todo = {}
  /\ MetricAlertsSpaced

MetricsInv == MetricsTypeOK /\ TrafficInv /\ AlertsInv

-----------------------------------------------------------------------------
(* Metrics: types and traffic *)

MtRuns == [pc : MtSteps, over : SUBSET MtSubjects, todo : SUBSET MtSubjects,
           at : MoTimes, bytes : Nat]
MtRecords == [subject : MtSubjects, at : MoTimes, life : Nat]

\* The numbers that the counted traffic consists of.
LEMMA MetricsTypes ==
  ASSUME PassesTypeOK, MetricsTypeOK
  PROVE  /\ mtRun \in MtRuns /\ moNow \in MoTimes /\ MoTimes \subseteq Nat
         /\ MoTimes \subseteq MoStamps /\ NotYet = -1 /\ NotYet \in MoStamps
         /\ mtRun.bytes \in Nat /\ mtCounter \in Nat
         /\ mtPrev \in Int /\ (mtPrev = NotYet \/ mtPrev \in Nat)
         /\ mtStored \in Nat /\ mtTraffic \in Nat /\ mtGap \in Nat
         /\ mtLost \in Nat /\ mtResets \in Nat /\ MtMaxTraffic \in Nat
         /\ mtStreak \in Nat /\ moStops \in Nat /\ moNow \in Nat
<1>1. /\ MoTimes \subseteq Nat /\ NotYet = -1 /\ MoTimes \subseteq MoStamps
      /\ NotYet \in MoStamps
  BY DEF MoTimes, NotYet, MoStamps
<1>2. mtRun \in MtRuns /\ mtRun.bytes \in Nat
  BY DEF MetricsTypeOK, MtRuns
<1>3. moNow \in MoTimes /\ moStops \in Nat /\ moNow \in Nat
  BY <1>1 DEF PassesTypeOK
<1>4. mtPrev = NotYet \/ mtPrev \in Nat
  BY MetricsAssumption DEF MetricsTypeOK
<1>5. mtCounter \in Nat /\ mtResets \in Nat /\ MtMaxTraffic \in Nat
  BY MetricsAssumption DEF MetricsTypeOK
<1>6. /\ mtStored \in Nat /\ mtTraffic \in Nat /\ mtGap \in Nat
      /\ mtLost \in Nat /\ mtStreak \in Nat
  BY DEF MetricsTypeOK
<1> QED
  BY <1>1, <1>2, <1>3, <1>4, <1>5, <1>6

\* What a sample counts is not negative.
LEMMA MtDeltaType ==
  ASSUME PassesTypeOK, MetricsTypeOK, mtPrev # NotYet
  PROVE  MtDelta \in Nat
  BY MetricsTypes DEF MtDelta

\* Alerts are due for subjects of the monitor.
LEMMA MtDueType ==
  ASSUME NEW over \in SUBSET MtSubjects
  PROVE  /\ MtDue(over) \in SUBSET MtSubjects /\ MtDue(over) \subseteq over
  BY DEF MtDue

\* A judged sample keeps its types.
LEMMA MtJudgeTypes ==
  ASSUME PassesTypeOK, MetricsTypeOK, NEW over \in SUBSET MtSubjects,
         NEW bytes \in Nat, MtJudge(over, bytes)
  PROVE  mtRun' \in MtRuns /\ mtStreak' \in Nat
<1>1. MtDue(over) \in SUBSET MtSubjects
  BY MtDueType
<1>2. mtStreak' \in Nat
  BY MetricsTypes DEF MtJudge, MtStreakAfter
<1> QED
  BY <1>1, <1>2, MetricsTypes DEF MtJudge, MtRuns, MtSteps

\* The types of the metrics hold at first.
LEMMA MetricsTypesInit == PassesInit /\ MetricsInit => MetricsTypeOK
<1> SUFFICES ASSUME PassesInit, MetricsInit PROVE MetricsTypeOK
  OBVIOUS
<1>1. 0 \in MoTimes /\ NotYet \in MoStamps
  BY MonitorsAssumption DEF MoTimes, MoStamps
<1>2. mtRun \in [pc : MtSteps, over : SUBSET MtSubjects,
                todo : SUBSET MtSubjects, at : MoTimes, bytes : Nat]
  BY <1>1 DEF MetricsInit, MtIdle, MtSteps
<1>3. mtAlerts \in Seq([subject : MtSubjects, at : MoTimes, life : Nat])
  BY DEF MetricsInit
<1> QED
  BY <1>1, <1>2, <1>3, MetricsAssumption DEF MetricsInit, MetricsTypeOK

\* Each step of a resource monitor keeps its types.
LEMMA MetricsTypesStep ==
  ASSUME PassesTypeOK, MetricsTypeOK, TrafficInv, MetricsNext
  PROVE  MetricsTypeOK'
<1>0. /\ mtRun \in MtRuns /\ moNow \in MoTimes /\ MoTimes \subseteq Nat
      /\ MoTimes \subseteq MoStamps /\ 0 \in MoTimes /\ moStops \in Nat
      /\ mtRun.bytes \in Nat /\ mtStored \in Nat /\ mtTraffic \in Nat
      /\ mtGap \in Nat /\ mtLost \in Nat /\ MtMaxTraffic \in Nat
      /\ mtCounter \in Nat /\ MtSubjects' = MtSubjects
  <2>1. watched' = watched
    BY MetricsPass, PassStepTypes
  <2>2. 0 \in MoTimes
    BY MonitorsAssumption DEF MoTimes
  <2> QED
    BY <2>1, <2>2, MetricsTypes DEF MtSubjects
<1> DEFINE NewTypes ==
             /\ mtRun' \in MtRuns /\ mtStreak' \in Nat
             /\ mtLast' \in [MtSubjects -> MoStamps]
             /\ mtBackend' \in {"unknown", "none", "found"}
             /\ mtCounter' \in 0 .. MtMaxTraffic
             /\ mtPrev' \in 0 .. MtMaxTraffic \union {NotYet}
             /\ mtStored' \in Nat /\ mtTraffic' \in Nat /\ mtGap' \in Nat
             /\ mtLost' \in Nat /\ mtResets' \in 0 .. MtMaxResets
             /\ mtAlerts' \in Seq(MtRecords)
<1>1. /\ mtStreak \in Nat /\ mtLast \in [MtSubjects -> MoStamps]
      /\ mtBackend \in {"unknown", "none", "found"}
      /\ mtCounter \in 0 .. MtMaxTraffic
      /\ mtPrev \in 0 .. MtMaxTraffic \union {NotYet}
      /\ mtResets \in 0 .. MtMaxResets /\ mtAlerts \in Seq(MtRecords)
  BY DEF MetricsTypeOK, MtRecords
<1>2. ASSUME NewTypes PROVE MetricsTypeOK'
  <2>1. mtRun' \in [pc : MtSteps, over : SUBSET MtSubjects',
                   todo : SUBSET MtSubjects', at : MoTimes, bytes : Nat]
    BY <1>0, <1>2 DEF MtRuns
  <2>2. mtAlerts' \in Seq([subject : MtSubjects', at : MoTimes, life : Nat])
    BY <1>0, <1>2 DEF MtRecords
  <2> QED
    BY <1>0, <1>2, <2>1, <2>2 DEF MetricsTypeOK
<1> USE DEF MtAt, MtGoto, MtNetwork, MtTotals
<1>3. CASE MtBegin
  BY <1>0, <1>1, <1>2, <1>3 DEF MtBegin, MtRuns, MtSteps
<1>4. CASE MtDetected
  BY <1>0, <1>1, <1>2, <1>4 DEF MtDetected, MtRuns, MtSteps
<1>5. CASE MtSampled
  <2>1. PICK over \in SUBSET MtSubjects : MtJudge(over, 0)
    BY <1>5 DEF MtSampled
  <2>2. mtRun' \in MtRuns /\ mtStreak' \in Nat
    BY <2>1, MtJudgeTypes
  <2> QED
    BY <1>0, <1>1, <1>2, <1>5, <2>2 DEF MtSampled
<1>6. CASE MtCounted
  <2>1. CASE mtPrev = NotYet
    <3>1. mtGap' = mtTraffic - mtStored - mtLost /\ mtRun.bytes = 0
      BY <1>6, <2>1 DEF MtCounted, TrafficInv
    <3>2. mtTraffic - mtStored - mtLost \in Nat
      BY <1>0, <3>1 DEF TrafficInv, Counted
    <3>3. mtGap' \in Nat
      BY <3>1, <3>2
    <3> QED
      BY <1>0, <1>1, <1>2, <1>6, <2>1, <3>3 DEF MtCounted, MtRuns, MtSteps
  <2>2. CASE mtPrev # NotYet
    <3>1. PICK over \in SUBSET MtSubjects : MtJudge(over, MtDelta)
      BY <1>6, <2>2 DEF MtCounted
    <3>2. mtRun' \in MtRuns /\ mtStreak' \in Nat
      BY <2>2, <3>1, MtJudgeTypes, MtDeltaType
    <3> QED
      BY <1>0, <1>1, <1>2, <1>6, <2>2, <3>2 DEF MtCounted
  <2> QED
    BY <2>1, <2>2
<1>7. CASE MtUnsampled
  BY <1>0, <1>1, <1>2, <1>7 DEF MtUnsampled, MtRuns, MtSteps
<1>8. CASE \E m \in MtSubjects : MtPublished(m)
  <2>1. PICK m \in MtSubjects : MtPublished(m)
    BY <1>8
  <2>2. [subject |-> m, at |-> mtRun.at, life |-> moStops] \in MtRecords
    BY <1>0 DEF MtRuns, MtRecords
  <2>3. mtAlerts' \in Seq(MtRecords)
    BY <1>1, <2>1, <2>2, AppendProperties DEF MtPublished
  <2>4. mtRun' \in MtRuns /\ mtRun.at \in MoTimes
    BY <1>0, <2>1 DEF MtPublished, MtRuns, MtSteps
  <2>5. mtLast' \in [MtSubjects -> MoStamps]
    BY <1>0, <1>1, <2>1, <2>4 DEF MtPublished
  <2> QED
    BY <1>0, <1>1, <1>2, <2>1, <2>3, <2>4, <2>5 DEF MtPublished
<1>9. CASE MtInserted
  <2>1. mtRun' \in MtRuns
    BY <1>0, <1>9 DEF MtInserted, MtIdle, MtRuns, MtSteps
  <2>2. mtStored' \in Nat /\ mtLost' \in Nat
    BY <1>0, <1>9 DEF MtInserted
  <2> QED
    BY <1>0, <1>1, <1>2, <1>9, <2>1, <2>2 DEF MtInserted
<1>10. CASE MtSends
  <2>1. mtCounter + 1 \in 0 .. MtMaxTraffic /\ mtTraffic + 1 \in Nat
    BY <1>0, <1>10 DEF MtSends, TrafficInv
  <2> QED
    BY <1>0, <1>1, <1>2, <1>10, <2>1 DEF MtSends
<1>11. CASE MtResets
  BY <1>0, <1>1, <1>2, <1>11, MetricsAssumption DEF MtResets
<1> QED
  BY <1>3, <1>4, <1>5, <1>6, <1>7, <1>8, <1>9, <1>10, <1>11 DEF MetricsNext

\* Each step of a resource monitor keeps the invariant of the traffic.
LEMMA TrafficInvStep ==
  ASSUME PassesTypeOK, MetricsTypeOK, TrafficInv, MetricsNext
  PROVE  TrafficInv'
<1>0. /\ MetricsTypeOK /\ TrafficInv /\ mtRun \in MtRuns /\ NotYet = -1
      /\ mtRun.bytes \in Nat /\ mtCounter \in Nat
      /\ mtPrev \in Int /\ (mtPrev = NotYet \/ mtPrev \in Nat)
      /\ mtStored \in Nat /\ mtTraffic \in Nat /\ mtGap \in Nat
      /\ mtLost \in Nat /\ mtResets \in Nat /\ MtMaxTraffic \in Nat
  BY MetricsTypes
<1> USE DEF MtAt, MtGoto, MtNetwork, MtTotals, Counted, MtDelta
<1>1. CASE MtBegin
  BY <1>0, <1>1
  DEF MtBegin, MetricsTypeOK, TrafficInv, MtRuns
<1>2. CASE MtDetected
  BY <1>0, <1>2
  DEF MtDetected, TrafficInv, MtRuns
<1>3. CASE MtSampled
  BY <1>0, <1>3
  DEF MtSampled, MtJudge, TrafficInv, MtRuns
<1>4. CASE MtCounted
  BY <1>0, <1>4
  DEF MtCounted, MtJudge, TrafficInv, MtRuns
<1>5. CASE MtUnsampled
  BY <1>0, <1>5
  DEF MtUnsampled, TrafficInv, MtRuns
<1>6. CASE \E m \in MtSubjects : MtPublished(m)
  BY <1>0, <1>6
  DEF MtPublished, TrafficInv, MtRuns
<1>7. CASE MtInserted
  BY <1>0, <1>7
  DEF MtInserted, MtIdle, TrafficInv, MtRuns
<1>8. CASE MtSends
  BY <1>0, <1>8
  DEF MtSends, TrafficInv, MtRuns
<1>9. CASE MtResets
  BY <1>0, <1>9
  DEF MtResets, TrafficInv, MtRuns
<1> QED
  BY <1>1, <1>2, <1>3, <1>4, <1>5, <1>6, <1>7, <1>8, <1>9
  DEF MetricsNext

-----------------------------------------------------------------------------
(* Metrics: alerts *)

\* The numbers that alerts are compared by.
LEMMA AlertTypes ==
  ASSUME PassesTypeOK, MetricsTypeOK
  PROVE  /\ mtRun \in MtRuns /\ mtRun.at \in Nat /\ moNow \in Nat
         /\ moStops \in Nat /\ NotYet = -1 /\ MtCooldown \in Nat
         /\ mtStreak \in Nat /\ MtConsecutive \in Nat
         /\ mtLast \in [MtSubjects -> MoStamps]
         /\ \A m \in MtSubjects :
              mtLast[m] \in Int /\ (mtLast[m] = NotYet \/ mtLast[m] \in Nat)
         /\ Len(mtAlerts) \in Nat
         /\ \A i \in 1 .. Len(mtAlerts) :
              /\ mtAlerts[i].subject \in MtSubjects
              /\ mtAlerts[i].at \in Nat /\ mtAlerts[i].life \in Nat
<1>1. /\ mtRun \in MtRuns /\ MoTimes \subseteq Nat /\ moNow \in Nat
      /\ moStops \in Nat /\ mtStreak \in Nat /\ NotYet = -1
  BY MetricsTypes
<1>2. mtRun.at \in Nat
  BY <1>1 DEF MtRuns
<1>3. mtAlerts \in Seq(MtRecords) /\ mtLast \in [MtSubjects -> MoStamps]
  BY DEF MetricsTypeOK, MtRecords
<1>4. \A m \in MtSubjects : mtLast[m] \in MoTimes \/ mtLast[m] = NotYet
  BY <1>3 DEF MoStamps
<1>5. \A m \in MtSubjects : mtLast[m] \in Nat \/ mtLast[m] = -1
  BY <1>1, <1>4
<1>6. \A i \in 1 .. Len(mtAlerts) : mtAlerts[i] \in MtRecords
  BY <1>3, ElementOfSeq
<1>7. \A i \in 1 .. Len(mtAlerts) :
        /\ mtAlerts[i].subject \in MtSubjects
        /\ mtAlerts[i].at \in Nat /\ mtAlerts[i].life \in Nat
  BY <1>1, <1>6 DEF MtRecords
<1> QED
  BY <1>1, <1>2, <1>3, <1>5, <1>7, MetricsAssumption

\* The invariant of the alerts holds at first.
LEMMA AlertsInvInit == PassesInit /\ MetricsInit => AlertsInv
<1> SUFFICES ASSUME PassesInit, MetricsInit PROVE AlertsInv
  OBVIOUS
<1>1. /\ Len(mtAlerts) = 0 /\ mtRun.at = 0 /\ mtRun.pc = "asleep"
      /\ moNow = 0 /\ \A m \in MtSubjects : mtLast[m] = -1
  BY DEF PassesInit, MetricsInit, MtIdle, NotYet
<1> QED
  BY <1>1 DEF AlertsInv, MetricAlertsSpaced, NotYet

\* A sample decides which alerts are due; of the others the last one is recent.
LEMMA JudgedAlerts ==
  ASSUME PassesTypeOK, MetricsTypeOK, AlertsInv,
         NEW over \in SUBSET MtSubjects, NEW bytes, MtJudge(over, bytes),
         UNCHANGED <<watched, moUp, moNow, moStops, mtLast, mtAlerts>>
  PROVE  AlertsInv'
<1>0. /\ moNow \in Nat /\ NotYet = -1 /\ MtCooldown \in Nat
      /\ mtStreak \in Nat /\ MtConsecutive \in Nat
      /\ MtSubjects' = MtSubjects
      /\ \A m \in MtSubjects :
           mtLast[m] \in Int /\ (mtLast[m] = NotYet \/ mtLast[m] \in Nat)
  BY AlertTypes DEF MtSubjects
<1> DEFINE due == MtDue(over)
<1>1. /\ mtRun'.pc = IF due = {} THEN "insert" ELSE "publish"
      /\ mtRun'.over = over /\ mtRun'.todo = due /\ mtRun'.at = moNow
      /\ mtStreak' = MtStreakAfter(over)
  BY DEF MtJudge
<1>2. \A m \in due :
        mtLast[m] = NotYet \/ moNow - mtLast[m] >= MtCooldown
  BY DEF MtDue, MtCooled, Elapsed
<1>3. \/ watched = "cpu" /\ MtStreakAfter(over) <= MtConsecutive
      \/ \A m \in over \ due :
           mtLast[m] # NotYet /\ moNow - mtLast[m] < MtCooldown
  <2>1. CASE watched = "cpu" /\ MtStreakAfter(over) <= MtConsecutive
    BY <2>1
  <2>2. CASE ~(watched = "cpu" /\ MtStreakAfter(over) <= MtConsecutive)
    BY <1>0, <2>2 DEF MtDue, MtCooled, Elapsed
  <2> QED
    BY <2>1, <2>2
<1>4. \/ (watched = "cpu" /\ mtStreak <= MtConsecutive)'
      \/ \A m \in over \ due : ToldAt(m)'
  BY <1>1, <1>3 DEF ToldAt
<1> HIDE DEF due
<1> QED
  BY <1>0, <1>1, <1>2, <1>4 DEF AlertsInv, MetricAlertsSpaced

\* Each step of a resource monitor keeps the invariant of the alerts.
LEMMA AlertsInvStep ==
  ASSUME PassesTypeOK, MetricsTypeOK, AlertsInv, MetricsNext
  PROVE  AlertsInv'
<1>0. /\ AlertsInv /\ UNCHANGED <<watched, moUp, moNow, moStops>>
      /\ MtSubjects' = MtSubjects
      /\ mtRun \in MtRuns /\ mtRun.at \in Nat /\ moNow \in Nat
      /\ moStops \in Nat /\ NotYet = -1 /\ MtCooldown \in Nat
      /\ mtStreak \in Nat /\ MtConsecutive \in Nat
      /\ mtLast \in [MtSubjects -> MoStamps]
      /\ \A m \in MtSubjects :
           mtLast[m] \in Int /\ (mtLast[m] = NotYet \/ mtLast[m] \in Nat)
      /\ Len(mtAlerts) \in Nat
      /\ \A i \in 1 .. Len(mtAlerts) :
           /\ mtAlerts[i].subject \in MtSubjects
           /\ mtAlerts[i].at \in Nat /\ mtAlerts[i].life \in Nat
  <2>1. UNCHANGED <<watched, moUp, moNow, moStops>>
    BY MetricsPass, PassStepTypes
  <2> QED
    BY <2>1, AlertTypes DEF MtSubjects
<1> USE DEF MtAt, MtGoto, MtNetwork, MtTotals
<1>1. CASE MtBegin
  <2>1. mtBackend \in {"unknown", "none", "found"}
    BY DEF MetricsTypeOK
  <2>2. /\ mtRun'.pc \notin {"publish", "insert"} /\ mtRun'.at = mtRun.at
        /\ UNCHANGED <<mtLast, mtAlerts>>
    BY <1>0, <1>1, <2>1 DEF MtBegin, MtRuns
  <2> QED
    BY <1>0, <2>2 DEF AlertsInv, MetricAlertsSpaced
<1>2. CASE MtDetected
  BY <1>0, <1>2, SMTT(20)
  DEF MtDetected, AlertsInv, MetricAlertsSpaced, ToldAt, MtRuns
<1>3. CASE MtSampled
  <2>1. PICK over \in SUBSET MtSubjects : MtJudge(over, 0)
    BY <1>3 DEF MtSampled
  <2> QED
    BY <1>0, <1>3, <2>1, JudgedAlerts DEF MtSampled
<1>4. CASE MtCounted
  <2>1. CASE mtPrev = NotYet
    BY <1>0, <1>4, <2>1
    DEF MtCounted, AlertsInv, MetricAlertsSpaced, MtRuns
  <2>2. CASE mtPrev # NotYet
    <3>1. PICK over \in SUBSET MtSubjects : MtJudge(over, MtDelta)
      BY <1>4, <2>2 DEF MtCounted
    <3> QED
      BY <1>0, <1>4, <3>1, JudgedAlerts DEF MtCounted
  <2> QED
    BY <2>1, <2>2
<1>5. CASE MtUnsampled
  BY <1>0, <1>5
  DEF MtUnsampled, PassRaises, PassEnds, AlertsInv, MetricAlertsSpaced, ToldAt,
      MtRuns
<1>6. CASE \E m \in MtSubjects : MtPublished(m)
  <2>1. PICK m \in MtSubjects : MtPublished(m)
    BY <1>6
  <2> DEFINE n == Len(mtAlerts) + 1
             new == [subject |-> m, at |-> mtRun.at, life |-> moStops]
  <2>2. /\ Len(mtAlerts') = n /\ mtAlerts'[n] = new
        /\ \A i \in 1 .. Len(mtAlerts) : mtAlerts'[i] = mtAlerts[i]
    BY <2>1 DEF MtPublished, MetricsTypeOK
  <2>3. /\ mtLast'[m] = mtRun.at /\ mtRun'.at = mtRun.at
        /\ \A k \in MtSubjects \ {m} : mtLast'[k] = mtLast[k]
        /\ mtRun'.over = mtRun.over /\ mtRun'.todo = mtRun.todo \ {m}
        /\ mtStreak' = mtStreak /\ mtRun.pc = "publish" /\ m \in mtRun.todo
        /\ mtRun'.pc \in {"publish", "insert"} /\ moUp
        /\ mtRun'.pc = "insert" => mtRun.todo = {m}
    BY <1>0, <2>1 DEF MtPublished, MtRuns
  <2>4. mtLast[m] = NotYet \/ mtRun.at - mtLast[m] >= MtCooldown
    BY <1>0, <2>3 DEF AlertsInv
  <2>5. \A i \in 1 .. Len(mtAlerts) :
          mtAlerts[i].subject = m /\ mtAlerts[i].life = moStops =>
            /\ mtLast[m] # NotYet /\ mtAlerts[i].at <= mtLast[m]
            /\ mtRun.at - mtAlerts[i].at >= MtCooldown
    BY <1>0, <2>4, SMTT(20) DEF AlertsInv
  <2>6. MetricAlertsSpaced'
    <3> SUFFICES ASSUME NEW i \in 1 .. Len(mtAlerts'),
                        NEW j \in 1 .. Len(mtAlerts'), i < j,
                        mtAlerts'[i].subject = mtAlerts'[j].subject,
                        mtAlerts'[i].life = mtAlerts'[j].life
                 PROVE  mtAlerts'[j].at - mtAlerts'[i].at >= MtCooldown
      BY DEF MetricAlertsSpaced
    <3>1. i \in 1 .. Len(mtAlerts) /\ mtAlerts'[i] = mtAlerts[i]
      BY <1>0, <2>2
    <3>2. CASE j = n
      BY <2>2, <2>5, <3>1, <3>2
    <3>3. CASE j \in 1 .. Len(mtAlerts)
      BY <1>0, <2>2, <3>1, <3>3 DEF AlertsInv, MetricAlertsSpaced
    <3> QED
      BY <1>0, <2>2, <3>2, <3>3
  <2>7. \A i \in 1 .. Len(mtAlerts') :
          /\ mtAlerts'[i].life <= moStops
          /\ mtAlerts'[i].life = moStops =>
               /\ mtLast'[mtAlerts'[i].subject] # NotYet
               /\ mtAlerts'[i].at <= mtLast'[mtAlerts'[i].subject]
    <3> SUFFICES ASSUME NEW i \in 1 .. Len(mtAlerts')
                 PROVE  /\ mtAlerts'[i].life <= moStops
                        /\ mtAlerts'[i].life = moStops =>
                             /\ mtLast'[mtAlerts'[i].subject] # NotYet
                             /\ mtAlerts'[i].at <= mtLast'[mtAlerts'[i].subject]
      OBVIOUS
    <3>1. CASE i = n
      BY <1>0, <2>2, <2>3, <3>1
    <3>2. CASE i \in 1 .. Len(mtAlerts)
      <4>1. mtAlerts'[i] = mtAlerts[i] /\ mtAlerts[i].life <= moStops
              /\ mtAlerts[i].subject \in MtSubjects
        BY <1>0, <2>2, <3>2 DEF AlertsInv
      <4>2. CASE mtAlerts[i].subject = m
        BY <1>0, <2>3, <2>5, <3>2, <4>1, <4>2, SMTT(20)
      <4>3. CASE mtAlerts[i].subject # m
        BY <1>0, <2>3, <3>2, <4>1, <4>3 DEF AlertsInv
      <4> QED
        BY <4>2, <4>3
    <3> QED
      BY <1>0, <2>2, <3>1, <3>2
  <2>8. \A k \in MtSubjects : mtLast'[k] # NotYet =>
          \E i \in 1 .. Len(mtAlerts') :
            /\ mtAlerts'[i].subject = k /\ mtAlerts'[i].life = moStops
            /\ mtAlerts'[i].at = mtLast'[k]
    <3> SUFFICES ASSUME NEW k \in MtSubjects, mtLast'[k] # NotYet
                 PROVE  \E i \in 1 .. Len(mtAlerts') :
                          /\ mtAlerts'[i].subject = k
                          /\ mtAlerts'[i].life = moStops
                          /\ mtAlerts'[i].at = mtLast'[k]
      OBVIOUS
    <3>1. CASE k = m
      BY <1>0, <2>2, <2>3, <3>1
    <3>2. CASE k # m
      <4>1. PICK i \in 1 .. Len(mtAlerts) :
              /\ mtAlerts[i].subject = k /\ mtAlerts[i].life = moStops
              /\ mtAlerts[i].at = mtLast[k]
        BY <1>0, <2>3, <3>2 DEF AlertsInv
      <4>2. i \in 1 .. Len(mtAlerts')
        BY <1>0, <2>2
      <4> QED
        BY <2>2, <2>3, <3>2, <4>1, <4>2
    <3> QED
      BY <3>1, <3>2
  <2>9. /\ \A k \in mtRun'.todo :
             mtLast'[k] = NotYet \/ mtRun'.at - mtLast'[k] >= MtCooldown
        /\ \/ watched = "cpu" /\ mtStreak <= MtConsecutive
           \/ \A k \in mtRun.over \ (mtRun.todo \ {m}) : ToldAt(k)'
    <3>1. mtRun.todo \subseteq MtSubjects /\ mtRun.over \subseteq MtSubjects
      BY <1>0 DEF MtRuns
    <3>2. \A k \in mtRun'.todo :
            mtLast'[k] = NotYet \/ mtRun'.at - mtLast'[k] >= MtCooldown
      BY <1>0, <2>3, <3>1 DEF AlertsInv
    <3>3. ToldAt(m)'
      BY <1>0, <2>3 DEF ToldAt
    <3>4. \A k \in mtRun.over \ mtRun.todo : ToldAt(k) => ToldAt(k)'
      BY <1>0, <2>3, <3>1 DEF ToldAt
    <3> QED
      BY <1>0, <2>3, <3>2, <3>3, <3>4 DEF AlertsInv
  <2>10. \A k \in MtSubjects : mtLast'[k] <= moNow
    BY <1>0, <2>3 DEF AlertsInv
  <2>11. mtRun'.at <= moNow /\ (mtRun'.pc = "insert" => mtRun'.todo = {})
    BY <1>0, <2>3 DEF AlertsInv
  <2> HIDE DEF n
  <2> QED
    BY <1>0, <2>3, <2>6, <2>7, <2>8, <2>9, <2>10, <2>11 DEF AlertsInv
<1>7. CASE MtInserted
  <2>1. /\ mtRun'.pc = "asleep" /\ mtRun'.at = 0
        /\ UNCHANGED <<mtLast, mtAlerts>>
    BY <1>7 DEF MtInserted, MtIdle
  <2> QED
    BY <1>0, <2>1 DEF AlertsInv, MetricAlertsSpaced
<1>8. CASE MtSends
  BY <1>0, <1>8
  DEF MtSends, AlertsInv, MetricAlertsSpaced, ToldAt, MtRuns
<1>9. CASE MtResets
  BY <1>0, <1>9
  DEF MtResets, AlertsInv, MetricAlertsSpaced, ToldAt, MtRuns
<1> QED
  BY <1>1, <1>2, <1>3, <1>4, <1>5, <1>6, <1>7, <1>8, <1>9
  DEF MetricsNext

-----------------------------------------------------------------------------
(* Metrics: the whole *)

\* The invariant of the traffic holds at first.
LEMMA TrafficInvInit == MetricsInit => TrafficInv
  BY MetricsAssumption DEF MetricsInit, TrafficInv, Counted, MtIdle

\* A new process has no sample, no streak and no alerts in mind.
LEMMA MetricsForgetStep ==
  ASSUME PassesTypeOK, MetricsInv, StartsPasses, MtForget
  PROVE  MetricsInv'
<1>0. /\ ~moUp /\ watched' = watched /\ moNow' = moNow /\ moStops' = moStops
      /\ MtSubjects' = MtSubjects /\ 0 \in MoTimes /\ moNow \in Nat
      /\ NotYet \in MoStamps /\ NotYet = -1
      /\ mtLost \in Nat /\ mtRun.bytes \in Nat /\ mtStored \in Nat
      /\ mtTraffic \in Nat /\ moStops \in Nat
  BY MonitorsAssumption, MetricsTypes
  DEF StartsPasses, MtSubjects, MetricsInv, MoTimes
<1>1. /\ mtRun' = MtIdle /\ mtStreak' = 0 /\ mtBackend' = "unknown"
      /\ mtLast' = [m \in MtSubjects |-> NotYet] /\ mtPrev' = NotYet
      /\ mtLost' = mtLost + mtRun.bytes
      /\ UNCHANGED <<mtCounter, mtTraffic, mtResets, mtStored, mtGap, mtAlerts>>
  BY DEF MtForget, MtNetwork
<1>2. MetricsTypeOK'
  <2>1. mtRun' \in [pc : MtSteps, over : SUBSET MtSubjects',
                   todo : SUBSET MtSubjects', at : MoTimes, bytes : Nat]
    BY <1>0, <1>1 DEF MtIdle, MtSteps
  <2>2. mtLast' \in [MtSubjects' -> MoStamps] /\ mtLost' \in Nat
    BY <1>0, <1>1
  <2>3. mtAlerts' \in Seq([subject : MtSubjects', at : MoTimes, life : Nat])
    BY <1>0, <1>1 DEF MetricsInv, MetricsTypeOK
  <2> QED
    BY <1>1, <2>1, <2>2, <2>3 DEF MetricsInv, MetricsTypeOK
<1>3. TrafficInv'
  BY <1>0, <1>1 DEF MetricsInv, TrafficInv, Counted, MtIdle
<1>4. AlertsInv'
  <2>1. /\ mtRun'.pc = "asleep" /\ mtRun'.at = 0
        /\ \A m \in MtSubjects : mtLast'[m] = NotYet
    BY <1>1 DEF MtIdle
  <2> QED
    BY <1>0, <1>1, <2>1 DEF MetricsInv, AlertsInv, MetricAlertsSpaced
<1> QED
  BY <1>2, <1>3, <1>4 DEF MetricsInv

\* What other monitors do, and time and stops, leave the metrics as they are.
LEMMA MetricsRest ==
  ASSUME PassesTypeOK, MetricsInv, UNCHANGED <<watched, metricVars>>,
         moNow' \in {moNow, moNow + 1},
         \/ UNCHANGED <<moUp, moStops>>
         \/ moUp' = FALSE /\ moStops' = moStops + 1
  PROVE  MetricsInv'
<1>1. UNCHANGED <<mtRun, mtStreak, mtLast, mtBackend, mtCounter, mtPrev,
                  mtStored, mtTraffic, mtGap, mtLost, mtResets, mtAlerts>>
        /\ MtSubjects' = MtSubjects
  BY DEF metricVars, MtSubjects
<1>2. MetricsTypeOK'
  BY <1>1 DEF MetricsInv, MetricsTypeOK
<1>3. TrafficInv'
  BY <1>1 DEF MetricsInv, TrafficInv, Counted, MtDelta
<1>4. /\ mtRun.at \in Nat /\ moNow \in Nat /\ moStops \in Nat
      /\ \A m \in MtSubjects : mtLast[m] \in Int
      /\ \A i \in 1 .. Len(mtAlerts) : mtAlerts[i].life \in Nat
  BY AlertTypes DEF MetricsInv
<1>5. AlertsInv'
  BY <1>1, <1>4 DEF MetricsInv, AlertsInv, MetricAlertsSpaced, ToldAt
<1> QED
  BY <1>2, <1>3, <1>5 DEF MetricsInv

\* Each step of any monitor keeps the invariant of the metrics.
LEMMA MetricsInvStep ==
  ASSUME PassesTypeOK, MetricsInv, WatchNext
  PROVE  MetricsInv'
<1>0. MetricsTypeOK
  BY DEF MetricsInv
<1>1. CASE MetricsNext
  BY <1>0, <1>1, MetricsTypesStep, TrafficInvStep, AlertsInvStep DEF MetricsInv
<1>2. CASE PassStep /\ UNCHANGED metricVars
  BY <1>2, PassStepTypes, MetricsRest
<1>3. CASE (TimePasses \/ StopsPasses) /\ UNCHANGED metricVars
  BY <1>3, MetricsRest DEF TimePasses, StopsPasses
<1>4. CASE StartsPasses /\ MtForget
  BY <1>4, MetricsForgetStep
<1> QED
  BY <1>1, <1>2, <1>3, <1>4, FilesPass, ConnectionsPass, DirectoriesPass
  DEF WatchNext, notFiles, notConnections, notDirectories

\* The invariant implies what it is for.
LEMMA MetricsProperties ==
  ASSUME PassesTypeOK, MetricsInv
  PROVE  MetricAlertsSpaced /\ BreachesTold /\ TrafficCounted
<1>1. MetricAlertsSpaced
  BY DEF MetricsInv, AlertsInv
<1>2. BreachesTold
  <2> SUFFICES ASSUME moUp, mtRun.pc = "insert", NEW m \in mtRun.over,
                      ~(watched = "cpu" /\ mtStreak <= MtConsecutive)
               PROVE  \E i \in 1 .. Len(mtAlerts) :
                        /\ mtAlerts[i].subject = m
                        /\ mtAlerts[i].life = moStops
                        /\ \/ mtAlerts[i].at = mtRun.at
                           \/ mtRun.at - mtAlerts[i].at < MtCooldown
    BY DEF BreachesTold
  <2>1. ToldAt(m) /\ m \in MtSubjects
    BY AlertTypes DEF MetricsInv, AlertsInv, MtRuns
  <2>2. PICK i \in 1 .. Len(mtAlerts) :
          /\ mtAlerts[i].subject = m /\ mtAlerts[i].life = moStops
          /\ mtAlerts[i].at = mtLast[m]
    BY <2>1 DEF MetricsInv, AlertsInv, ToldAt
  <2> QED
    BY <2>1, <2>2 DEF ToldAt
<1>3. TrafficCounted
  <2>1. /\ mtStored \in Nat /\ mtLost \in Nat /\ mtRun.bytes \in Nat
        /\ mtGap \in Nat /\ mtCounter \in Nat /\ mtPrev \in Int
        /\ mtTraffic \in Nat
    BY MetricsTypes DEF MetricsInv
  <2>2. mtPrev # NotYet => MtDelta \in Nat
    BY MtDeltaType DEF MetricsInv
  <2> QED
    BY <2>1, <2>2 DEF MetricsInv, TrafficInv, Counted, TrafficCounted
<1> QED
  BY <1>1, <1>2, <1>3

-----------------------------------------------------------------------------
(* Connections: the invariant *)

CoRuns == [pc : CoSteps, pairs : SUBSET CoPairs, ips : SUBSET CoIPs,
           ip : CoIPs \union {Nobody}, ports : SUBSET CoPairs,
           at : MoTimes, category : CoCategories]

\* The steps of a pass that are about one address, and those that follow its
\* alert.
CoAtAddress == {"cooldown", "classify", "publish", "store", "upsert"}
CoAfterAlert == {"store", "upsert"}

CoSeenIPs == {p[1] : p \in coRun.ports}

\* An address with enough attempts has been told in this pass, or within the
\* cooldown.
CoDealtWith(ip) ==
  \/ ~CoReaches(ip)
  \/ \E i \in 1 .. Len(coTold) :
       /\ coTold[i].ip = ip
       /\ coTold[i].at = coRun.at \/ coRun.at - coTold[i].at < CoCooldown

\* What the table knows is an alert, and the table knows what is recorded.
KnownInv ==
  /\ \A i \in 1 .. Len(coTold) : coTold[i].recorded =>
       \E p \in CoPairs : p[1] = coTold[i].ip /\ coAlerted[p] >= coTold[i].at
  /\ \A p \in CoPairs : coAlerted[p] # NotYet =>
       \E i \in 1 .. Len(coTold) :
         coTold[i].ip = p[1] /\ coTold[i].at = coAlerted[p]

\* Nothing is from after the pass, or the clock.
ClockInv ==
  /\ coRun.at <= moNow
  /\ \A p \in CoPairs : coAlerted[p] <= moNow
  /\ \A i \in 1 .. Len(coTold) : coTold[i].at <= moNow
  /\ coRun.pc # "asleep" =>
       /\ \A p \in CoPairs : coAlerted[p] <= coRun.at
       /\ \A i \in 1 .. Len(coTold) : coTold[i].at <= coRun.at

\* The addresses a pass has not come to are among those it has seen, and those
\* behind it are dealt with; an alert is due when it is published, and the one
\* to be recorded is the last.
PassInv ==
  /\ coRun.pc = "ss" => coRun.ports = {} /\ coRun.ips = {}
  /\ coRun.pc # "asleep" => coRun.ips \subseteq CoSeenIPs
  /\ coRun.pc = "record" =>
       /\ CoSeenIPs \subseteq coRun.ips
       /\ Len(coRows) + Cardinality(coRun.pairs) <= CoMaxRows
  /\ coRun.pc \in CoAtAddress => coRun.ip \in CoSeenIPs
  /\ coRun.pc \in CoAtAddress \union {"asleep", "count"} =>
       \A p \in coRun.ports :
         \/ p[1] \in coRun.ips
         \/ coRun.pc \in CoAtAddress /\ p[1] = coRun.ip
         \/ CoDealtWith(p[1])
  /\ coRun.pc \in {"classify", "publish"} =>
       \A p \in CoPairs : p[1] = coRun.ip =>
         coAlerted[p] = NotYet \/ coAlerted[p] <= coRun.at - CoCooldown
  /\ coRun.pc \in CoAfterAlert =>
       /\ coTold # <<>>
       /\ coTold[Len(coTold)].ip = coRun.ip
       /\ coTold[Len(coTold)].at = coRun.at

ConnectionsInv ==
  /\ ConnectionsTypeOK /\ KnownInv /\ ClockInv /\ PassInv
  /\ ConnectionAlertsSpaced

-----------------------------------------------------------------------------
(* Connections: lemmas *)

\* Of natural numbers there is a least.
LEMMA LeastOf ==
  ASSUME NEW S \in SUBSET Nat, S # {}
  PROVE  \E m \in S : \A n \in S : m <= n
<1> DEFINE less == OpToRel(<, Nat)
<1>1. IsWellFoundedOn(less, Nat)
  BY NatLessThanWellFounded, Zenon
<1> HIDE DEF less
<1>2. PICK m \in S : \A n \in S : ~(<<n, m>> \in less)
  BY <1>1, WFMin
<1>3. \A n \in S : ~(n < m)
  BY <1>2 DEF less, OpToRel
<1> QED
  BY <1>3

\* Of bounded integers there is a greatest.
LEMMA GreatestOf ==
  ASSUME NEW k \in Nat, NEW S \in SUBSET Int, S # {},
         \A n \in S : n <= k
  PROVE  \E m \in S : \A n \in S : n <= m
<1> DEFINE below == {k - n : n \in S}
<1>1. below \in SUBSET Nat /\ below # {}
  <2>1. \A n \in S : k - n \in Nat
    OBVIOUS
  <2>2. PICK n \in S : TRUE
    OBVIOUS
  <2>3. k - n \in below
    OBVIOUS
  <2> QED
    BY <2>1, <2>3
<1> HIDE DEF below
<1>2. PICK b \in below : \A c \in below : b <= c
  BY <1>1, LeastOf
<1>3. PICK m \in S : b = k - m
  BY DEF below
<1>4. \A n \in S : b <= k - n
  BY <1>2 DEF below
<1> QED
  BY <1>3, <1>4

\* get_last_alerted_for_ip is one of the address's stamps, and none is later.
LEMMA LastAlertedOfAddress ==
  ASSUME ConnectionsTypeOK, NEW q \in CoPairs
  PROVE  /\ \E p \in CoPairs : p[1] = q[1] /\ coAlerted[p] = CoLastAlerted(q[1])
         /\ \A p \in CoPairs : p[1] = q[1] =>
              coAlerted[p] <= CoLastAlerted(q[1])
<1> DEFINE stamps == {coAlerted[p] : p \in {r \in CoPairs : r[1] = q[1]}}
<1>1. \A p \in CoPairs : coAlerted[p] \in Int /\ coAlerted[p] <= MoMaxTime
  BY MonitorsAssumption DEF ConnectionsTypeOK, MoStamps, MoTimes, NotYet
<1>2. PICK m \in stamps : \A n \in stamps : n <= m
  <2>1. stamps \in SUBSET Int /\ stamps # {} /\ \A n \in stamps : n <= MoMaxTime
    BY <1>1
  <2> HIDE DEF stamps
  <2> QED
    BY <2>1, GreatestOf, MonitorsAssumption
<1>3. CoLastAlerted(q[1]) = CHOOSE t \in stamps : \A u \in stamps : u <= t
  BY DEF CoLastAlerted
<1>4. /\ CoLastAlerted(q[1]) \in stamps
      /\ \A n \in stamps : n <= CoLastAlerted(q[1])
  <2> HIDE DEF stamps
  <2> QED
    BY <1>2, <1>3
<1> QED
  BY <1>4

\* min(ports) is a port the address was seen at.
LEMMA AlertPortWasSeen ==
  ASSUME ConnectionsTypeOK, coRun.ip \in CoSeenIPs
  PROVE  /\ <<coRun.ip, CoAlertPort>> \in CoPairs
         /\ <<coRun.ip, CoAlertPort>>[1] = coRun.ip
<1> DEFINE mine == {p \in coRun.ports : p[1] = coRun.ip}
           ports == {p[2] : p \in mine}
<1>1. coRun.ports \subseteq CoPairs
  BY DEF ConnectionsTypeOK
<1>2. ports \in SUBSET Nat /\ ports # {}
  BY <1>1, ConnectionsAssumption DEF CoSeenIPs
<1>3. PICK n \in ports : \A m \in ports : n <= m
  <2> HIDE DEF ports
  <2> QED
    BY <1>2, LeastOf
<1>4. PICK p \in coRun.ports : p[1] = coRun.ip /\ p[2] = n
  OBVIOUS
<1>5. <<coRun.ip, n>> = p /\ n \in CoPorts
  BY <1>1, <1>4, ConnectionsAssumption DEF CoPorts
<1>6. \A r \in coRun.ports : r[1] = coRun.ip => n <= r[2]
  BY <1>3
<1>7. <<coRun.ip, CoAlertPort>> \in coRun.ports
  BY <1>4, <1>5, <1>6 DEF CoAlertPort
<1> QED
  BY <1>1, <1>7

\* What r goes on to: the next pair or the count, or the end.
LEMMA GoesOn ==
  ASSUME NEW r, CoGoesOn(r)
  PROVE  \/ coRun' = r /\ PassGoesOn
         \/ /\ coRun' = [CoIdle EXCEPT !.ports = r.ports, !.at = r.at]
            /\ r.pc = "count" /\ r.ips = {} /\ PassEnds
  BY DEF CoGoesOn, CoOver

\* The invariant of the connections holds at first.
LEMMA ConnectionsInvInit ==
  ASSUME PassesTypeOK, ConnectionsInit
  PROVE  ConnectionsInv
<1>0. 0 \in MoTimes /\ NotYet \in MoStamps /\ moNow \in Nat /\ NotYet = -1
  BY MonitorsAssumption DEF MoTimes, MoStamps, PassesTypeOK, NotYet
<1>1. ConnectionsTypeOK
  BY <1>0, ConnectionsAssumption
  DEF ConnectionsInit, ConnectionsTypeOK, CoIdle, CoSteps, CoCategories
<1>2. coRun.at = 0 /\ coRun.pc = "asleep" /\ coRun.ports = {} /\ Len(coTold) = 0
  BY DEF ConnectionsInit, CoIdle
<1>3. coTold = <<>> /\ \A p \in CoPairs : coAlerted[p] = NotYet
  BY DEF ConnectionsInit
<1>4. KnownInv /\ ClockInv /\ ConnectionAlertsSpaced
  BY <1>0, <1>2, <1>3 DEF KnownInv, ClockInv, ConnectionAlertsSpaced
<1>5. PassInv
  BY <1>0, <1>2, <1>3 DEF PassInv, CoAtAddress, CoAfterAlert
<1> QED
  BY <1>1, <1>4, <1>5 DEF ConnectionsInv

-----------------------------------------------------------------------------
(* Connections: the steps *)

\* The types of what a pass and its alerts consist of.
LEMMA ConnectionsTypes ==
  ASSUME PassesTypeOK, ConnectionsTypeOK
  PROVE  /\ coRun \in CoRuns
         /\ coRun.at \in Nat /\ coRun.at \in MoTimes /\ coRun.pc \in CoSteps
         /\ coRun.pairs \subseteq CoPairs /\ coRun.ips \subseteq CoIPs
         /\ coRun.ports \subseteq CoPairs
         /\ moNow \in Nat /\ moNow \in MoTimes
         /\ 0 \in MoTimes /\ NotYet = -1
         /\ CoCooldown \in Nat
         /\ Len(coTold) \in Nat
         /\ \A p \in CoPairs : coAlerted[p] \in Int
         /\ \A i \in 1 .. Len(coTold) :
              coTold[i] \in [ip : CoIPs, at : MoTimes, recorded : BOOLEAN]
                /\ coTold[i].at \in Nat /\ coTold[i].recorded \in BOOLEAN
<1>1. coRun \in CoRuns
  BY DEF ConnectionsTypeOK, CoRuns
<1>2. /\ MoTimes \subseteq Nat /\ MoStamps \subseteq Int /\ 0 \in MoTimes
      /\ NotYet = -1 /\ moNow \in MoTimes
  BY MonitorsAssumption DEF PassesTypeOK, MoTimes, MoStamps, NotYet
<1>3. \A p \in CoPairs : coAlerted[p] \in Int
  BY <1>2 DEF ConnectionsTypeOK
<1>4. /\ Len(coTold) \in Nat
      /\ \A i \in 1 .. Len(coTold) :
           coTold[i] \in [ip : CoIPs, at : MoTimes, recorded : BOOLEAN]
  <2>1. coTold \in Seq([ip : CoIPs, at : MoTimes, recorded : BOOLEAN])
    BY DEF ConnectionsTypeOK
  <2> QED
    BY <2>1, ElementOfSeq, LenProperties
<1> QED
  BY <1>1, <1>2, <1>3, <1>4, ConnectionsAssumption DEF CoRuns

\* A pass that is over is of its type.
LEMMA CoIdleType ==
  ASSUME PassesTypeOK, NEW ports \in SUBSET CoPairs, NEW at \in MoTimes
  PROVE  /\ [CoIdle EXCEPT !.ports = ports, !.at = at] \in CoRuns
         /\ CoIdle \in CoRuns
         /\ [CoIdle EXCEPT !.ports = ports, !.at = at].pc = "asleep"
         /\ CoIdle.pc = "asleep"
<1>1. 0 \in MoTimes
  BY MonitorsAssumption DEF MoTimes
<1>2. CoIdle \in CoRuns /\ CoIdle.pc = "asleep"
  BY <1>1 DEF CoIdle, CoRuns, CoSteps, CoCategories
<1> QED
  BY <1>2 DEF CoRuns

\* One that goes on to its next pair is, too.
LEMMA CoNextPairType ==
  ASSUME NEW r \in CoRuns
  PROVE  /\ CoNextPair(r) \in CoRuns
         /\ CoNextPair(r).pc = IF r.pairs = {} THEN "count" ELSE "record"
  BY DEF CoNextPair, CoRuns, CoSteps

\* So is one that goes on or is over.
LEMMA GoesOnType ==
  ASSUME PassesTypeOK, NEW r \in CoRuns, CoGoesOn(r)
  PROVE  coRun' \in CoRuns
<1>1. r.ports \in SUBSET CoPairs /\ r.at \in MoTimes
  BY DEF CoRuns
<1>2. CASE coRun' = r
  BY <1>2
<1>3. CASE coRun' = [CoIdle EXCEPT !.ports = r.ports, !.at = r.at]
  BY <1>1, <1>3, CoIdleType
<1> QED
  BY <1>2, <1>3, GoesOn

\* Each step of a pass keeps the type of what collect knows.
LEMMA CoRunStep ==
  ASSUME PassesTypeOK, ConnectionsInv, ConnectionsNext
  PROVE  coRun' \in CoRuns
<1>0. /\ coRun \in CoRuns /\ moNow \in MoTimes
      /\ CoIdle \in CoRuns /\ coRun.pairs \subseteq CoPairs
  BY ConnectionsTypes, CoIdleType DEF ConnectionsInv, CoRuns
<1>1. CASE CoBegin
  BY <1>0, <1>1 DEF CoBegin, CoRuns, CoSteps
<1>2. CASE CoSeen
  <2>1. PICK pairs \in SUBSET CoPairs :
          CoGoesOn(CoNextPair(
            [coRun EXCEPT !.pairs = {p \in pairs : p[1] \notin CoWhitelist}]))
    BY <1>2 DEF CoSeen
  <2>2. [coRun EXCEPT !.pairs = {p \in pairs : p[1] \notin CoWhitelist}]
          \in CoRuns
    BY <1>0 DEF CoRuns
  <2> QED
    BY <2>1, <2>2, CoNextPairType, GoesOnType
<1>3. CASE \E p \in CoPairs : CoRecorded(p)
  <2>1. PICK p \in CoPairs :
          coRun' = CoNextPair([coRun EXCEPT !.pairs = @ \ {p},
                                 !.ips = @ \union {p[1]},
                                 !.ports = @ \union {p}])
    BY <1>3 DEF CoRecorded
  <2>2. [coRun EXCEPT !.pairs = @ \ {p}, !.ips = @ \union {p[1]},
                      !.ports = @ \union {p}] \in CoRuns
    BY <1>0 DEF CoRuns, CoIPs
  <2> QED
    BY <2>1, <2>2, CoNextPairType
<1>4. CASE \E ip \in CoIPs : CoCounted(ip)
  <2>1. PICK ip \in CoIPs :
          LET r == [coRun EXCEPT !.ips = @ \ {ip}, !.ip = ip] IN
          CoGoesOn(IF CoReaches(ip) THEN [r EXCEPT !.pc = "cooldown"] ELSE r)
    BY <1>4 DEF CoCounted
  <2>2. LET r == [coRun EXCEPT !.ips = @ \ {ip}, !.ip = ip] IN
        (IF CoReaches(ip) THEN [r EXCEPT !.pc = "cooldown"] ELSE r) \in CoRuns
    BY <1>0 DEF CoRuns, CoSteps
  <2> QED
    BY <2>1, <2>2, GoesOnType
<1>5. CASE CoChecked
  <2>1. [coRun EXCEPT !.pc = IF CoCooled(coRun.ip) THEN "classify"
                             ELSE "count"] \in CoRuns
    BY <1>0 DEF CoRuns, CoSteps
  <2> QED
    BY <1>5, <2>1, GoesOnType DEF CoChecked
<1>6. CASE CoClassified
  <2>1. PICK n : coRun' = [coRun EXCEPT !.category = CoCategory(n),
                                        !.pc = "publish"]
    BY <1>6 DEF CoClassified
  <2>2. CoCategory(n) \in CoCategories
    BY DEF CoCategory, CoCategories
  <2> QED
    BY <1>0, <2>1, <2>2 DEF CoRuns, CoSteps
<1>7. CASE CoPublished \/ CoStored
  BY <1>0, <1>7 DEF CoPublished, CoStored, CoGoto, CoRuns, CoSteps
<1>8. CASE CoUpserted
  <2>1. [coRun EXCEPT !.pc = "count"] \in CoRuns
    BY <1>0 DEF CoRuns, CoSteps
  <2> QED
    BY <1>8, <2>1, GoesOnType DEF CoUpserted
<1>9. CASE CoRaises
  BY <1>0, <1>9 DEF CoRaises
<1> QED
  BY <1>1, <1>2, <1>3, <1>4, <1>5, <1>6, <1>7, <1>8, <1>9 DEF ConnectionsNext

\* Each step of a pass keeps the types.
LEMMA ConnectionsTypesStep ==
  ASSUME PassesTypeOK, ConnectionsInv, ConnectionsNext
  PROVE  ConnectionsTypeOK'
<1>0. ConnectionsTypeOK /\ PassInv /\ coRun' \in CoRuns
  BY CoRunStep DEF ConnectionsInv
<1>1. coRun' \in [pc : CoSteps, pairs : SUBSET CoPairs, ips : SUBSET CoIPs,
                  ip : CoIPs \union {Nobody}, ports : SUBSET CoPairs,
                  at : MoTimes, category : CoCategories]
  BY <1>0 DEF CoRuns
<1>2. CASE UNCHANGED <<coRows, coAlerted, coTold>>
  BY <1>0, <1>1, <1>2 DEF ConnectionsTypeOK
<1>3. CASE \E p \in CoPairs : CoRecorded(p)
  <2>1. PICK p \in CoPairs : CoRecorded(p)
    BY <1>3
  <2>2. [ip |-> p[1], port |-> p[2], at |-> coRun.at]
          \in [ip : CoIPs, port : CoPorts, at : MoTimes]
    BY <1>0, ConnectionsTypes DEF CoIPs, CoPorts
  <2>3. coRows' \in Seq([ip : CoIPs, port : CoPorts, at : MoTimes])
          /\ Len(coRows') = Len(coRows) + 1
    BY <1>0, <2>1, <2>2, AppendProperties DEF CoRecorded, ConnectionsTypeOK
  <2>4. Cardinality(coRun.pairs) \in Nat /\ Cardinality(coRun.pairs) >= 1
    <3>1. IsFiniteSet(coRun.pairs)
      BY <1>0, ConnectionsTypes, ConnectionsAssumption, FS_Subset
    <3>2. Cardinality(coRun.pairs) \in Nat /\ Cardinality(coRun.pairs) # 0
      BY <2>1, <3>1, FS_CardinalityType, FS_EmptySet DEF CoRecorded
    <3> QED
      BY <3>2
  <2>5. Len(coRows) + Cardinality(coRun.pairs) <= CoMaxRows
    BY <1>0, <2>1 DEF PassInv, CoRecorded, CoAt
  <2>6. Len(coRows') <= CoMaxRows
    BY <1>0, <2>3, <2>4, <2>5, ConnectionsAssumption DEF ConnectionsTypeOK
  <2> QED
    BY <1>0, <1>1, <2>1, <2>3, <2>6 DEF ConnectionsTypeOK, CoRecorded
<1>4. CASE CoPublished
  <2>1. [ip |-> coRun.ip, at |-> coRun.at, recorded |-> FALSE]
          \in [ip : CoIPs, at : MoTimes, recorded : BOOLEAN]
    <3>1. coRun.ip \in CoSeenIPs
      BY <1>0, <1>4 DEF CoPublished, CoAt, PassInv, CoAtAddress
    <3> QED
      BY <1>0, <3>1, ConnectionsTypes DEF CoSeenIPs, CoIPs
  <2>2. coTold' \in Seq([ip : CoIPs, at : MoTimes, recorded : BOOLEAN])
    BY <1>0, <1>4, <2>1, AppendProperties DEF CoPublished, ConnectionsTypeOK
  <2> QED
    BY <1>0, <1>1, <1>4, <2>2 DEF ConnectionsTypeOK, CoPublished
<1>5. CASE CoUpserted
  <2>1. coAlerted' \in [CoPairs -> MoStamps]
    BY <1>0, <1>5, ConnectionsTypes
    DEF CoUpserted, ConnectionsTypeOK, MoStamps
  <2>2. coTold' \in Seq([ip : CoIPs, at : MoTimes, recorded : BOOLEAN])
    <3>1. Len(coTold) \in 1 .. Len(coTold)
      BY <1>0, <1>5, ConnectionsTypes
      DEF CoUpserted, CoAt, PassInv, CoAfterAlert, ConnectionsTypeOK
    <3>2. [coTold[Len(coTold)] EXCEPT !.recorded = TRUE]
            \in [ip : CoIPs, at : MoTimes, recorded : BOOLEAN]
      BY <1>0, <3>1, ConnectionsTypes
    <3> QED
      BY <1>0, <1>5, <3>1, <3>2, ExceptSeq
      DEF CoUpserted, ConnectionsTypeOK
  <2> QED
    BY <1>0, <1>1, <1>5, <2>1, <2>2 DEF ConnectionsTypeOK, CoUpserted
<1> QED
  BY <1>2, <1>3, <1>4, <1>5
  DEF ConnectionsNext, CoBegin, CoSeen, CoCounted, CoChecked, CoClassified,
      CoStored, CoRaises

-----------------------------------------------------------------------------
(* Connections: what is told, and when *)

\* An alert is appended, and all others stay.
LEMMA ToldByPublishing ==
  ASSUME PassesTypeOK, ConnectionsTypeOK, PassInv, CoPublished
  PROVE  /\ Len(coTold') = Len(coTold) + 1 /\ Len(coTold) \in Nat
         /\ \A i \in 1 .. Len(coTold) : coTold'[i] = coTold[i]
         /\ coTold'[Len(coTold')] =
              [ip |-> coRun.ip, at |-> coRun.at, recorded |-> FALSE]
<1> DEFINE alert == [ip |-> coRun.ip, at |-> coRun.at, recorded |-> FALSE]
           S == [ip : CoIPs, at : MoTimes, recorded : BOOLEAN]
<1>1. coTold \in Seq(S) /\ alert \in S
  <2>1. coRun.ip \in CoSeenIPs
    BY DEF CoPublished, CoAt, PassInv, CoAtAddress
  <2>2. coRun.ip \in CoIPs /\ coRun.at \in MoTimes
    BY <2>1, ConnectionsTypes DEF CoSeenIPs, CoIPs
  <2> QED
    BY <2>2 DEF ConnectionsTypeOK
<1>2. coTold' = Append(coTold, alert)
  BY DEF CoPublished
<1>3. Len(coTold) \in Nat
  BY <1>1, LenProperties
<1> HIDE DEF S, alert
<1>4. /\ Len(coTold') = Len(coTold) + 1
      /\ \A i \in 1 .. Len(coTold) : coTold'[i] = coTold[i]
      /\ coTold'[Len(coTold) + 1] = alert
  BY <1>1, <1>2, AppendProperties
<1> QED
  BY <1>3, <1>4 DEF alert

\* The last alert becomes a recorded one.
LEMMA ToldByUpserting ==
  ASSUME PassesTypeOK, ConnectionsTypeOK, PassInv, CoUpserted
  PROVE  /\ Len(coTold') = Len(coTold)
         /\ Len(coTold) \in 1 .. Len(coTold)
         /\ \A i \in 1 .. Len(coTold) :
              /\ coTold'[i].ip = coTold[i].ip
              /\ coTold'[i].at = coTold[i].at
              /\ coTold'[i].recorded = (coTold[i].recorded \/ i = Len(coTold))
<1> DEFINE n == Len(coTold)
           S == [ip : CoIPs, at : MoTimes, recorded : BOOLEAN]
           e == [coTold[n] EXCEPT !.recorded = TRUE]
<1>1. coTold \in Seq(S) /\ n \in 1 .. n
  BY ConnectionsTypes
  DEF CoUpserted, CoAt, PassInv, CoAfterAlert, ConnectionsTypeOK
<1>2. /\ e \in S /\ e.ip = coTold[n].ip /\ e.at = coTold[n].at
      /\ e.recorded = TRUE
  BY <1>1, ConnectionsTypes
<1>3. coTold' = [coTold EXCEPT ![n] = e]
  BY DEF CoUpserted
<1>4. \A i \in 1 .. n : coTold[i].recorded \in BOOLEAN
  BY ConnectionsTypes
<1> HIDE DEF S, e
<1>5. /\ Len(coTold') = n
      /\ \A i \in 1 .. n : coTold'[i] = IF i = n THEN e ELSE coTold[i]
  BY <1>1, <1>2, <1>3, ExceptSeq
<1> QED
  BY <1>1, <1>2, <1>4, <1>5

\* The table knows the alert from now on.
LEMMA KnownByUpserting ==
  ASSUME PassesTypeOK, ConnectionsTypeOK, PassInv, CoUpserted
  PROVE  \E q \in CoPairs :
           /\ q[1] = coRun.ip /\ coAlerted'[q] = coRun.at
           /\ \A p \in CoPairs : p # q => coAlerted'[p] = coAlerted[p]
<1>1. coRun.ip \in CoSeenIPs
  BY DEF CoUpserted, CoAt, PassInv, CoAtAddress
<1> QED
  BY <1>1, AlertPortWasSeen DEF CoUpserted, ConnectionsTypeOK

\* When all other steps are taken, alerts stay as they are.
LEMMA ToldOtherwise ==
  ASSUME ConnectionsNext, ~CoPublished, ~CoUpserted
  PROVE  UNCHANGED <<coTold, coAlerted>>
  BY DEF ConnectionsNext, CoBegin, CoSeen, CoRecorded, CoCounted, CoChecked,
         CoClassified, CoStored, CoRaises

\* A pass keeps its time, and begins at the present.
LEMMA PassTime ==
  ASSUME PassesTypeOK, ConnectionsTypeOK, ConnectionsNext
  PROVE  \/ coRun'.at = coRun.at /\ coRun.pc # "asleep"
         \/ coRun'.at = moNow
         \/ coRun'.at = 0 /\ coRun'.pc = "asleep"
<1>0. coRun \in CoRuns
  BY ConnectionsTypes
<1>1. CASE CoBegin
  BY <1>1, MonitorsAssumption DEF CoBegin, CoIdle
<1>2. CASE CoRaises
  BY <1>2 DEF CoRaises, CoIdle
<1> DEFINE kept == coRun'.at = coRun.at
<1>3. CASE CoSeen
  <2>1. PICK pairs \in SUBSET CoPairs :
          CoGoesOn(CoNextPair(
            [coRun EXCEPT !.pairs = {p \in pairs : p[1] \notin CoWhitelist}]))
    BY <1>3 DEF CoSeen
  <2>2. CoNextPair(
          [coRun EXCEPT !.pairs = {p \in pairs : p[1] \notin CoWhitelist}]).at
            = coRun.at
    BY <1>0 DEF CoNextPair, CoRuns
  <2> QED
    BY <1>3, <2>1, <2>2, GoesOn DEF CoSeen, CoAt, CoIdle
<1>4. CASE \E p \in CoPairs : CoRecorded(p)
  BY <1>0, <1>4 DEF CoRecorded, CoAt, CoNextPair, CoRuns
<1>5. CASE \E ip \in CoIPs : CoCounted(ip)
  <2>1. PICK ip \in CoIPs : CoCounted(ip)
    BY <1>5
  <2>2. PICK r : r.at = coRun.at /\ CoGoesOn(r)
    BY <1>0, <2>1 DEF CoCounted, CoRuns
  <2> QED
    BY <2>1, <2>2, GoesOn DEF CoCounted, CoAt, CoIdle
<1>6. CASE CoChecked
  <2>1. PICK r : r.at = coRun.at /\ CoGoesOn(r)
    BY <1>0, <1>6 DEF CoChecked, CoRuns
  <2> QED
    BY <1>6, <2>1, GoesOn DEF CoChecked, CoAt, CoIdle
<1>7. CASE CoClassified \/ CoPublished \/ CoStored
  BY <1>0, <1>7
  DEF CoClassified, CoPublished, CoStored, CoGoto, CoAt, CoRuns
<1>8. CASE CoUpserted
  <2>1. PICK r : r.at = coRun.at /\ CoGoesOn(r)
    BY <1>0, <1>8 DEF CoUpserted, CoRuns
  <2> QED
    BY <1>8, <2>1, GoesOn DEF CoUpserted, CoAt, CoIdle
<1> QED
  BY <1>1, <1>2, <1>3, <1>4, <1>5, <1>6, <1>7, <1>8 DEF ConnectionsNext

\* The record of an alert is made in its pass.
LEMMA UpsertedTime ==
  ASSUME PassesTypeOK, ConnectionsTypeOK, CoUpserted
  PROVE  coRun'.at = coRun.at
<1>0. coRun \in CoRuns
  BY ConnectionsTypes
<1>1. PICK r : r.at = coRun.at /\ CoGoesOn(r)
  BY <1>0 DEF CoUpserted, CoRuns
<1>2. [CoIdle EXCEPT !.ports = r.ports, !.at = r.at].at = r.at
  BY DEF CoIdle
<1> QED
  BY <1>1, <1>2, GoesOn

\* Each step of a pass keeps what holds of the table, of times and of alerts.
LEMMA ToldInvStep ==
  ASSUME PassesTypeOK, ConnectionsInv, ConnectionsNext
  PROVE  KnownInv' /\ ClockInv' /\ ConnectionAlertsSpaced'
<1>0. /\ ConnectionsTypeOK /\ KnownInv /\ ClockInv /\ PassInv
      /\ ConnectionAlertsSpaced /\ moNow' = moNow
  BY ConnectionsPass, PassStepTypes DEF ConnectionsInv
<1>1. /\ coRun.at \in Nat /\ moNow \in Nat /\ NotYet = -1
      /\ CoCooldown \in Nat /\ Len(coTold) \in Nat
      /\ \A p \in CoPairs : coAlerted[p] \in Int
      /\ \A i \in 1 .. Len(coTold) :
           coTold[i].at \in Nat /\ coTold[i].recorded \in BOOLEAN
  BY <1>0, ConnectionsTypes
<1>2. \/ coRun'.at = coRun.at /\ coRun.pc # "asleep"
      \/ coRun'.at = moNow
      \/ coRun'.at = 0 /\ coRun'.pc = "asleep"
  BY <1>0, PassTime
<1>3. CASE ~CoPublished /\ ~CoUpserted
  BY <1>0, <1>1, <1>2, <1>3, ToldOtherwise
  DEF KnownInv, ClockInv, ConnectionAlertsSpaced
<1>4. CASE CoPublished
  <2>1. coRun' = [coRun EXCEPT !.pc = "store"] /\ coAlerted' = coAlerted
          /\ coRun.pc = "publish" /\ coRun'.at = coRun.at
    BY <1>0, <1>4, ConnectionsTypes DEF CoPublished, CoGoto, CoAt, CoRuns
  <2>2. /\ Len(coTold') = Len(coTold) + 1
        /\ \A i \in 1 .. Len(coTold) : coTold'[i] = coTold[i]
        /\ coTold'[Len(coTold')] =
             [ip |-> coRun.ip, at |-> coRun.at, recorded |-> FALSE]
    BY <1>0, <1>4, ToldByPublishing
  <2>3. KnownInv'
    <3>1. ASSUME NEW i \in 1 .. Len(coTold'), coTold'[i].recorded
          PROVE  \E p \in CoPairs :
                   p[1] = coTold'[i].ip /\ coAlerted'[p] >= coTold'[i].at
      <4>1. i \in 1 .. Len(coTold)
        BY <1>1, <2>2, <3>1
      <4> QED
        BY <1>0, <2>1, <2>2, <3>1, <4>1 DEF KnownInv
    <3>2. ASSUME NEW p \in CoPairs, coAlerted'[p] # NotYet
          PROVE  \E i \in 1 .. Len(coTold') :
                   coTold'[i].ip = p[1] /\ coTold'[i].at = coAlerted'[p]
      <4>1. PICK i \in 1 .. Len(coTold) :
              coTold[i].ip = p[1] /\ coTold[i].at = coAlerted[p]
        BY <1>0, <2>1, <3>2 DEF KnownInv
      <4>2. i \in 1 .. Len(coTold')
        BY <1>1, <2>2
      <4> QED
        BY <2>1, <2>2, <4>1, <4>2
    <3> QED
      BY <3>1, <3>2 DEF KnownInv
  <2>4. ClockInv'
    BY <1>0, <1>1, <2>1, <2>2 DEF ClockInv
  <2>5. ConnectionAlertsSpaced'
    <3> SUFFICES ASSUME NEW i \in 1 .. Len(coTold'),
                        NEW j \in 1 .. Len(coTold'),
                        i < j, coTold'[i].ip = coTold'[j].ip,
                        coTold'[i].recorded
                 PROVE  coTold'[j].at - coTold'[i].at >= CoCooldown
      BY DEF ConnectionAlertsSpaced
    <3>1. i \in 1 .. Len(coTold) /\ coTold'[i] = coTold[i]
      BY <1>1, <2>2
    <3>2. CASE j \in 1 .. Len(coTold)
      BY <1>0, <2>2, <3>1, <3>2 DEF ConnectionAlertsSpaced
    <3>3. CASE j = Len(coTold')
      <4>1. PICK p \in CoPairs :
              p[1] = coTold[i].ip /\ coAlerted[p] >= coTold[i].at
        BY <1>0, <3>1 DEF KnownInv
      <4>2. coAlerted[p] = NotYet \/ coAlerted[p] <= coRun.at - CoCooldown
        BY <1>0, <2>1, <2>2, <3>1, <3>3, <4>1 DEF PassInv
      <4> QED
        BY <1>1, <2>2, <3>1, <3>3, <4>1, <4>2
    <3>4. j \in 1 .. Len(coTold) \/ j = Len(coTold')
      BY <1>1, <2>2
    <3> QED
      BY <3>2, <3>3, <3>4
  <2> QED
    BY <2>3, <2>4, <2>5
<1>5. CASE CoUpserted
  <2>1. coRun.pc = "upsert" /\ coTold[Len(coTold)].ip = coRun.ip
          /\ coTold[Len(coTold)].at = coRun.at
    BY <1>0, <1>5 DEF CoUpserted, CoAt, PassInv, CoAfterAlert
  <2>2. /\ Len(coTold') = Len(coTold) /\ Len(coTold) \in 1 .. Len(coTold)
        /\ \A i \in 1 .. Len(coTold) :
             /\ coTold'[i].ip = coTold[i].ip
             /\ coTold'[i].at = coTold[i].at
             /\ coTold'[i].recorded = (coTold[i].recorded \/ i = Len(coTold))
    BY <1>0, <1>5, ToldByUpserting
  <2>3. PICK q \in CoPairs :
          /\ q[1] = coRun.ip /\ coAlerted'[q] = coRun.at
          /\ \A p \in CoPairs : p # q => coAlerted'[p] = coAlerted[p]
    BY <1>0, <1>5, KnownByUpserting
  <2>4. coRun'.at = coRun.at
    BY <1>0, <1>5, UpsertedTime
  <2>5. KnownInv'
    <3>1. ASSUME NEW i \in 1 .. Len(coTold'), coTold'[i].recorded
          PROVE  \E p \in CoPairs :
                   p[1] = coTold'[i].ip /\ coAlerted'[p] >= coTold'[i].at
      <4>1. CASE i = Len(coTold)
        BY <1>1, <2>1, <2>2, <2>3, <4>1
      <4>2. CASE coTold[i].recorded
        <5>1. PICK p \in CoPairs :
                p[1] = coTold[i].ip /\ coAlerted[p] >= coTold[i].at
          BY <1>0, <2>2, <4>2 DEF KnownInv
        <5>2. coAlerted'[p] >= coTold[i].at
          <6>1. coTold[i].at <= coRun.at
            BY <1>0, <2>1, <2>2 DEF ClockInv
          <6> QED
            BY <1>1, <2>2, <2>3, <5>1, <6>1
        <5> QED
          BY <2>2, <5>1, <5>2
      <4> QED
        BY <2>2, <3>1, <4>1, <4>2
    <3>2. ASSUME NEW p \in CoPairs, coAlerted'[p] # NotYet
          PROVE  \E i \in 1 .. Len(coTold') :
                   coTold'[i].ip = p[1] /\ coTold'[i].at = coAlerted'[p]
      <4>1. CASE p = q
        BY <2>1, <2>2, <2>3, <4>1
      <4>2. CASE p # q
        BY <1>0, <2>2, <2>3, <3>2, <4>2 DEF KnownInv
      <4> QED
        BY <4>1, <4>2
    <3> QED
      BY <3>1, <3>2 DEF KnownInv
  <2>6. ClockInv'
    BY <1>0, <1>1, <2>1, <2>2, <2>3, <2>4 DEF ClockInv
  <2>7. ConnectionAlertsSpaced'
    BY <1>0, <1>1, <2>2 DEF ConnectionAlertsSpaced
  <2> QED
    BY <2>5, <2>6, <2>7
<1> QED
  BY <1>3, <1>4, <1>5

-----------------------------------------------------------------------------
(* Connections: where a pass stands *)

\* Whoever is dealt with stays so until the pass has new attempts.
LEMMA DealtWithStays ==
  ASSUME PassesTypeOK, ConnectionsInv, ConnectionsNext, coRows' = coRows,
         coRun'.at = coRun.at, NEW ip, CoDealtWith(ip)
  PROVE  CoDealtWith(ip)'
<1>0. ConnectionsTypeOK /\ PassInv /\ Len(coTold) \in Nat
  BY ConnectionsTypes DEF ConnectionsInv
<1>1. CoReaches(ip)' = CoReaches(ip)
  BY DEF CoReaches, CoAttempts, CoRowsSince
<1>2. ASSUME NEW i \in 1 .. Len(coTold)
      PROVE  /\ i \in 1 .. Len(coTold')
             /\ coTold'[i].ip = coTold[i].ip /\ coTold'[i].at = coTold[i].at
  <2>1. CASE CoPublished
    <3>1. Len(coTold') = Len(coTold) + 1 /\ coTold'[i] = coTold[i]
      BY <1>0, <2>1, ToldByPublishing
    <3> QED
      BY <1>0, <3>1
  <2>2. CASE CoUpserted
    BY <1>0, <2>2, ToldByUpserting
  <2>3. CASE ~CoPublished /\ ~CoUpserted
    BY <2>3, ToldOtherwise
  <2> QED
    BY <2>1, <2>2, <2>3
<1> QED
  BY <1>1, <1>2 DEF CoDealtWith

\* Each step of a pass keeps what holds of where it stands.
LEMMA PassInvStep ==
  ASSUME PassesTypeOK, ConnectionsInv, ConnectionsNext
  PROVE  PassInv'
<1>0. /\ ConnectionsTypeOK /\ KnownInv /\ ClockInv /\ PassInv
      /\ coRun \in CoRuns /\ coRun' \in CoRuns
      /\ coRun.at \in Nat /\ NotYet = -1 /\ CoCooldown \in Nat
      /\ \A p \in CoPairs : coAlerted[p] \in Int
      /\ \A p \in CoPairs : p[1] \in CoIPs
  BY ConnectionsTypes, CoRunStep DEF ConnectionsInv, CoIPs
<1>1. CASE CoBegin
  <2>1. coRun'.pc = "ss" /\ coRun'.ports = {} /\ coRun'.ips = {}
    BY <1>1 DEF CoBegin, CoIdle
  <2> QED
    BY <2>1 DEF PassInv, CoAtAddress, CoAfterAlert
<1>2. CASE CoSeen
  <2>1. PICK pairs \in SUBSET CoPairs :
          /\ Len(coRows) + Cardinality(pairs) <= CoMaxRows
          /\ CoGoesOn(CoNextPair(
               [coRun EXCEPT !.pairs = {p \in pairs : p[1] \notin CoWhitelist}]))
    BY <1>2 DEF CoSeen
  <2> DEFINE rest == {p \in pairs : p[1] \notin CoWhitelist}
             r == CoNextPair([coRun EXCEPT !.pairs = rest])
  <2>2. /\ r.pc \in {"record", "count"} /\ r.pairs = rest
        /\ r.ports = {} /\ r.ips = {}
    BY <1>0, <1>2 DEF CoNextPair, CoSeen, CoAt, PassInv, CoRuns
  <2>3. Cardinality(rest) <= Cardinality(pairs) /\ Cardinality(rest) \in Nat
          /\ Cardinality(pairs) \in Nat
    <3>1. IsFiniteSet(pairs) /\ rest \subseteq pairs
      BY ConnectionsAssumption, FS_Subset
    <3> HIDE DEF rest
    <3> QED
      BY <3>1, FS_Subset, FS_CardinalityType
  <2>4. Len(coRows) \in Nat /\ coRows' = coRows
    BY <1>0, <1>2, LenProperties DEF ConnectionsTypeOK, CoSeen
  <2>5. Len(coRows) + Cardinality(rest) <= CoMaxRows
    BY <2>1, <2>3, <2>4, ConnectionsAssumption
  <2> HIDE DEF r, rest
  <2>6. CASE coRun' = r
    BY <2>2, <2>4, <2>5, <2>6 DEF PassInv, CoAtAddress, CoAfterAlert, CoSeenIPs
  <2>7. CASE coRun' = [CoIdle EXCEPT !.ports = r.ports, !.at = r.at]
    <3>1. coRun'.pc = "asleep" /\ coRun'.ports = {}
      BY <2>2, <2>7 DEF CoIdle
    <3> QED
      BY <3>1 DEF PassInv, CoAtAddress, CoAfterAlert
  <2>8. CoGoesOn(r)
    BY <2>1 DEF r, rest
  <2> QED
    BY <2>6, <2>7, <2>8, GoesOn
<1>3. CASE \E p \in CoPairs : CoRecorded(p)
  <2>1. PICK p \in CoPairs : CoRecorded(p)
    BY <1>3
  <2>2. /\ coRun'.pc \in {"record", "count"}
        /\ coRun'.pairs = coRun.pairs \ {p}
        /\ coRun'.ips = coRun.ips \union {p[1]}
        /\ coRun'.ports = coRun.ports \union {p}
    BY <1>0, <2>1 DEF CoRecorded, CoNextPair, CoRuns
  <2>3. /\ coRun.pc = "record" /\ CoSeenIPs = coRun.ips
        /\ Len(coRows) + Cardinality(coRun.pairs) <= CoMaxRows
    BY <1>0, <2>1 DEF CoRecorded, CoAt, PassInv
  <2>4. CoSeenIPs' = coRun'.ips
    BY <2>2, <2>3 DEF CoSeenIPs
  <2>5. Len(coRows') + Cardinality(coRun'.pairs) <= CoMaxRows
    <3>1. IsFiniteSet(coRun.pairs)
      BY <1>0, ConnectionsTypes, ConnectionsAssumption, FS_Subset
    <3>2. Cardinality(coRun'.pairs) = Cardinality(coRun.pairs) - 1
            /\ Cardinality(coRun.pairs) \in Nat
      BY <2>1, <2>2, <3>1, FS_RemoveElement, FS_CardinalityType
      DEF CoRecorded
    <3>3. Len(coRows') = Len(coRows) + 1 /\ Len(coRows) \in Nat
      <4>1. [ip |-> p[1], port |-> p[2], at |-> coRun.at]
              \in [ip : CoIPs, port : CoPorts, at : MoTimes]
        BY <1>0, ConnectionsTypes DEF CoIPs, CoPorts
      <4> QED
        BY <1>0, <2>1, <4>1, AppendProperties, LenProperties
        DEF CoRecorded, ConnectionsTypeOK
    <3> QED
      BY <2>3, <3>2, <3>3, ConnectionsAssumption
  <2>6. \A q \in coRun'.ports : q[1] \in coRun'.ips
    BY <2>4 DEF CoSeenIPs
  <2> QED
    BY <2>2, <2>4, <2>5, <2>6 DEF PassInv, CoAtAddress, CoAfterAlert
<1>4. CASE \E ip \in CoIPs : CoCounted(ip)
  <2>1. PICK ip \in CoIPs : CoCounted(ip)
    BY <1>4
  <2>2. PICK r : /\ r = IF CoReaches(ip)
                        THEN [coRun EXCEPT !.ips = @ \ {ip}, !.ip = ip,
                                           !.pc = "cooldown"]
                        ELSE [coRun EXCEPT !.ips = @ \ {ip}, !.ip = ip]
                 /\ CoGoesOn(r)
    BY <2>1 DEF CoCounted
  <2>3. /\ coRun.pc = "count" /\ ip \in coRun.ips /\ ip \in CoSeenIPs
        /\ coRun.ips \subseteq CoSeenIPs /\ UNCHANGED <<coRows, coTold>>
    BY <1>0, <2>1 DEF CoCounted, CoAt, PassInv
  <2>4. /\ r.ips = coRun.ips \ {ip} /\ r.ip = ip /\ r.ports = coRun.ports
        /\ r.at = coRun.at
        /\ r.pc = IF CoReaches(ip) THEN "cooldown" ELSE "count"
    BY <1>0, <2>2, <2>3 DEF CoRuns
  <2>5. \A p \in coRun.ports :
          p[1] \in r.ips \/ p[1] = ip \/ CoDealtWith(p[1])
    BY <1>0, <2>3, <2>4 DEF PassInv, CoAtAddress
  <2>6. \A p \in coRun.ports :
          \/ p[1] \in r.ips
          \/ CoReaches(ip) /\ p[1] = ip
          \/ CoDealtWith(p[1])
    BY <2>5 DEF CoDealtWith
  <2>7. CASE coRun' = r
    <3>1. \A p \in coRun.ports : CoDealtWith(p[1]) => CoDealtWith(p[1])'
      BY <2>3, <2>4, <2>7, DealtWithStays
    <3>2. CoSeenIPs' = CoSeenIPs
      BY <2>4, <2>7 DEF CoSeenIPs
    <3> QED
      BY <2>3, <2>4, <2>6, <2>7, <3>1, <3>2
      DEF PassInv, CoAtAddress, CoAfterAlert
  <2>8. CASE /\ coRun' = [CoIdle EXCEPT !.ports = r.ports, !.at = r.at]
             /\ r.pc = "count" /\ r.ips = {}
    <3>1. coRun'.pc = "asleep" /\ coRun'.ports = r.ports
            /\ coRun'.at = coRun.at
      BY <2>4, <2>8 DEF CoIdle
    <3>2. \A p \in coRun.ports : CoDealtWith(p[1]) => CoDealtWith(p[1])'
      BY <2>3, <3>1, DealtWithStays
    <3>3. \A p \in coRun.ports : CoDealtWith(p[1])
      BY <2>4, <2>6, <2>8
    <3> QED
      BY <2>4, <3>1, <3>2, <3>3 DEF PassInv, CoAtAddress, CoAfterAlert
  <2> QED
    BY <2>2, <2>7, <2>8, GoesOn
<1>5. CASE CoChecked
  <2>1. PICK r : /\ r = [coRun EXCEPT !.pc = IF CoCooled(coRun.ip)
                                             THEN "classify" ELSE "count"]
                 /\ CoGoesOn(r)
    BY <1>5 DEF CoChecked
  <2>2. /\ coRun.pc = "cooldown" /\ coRun.ip \in CoSeenIPs
        /\ coRun.ips \subseteq CoSeenIPs
        /\ UNCHANGED <<coRows, coTold, coAlerted>>
    BY <1>0, <1>5 DEF CoChecked, CoAt, PassInv, CoAtAddress
  <2>3. PICK q \in CoPairs : q[1] = coRun.ip
    BY <1>0, <2>2, ConnectionsTypes DEF CoSeenIPs
  <2>4. PICK k \in CoPairs :
          k[1] = coRun.ip /\ coAlerted[k] = CoLastAlerted(coRun.ip)
    BY <1>0, <2>3, LastAlertedOfAddress
  <2>5. \A p \in CoPairs : p[1] = coRun.ip =>
          coAlerted[p] <= CoLastAlerted(coRun.ip)
    BY <1>0, <2>3, LastAlertedOfAddress
  <2>6. /\ r.ips = coRun.ips /\ r.ip = coRun.ip /\ r.ports = coRun.ports
        /\ r.at = coRun.at
        /\ r.pc = IF CoCooled(coRun.ip) THEN "classify" ELSE "count"
    BY <1>0, <2>1 DEF CoRuns
  <2>7. CoCooled(coRun.ip) => \A p \in CoPairs : p[1] = coRun.ip =>
          coAlerted[p] = NotYet \/ coAlerted[p] <= coRun.at - CoCooldown
    <3>1. \A p \in CoPairs : coAlerted[p] = NotYet \/ coAlerted[p] >= 0
      BY <1>0, MonitorsAssumption DEF ConnectionsTypeOK, MoStamps, MoTimes
    <3> QED
      BY <1>0, <2>4, <2>5, <3>1 DEF CoCooled
  <2>8. ~CoCooled(coRun.ip) => CoDealtWith(coRun.ip)
    <3> SUFFICES ASSUME ~CoCooled(coRun.ip) PROVE CoDealtWith(coRun.ip)
      OBVIOUS
    <3>1. coAlerted[k] # NotYet /\ coRun.at - coAlerted[k] < CoCooldown
      BY <1>0, <2>4 DEF CoCooled
    <3>2. PICK i \in 1 .. Len(coTold) :
            coTold[i].ip = k[1] /\ coTold[i].at = coAlerted[k]
      BY <1>0, <3>1 DEF KnownInv
    <3> QED
      BY <2>4, <3>1, <3>2 DEF CoDealtWith
  <2>9. \A p \in coRun.ports :
          \/ p[1] \in r.ips
          \/ r.pc = "classify" /\ p[1] = coRun.ip
          \/ CoDealtWith(p[1])
    BY <1>0, <2>2, <2>6, <2>8 DEF PassInv, CoAtAddress
  <2>10. coRun'.at = coRun.at =>
           \A p \in coRun.ports : CoDealtWith(p[1]) => CoDealtWith(p[1])'
    BY <2>2, DealtWithStays
  <2>11. CASE coRun' = r
    <3>1. CoSeenIPs' = CoSeenIPs
      BY <2>6, <2>11 DEF CoSeenIPs
    <3> QED
      BY <2>2, <2>6, <2>7, <2>9, <2>10, <2>11, <3>1
      DEF PassInv, CoAtAddress, CoAfterAlert
  <2>12. CASE /\ coRun' = [CoIdle EXCEPT !.ports = r.ports, !.at = r.at]
              /\ r.pc = "count" /\ r.ips = {}
    <3>1. coRun'.pc = "asleep" /\ coRun'.ports = r.ports
            /\ coRun'.at = coRun.at
      BY <2>6, <2>12 DEF CoIdle
    <3> QED
      BY <2>6, <2>9, <2>10, <2>12, <3>1 DEF PassInv, CoAtAddress, CoAfterAlert
  <2> QED
    BY <2>1, <2>11, <2>12, GoesOn
<1>6. CASE CoClassified \/ CoPublished \/ CoStored
  <2>1. /\ coRun'.ips = coRun.ips /\ coRun'.ip = coRun.ip
        /\ coRun'.ports = coRun.ports /\ coRun'.at = coRun.at
        /\ \/ coRun.pc = "classify" /\ coRun'.pc = "publish" /\ CoClassified
           \/ coRun.pc = "publish" /\ coRun'.pc = "store" /\ CoPublished
           \/ coRun.pc = "store" /\ coRun'.pc = "upsert" /\ CoStored
    BY <1>0, <1>6
    DEF CoClassified, CoPublished, CoStored, CoGoto, CoAt, CoRuns
  <2>2. UNCHANGED <<coRows, coAlerted>> /\ CoSeenIPs' = CoSeenIPs
    BY <1>6, <2>1 DEF CoClassified, CoPublished, CoStored, CoSeenIPs
  <2>3. \A p \in coRun.ports : CoDealtWith(p[1]) => CoDealtWith(p[1])'
    BY <2>1, <2>2, DealtWithStays
  <2>4. CoPublished => /\ coTold' # <<>>
                       /\ coTold'[Len(coTold')].ip = coRun.ip
                       /\ coTold'[Len(coTold')].at = coRun.at
    <3> SUFFICES ASSUME CoPublished
                 PROVE  /\ coTold' # <<>>
                        /\ coTold'[Len(coTold')].ip = coRun.ip
                        /\ coTold'[Len(coTold')].at = coRun.at
      OBVIOUS
    <3>1. Len(coTold') = Len(coTold) + 1 /\ Len(coTold) \in Nat
      BY <1>0, ToldByPublishing
    <3>2. coTold' # <<>>
      BY <3>1
    <3> QED
      BY <1>0, <3>2, ToldByPublishing
  <2>5. CoClassified \/ CoStored => coTold' = coTold
    BY DEF CoClassified, CoStored
  <2>6. coRun'.pc \in CoAtAddress /\ coRun.pc \in CoAtAddress
    BY <2>1 DEF CoAtAddress
  <2>7. \A p \in coRun.ports :
          p[1] \in coRun.ips \/ p[1] = coRun.ip \/ CoDealtWith(p[1])
    BY <1>0, <2>6 DEF PassInv
  <2>8. /\ coRun.ips \subseteq CoSeenIPs /\ coRun.ip \in CoSeenIPs
        /\ coRun.pc = "classify" => \A p \in CoPairs : p[1] = coRun.ip =>
             coAlerted[p] = NotYet \/ coAlerted[p] <= coRun.at - CoCooldown
        /\ coRun.pc = "store" => /\ coTold # <<>>
                                 /\ coTold[Len(coTold)].ip = coRun.ip
                                 /\ coTold[Len(coTold)].at = coRun.at
    BY <1>0, <2>1, <2>6 DEF PassInv, CoAfterAlert
  <2> QED
    BY <2>1, <2>2, <2>3, <2>4, <2>5, <2>6, <2>7, <2>8
    DEF PassInv, CoAfterAlert
<1>7. CASE CoUpserted
  <2>1. PICK r : r = [coRun EXCEPT !.pc = "count"] /\ CoGoesOn(r)
    BY <1>7 DEF CoUpserted
  <2>2. /\ r.ips = coRun.ips /\ r.ports = coRun.ports
        /\ r.at = coRun.at /\ r.pc = "count"
    BY <1>0, <2>1 DEF CoRuns
  <2>3. /\ coRun.pc = "upsert" /\ coRun.ips \subseteq CoSeenIPs
        /\ coTold[Len(coTold)].ip = coRun.ip
        /\ coTold[Len(coTold)].at = coRun.at
        /\ Len(coTold) \in 1 .. Len(coTold)
        /\ coRows' = coRows /\ coRun'.at = coRun.at
    BY <1>0, <1>7, ToldByUpserting, UpsertedTime
    DEF CoUpserted, CoAt, PassInv, CoAfterAlert
  <2>4. CoDealtWith(coRun.ip)
    BY <2>3 DEF CoDealtWith
  <2>5. \A p \in coRun.ports : p[1] \in r.ips \/ CoDealtWith(p[1])
    BY <1>0, <2>2, <2>3, <2>4 DEF PassInv, CoAtAddress
  <2>6. \A p \in coRun.ports : CoDealtWith(p[1]) => CoDealtWith(p[1])'
    BY <2>3, DealtWithStays
  <2>7. CASE coRun' = r
    <3>1. CoSeenIPs' = CoSeenIPs
      BY <2>2, <2>7 DEF CoSeenIPs
    <3> QED
      BY <2>2, <2>3, <2>5, <2>6, <2>7, <3>1
      DEF PassInv, CoAtAddress, CoAfterAlert
  <2>8. CASE /\ coRun' = [CoIdle EXCEPT !.ports = r.ports, !.at = r.at]
             /\ r.ips = {}
    <3>1. coRun'.pc = "asleep" /\ coRun'.ports = r.ports
      BY <2>8 DEF CoIdle
    <3> QED
      BY <2>2, <2>5, <2>6, <2>8, <3>1 DEF PassInv, CoAtAddress, CoAfterAlert
  <2> QED
    BY <2>1, <2>7, <2>8, GoesOn
<1>8. CASE CoRaises
  <2>1. coRun'.pc = "asleep" /\ coRun'.ports = {}
    BY <1>8 DEF CoRaises, CoIdle
  <2> QED
    BY <2>1 DEF PassInv, CoAtAddress, CoAfterAlert
<1> QED
  BY <1>1, <1>2, <1>3, <1>4, <1>5, <1>6, <1>7, <1>8 DEF ConnectionsNext

-----------------------------------------------------------------------------
(* Connections: the whole *)

\* A new process has no pass under way; its table stays.
LEMMA ConnectionsForgetStep ==
  ASSUME PassesTypeOK, ConnectionsInv, StartsPasses, CoForget
  PROVE  ConnectionsInv'
<1>0. ConnectionsTypeOK /\ moNow' = moNow /\ moNow \in Nat
  BY ConnectionsTypes DEF ConnectionsInv, StartsPasses
<1>1. /\ coRun' = CoIdle /\ UNCHANGED <<coRows, coAlerted, coTold>>
      /\ CoIdle.pc = "asleep" /\ CoIdle.at = 0 /\ CoIdle.ports = {}
  BY DEF CoForget, CoIdle
<1>2. CoIdle \in CoRuns
  BY <1>0, ConnectionsTypes, CoIdleType
<1>3. ConnectionsTypeOK'
  BY <1>1, <1>2 DEF ConnectionsInv, ConnectionsTypeOK, CoRuns
<1>4. KnownInv' /\ ClockInv' /\ ConnectionAlertsSpaced'
  BY <1>0, <1>1 DEF ConnectionsInv, KnownInv, ClockInv, ConnectionAlertsSpaced
<1>5. PassInv'
  BY <1>1 DEF PassInv, CoAtAddress, CoAfterAlert
<1> QED
  BY <1>3, <1>4, <1>5 DEF ConnectionsInv

\* What other monitors do, and time and stops, leave the connections as they
\* are.
LEMMA ConnectionsRest ==
  ASSUME PassesTypeOK, ConnectionsInv, UNCHANGED connectionVars,
         moNow' \in {moNow, moNow + 1}
  PROVE  ConnectionsInv'
<1>0. /\ UNCHANGED <<coRows, coAlerted, coRun, coTold>>
      /\ ConnectionsTypeOK /\ KnownInv /\ ClockInv /\ PassInv
      /\ ConnectionAlertsSpaced
  BY DEF connectionVars, ConnectionsInv
<1>1. /\ moNow \in Nat /\ coRun.at \in Nat
      /\ \A p \in CoPairs : coAlerted[p] \in Int
      /\ \A i \in 1 .. Len(coTold) : coTold[i].at \in Nat
  BY <1>0, ConnectionsTypes
<1>2. ConnectionsTypeOK' /\ KnownInv' /\ ConnectionAlertsSpaced'
  BY <1>0 DEF ConnectionsTypeOK, KnownInv, ConnectionAlertsSpaced
<1>3. ClockInv'
  BY <1>0, <1>1 DEF ClockInv
<1>4. PassInv'
  BY <1>0 DEF PassInv, CoSeenIPs, CoDealtWith, CoReaches, CoAttempts,
              CoRowsSince
<1> QED
  BY <1>2, <1>3, <1>4 DEF ConnectionsInv

\* Each step of any monitor keeps the invariant of the connections.
LEMMA ConnectionsInvStep ==
  ASSUME PassesTypeOK, MetricsTypeOK, ConnectionsInv, WatchNext
  PROVE  ConnectionsInv'
<1>1. CASE ConnectionsNext
  BY <1>1, ConnectionsTypesStep, ToldInvStep, PassInvStep DEF ConnectionsInv
<1>2. CASE UNCHANGED connectionVars
  BY <1>2, PassesKept, ConnectionsRest
<1>3. CASE StartsPasses /\ CoForget
  BY <1>3, ConnectionsForgetStep
<1> QED
  BY <1>1, <1>2, <1>3 DEF WatchNext, notMetrics, notFiles, notDirectories

\* The invariant implies what it is for.
LEMMA ConnectionsProperties ==
  ASSUME ConnectionsInv
  PROVE  ConnectionAlertsSpaced /\ AttemptsTold
<1>1. ASSUME coRun.pc \in {"asleep", "count"}, NEW p \in coRun.ports
      PROVE  p[1] \in coRun.ips \/ CoDealtWith(p[1])
  BY <1>1 DEF ConnectionsInv, PassInv, CoAtAddress
<1>2. AttemptsTold
  BY <1>1 DEF AttemptsTold, CoDealtWith
<1> QED
  BY <1>2 DEF ConnectionsInv

-----------------------------------------------------------------------------
(* Directories: the invariant *)

\* A change of p was handled while another one was being recorded.
Overlapped(p) ==
  \E e \in DcChanges : dcTask[e].path = p /\
    \E f \in dcTask[e].begun : dcTask[f].path = p

\* Nothing has happened that lets two alerts of p be close.
Apart(p) == moStops = 0 /\ ~Overlapped(p)

DcWaiting == {"none", "queued"}

\* Changes get tasks in their order, tasks are handled in that order, and one
\* that is being recorded is among those that all later ones have found begun.
QueueInv ==
  /\ \A c \in DcChanges : c > dcSeen => dcTask[c] = DcNoTask
  /\ \A c \in 1 .. dcSeen :
       /\ dcTask[c].pc # "none" /\ dcTask[c].path \in DcPaths
       /\ dcTask[c].at <= moNow
       /\ dcTask[c].begun \subseteq 1 .. dcSeen
       /\ \A d \in 1 .. dcSeen : c <= d => dcTask[c].at <= dcTask[d].at
  /\ \A c, d \in DcChanges :
       dcTask[c].pc \notin DcWaiting /\ dcTask[d].pc = "queued" => c < d
  /\ \A c, d \in DcChanges :
       /\ dcTask[d].pc = "record" /\ d < c
       /\ dcTask[c].pc \notin DcWaiting
       => d \in dcTask[c].begun

\* A task that waits is blank.  What is told is behind its recording, and what
\* a path has in mind was told.
RememberedInv ==
  /\ \A c \in DcChanges : dcTask[c].pc \in DcWaiting =>
       dcTask[c].verdict = "none" /\ dcTask[c].begun = {}
  /\ \A c \in dcTold :
       /\ dcTask[c].pc \notin {"none", "queued", "record"}
       /\ dcTask[c].verdict = "alert"
  /\ \A p \in DcPaths : dcLast[p] # NotYet =>
       \E d \in dcTold : dcTask[d].path = p /\ dcTask[d].at = dcLast[p]
  /\ SilencedByAnAlert

\* Without overlaps and restarts, a path has its latest alert in mind, and the
\* one that is being recorded is a cooldown behind all others.
ApartInv ==
  /\ \A c \in dcTold : Apart(dcTask[c].path) =>
       /\ dcLast[dcTask[c].path] # NotYet
       /\ dcTask[c].at <= dcLast[dcTask[c].path]
  /\ \A c \in dcTold, d \in DcChanges :
       /\ dcTask[d].pc = "record" /\ dcTask[d].verdict = "alert"
       /\ dcTask[c].path = dcTask[d].path /\ Apart(dcTask[d].path)
       => dcTask[d].at - dcTask[c].at >= DcCooldown
  /\ ChangeAlertsSpaced

StopsCounted == ~moUp => moStops > 0

DirectoriesInv ==
  DirectoriesTypeOK /\ QueueInv /\ RememberedInv /\ ApartInv

-----------------------------------------------------------------------------
(* Directories: types, and the tasks of a step *)

\* The types of what tasks consist of.
LEMMA DirectoriesTypes ==
  ASSUME PassesTypeOK, DirectoriesTypeOK
  PROVE  /\ moNow \in Nat /\ moNow \in MoTimes /\ moStops \in Nat
         /\ NotYet = -1 /\ 0 \in MoTimes /\ MoTimes \subseteq Nat
         /\ dcSeen \in Nat /\ dcSeen \in 0 .. DcMaxChanges
         /\ DcMaxChanges \in Nat /\ DcCooldown \in Nat
         /\ DcChanges \subseteq Nat /\ dcTold \subseteq DcChanges
         /\ \A p \in DcPaths : dcLast[p] \in Int
         /\ \A c \in DcChanges :
              /\ dcTask[c] \in DcTasks /\ dcTask[c].pc \in DcSteps
              /\ dcTask[c].at \in MoTimes /\ dcTask[c].at \in Nat
              /\ dcTask[c].begun \subseteq DcChanges
<1>1. /\ moNow \in MoTimes /\ MoTimes \subseteq Nat /\ 0 \in MoTimes
      /\ MoStamps \subseteq Int /\ NotYet = -1 /\ moStops \in Nat
  BY MonitorsAssumption DEF PassesTypeOK, MoTimes, MoStamps, NotYet
<1>2. \A c \in DcChanges : dcTask[c] \in DcTasks
  BY DEF DirectoriesTypeOK
<1>3. \A c \in DcChanges : /\ dcTask[c].pc \in DcSteps
                           /\ dcTask[c].at \in MoTimes
                           /\ dcTask[c].begun \subseteq DcChanges
  BY <1>2 DEF DcTasks
<1>4. \A p \in DcPaths : dcLast[p] \in Int
  BY <1>1 DEF DirectoriesTypeOK
<1>5. /\ dcSeen \in 0 .. DcMaxChanges /\ dcTold \subseteq DcChanges
      /\ DcMaxChanges \in Nat /\ DcCooldown \in Nat /\ DcChanges \subseteq Nat
  BY DirectoriesAssumption DEF DirectoriesTypeOK, DcChanges
<1>6. dcSeen \in Nat
  BY <1>5
<1>7. \A c \in DcChanges : dcTask[c].at \in Nat
  BY <1>1, <1>3
<1> QED
  BY <1>1, <1>2, <1>3, <1>4, <1>5, <1>6, <1>7, Zenon

\* The invariant of the directories holds at first.
LEMMA DirectoriesInvInit ==
  ASSUME PassesTypeOK, DirectoriesInit
  PROVE  DirectoriesInv
<1>0. 0 \in MoTimes /\ NotYet \in MoStamps
  BY MonitorsAssumption DEF MoTimes, MoStamps
<1>1. /\ dcObserved = {} /\ dcSeen = 0 /\ dcEvents = {} /\ dcTold = {}
      /\ dcLast = [p \in DcPaths |-> NotYet]
      /\ dcTask = [c \in DcChanges |-> DcNoTask]
      /\ dcThere \subseteq DcDirs
  BY DEF DirectoriesInit
<1>2. DcNoTask \in DcTasks /\ DcNoTask.pc = "none" /\ DcNoTask.verdict = "none"
        /\ DcNoTask.begun = {}
  BY <1>0 DEF DcNoTask, DcTasks, DcSteps, DcVerdicts
<1>3. DirectoriesTypeOK
  BY <1>0, <1>1, <1>2, DirectoriesAssumption DEF DirectoriesTypeOK
<1>4. QueueInv
  BY <1>1, <1>2 DEF QueueInv, DcWaiting
<1>5. RememberedInv
  BY <1>1, <1>2 DEF RememberedInv, SilencedByAnAlert
<1>6. ApartInv
  BY <1>1 DEF ApartInv, ChangeAlertsSpaced
<1> QED
  BY <1>3, <1>4, <1>5, <1>6 DEF DirectoriesInv

\* A step of a task is one of that task only.
LEMMA TaskGoesOn ==
  ASSUME DirectoriesTypeOK, NEW c \in DcChanges, NEW pc \in DcSteps,
         DcGoto(c, pc)
  PROVE  /\ dcTask' \in [DcChanges -> DcTasks]
         /\ dcTask'[c].pc = pc
         /\ \A d \in DcChanges :
              /\ dcTask'[d].path = dcTask[d].path
              /\ dcTask'[d].at = dcTask[d].at
              /\ dcTask'[d].begun = dcTask[d].begun
              /\ dcTask'[d].verdict = dcTask[d].verdict
              /\ d # c => dcTask'[d] = dcTask[d]
<1>1. dcTask[c] \in DcTasks
  BY DEF DirectoriesTypeOK
<1>2. PICK t \in DcTasks : t = [dcTask[c] EXCEPT !.pc = pc]
  BY <1>1 DEF DcTasks
<1>3. dcTask' = [dcTask EXCEPT ![c] = t]
  BY <1>2 DEF DcGoto
<1>4. /\ t.pc = pc /\ t.path = dcTask[c].path /\ t.at = dcTask[c].at
      /\ t.begun = dcTask[c].begun /\ t.verdict = dcTask[c].verdict
  BY <1>1, <1>2 DEF DcTasks
<1> QED
  BY <1>3, <1>4 DEF DirectoriesTypeOK

\* A new change has a task that waits.
LEMMA TaskEnqueued ==
  ASSUME PassesTypeOK, DirectoriesTypeOK, NEW p \in DcPaths, DcEnqueue(p)
  PROVE  /\ dcTask' \in [DcChanges -> DcTasks]
         /\ dcSeen' = dcSeen + 1 /\ dcSeen' \in DcChanges
         /\ dcTask'[dcSeen'].pc = "queued" /\ dcTask'[dcSeen'].path = p
         /\ dcTask'[dcSeen'].at = moNow /\ dcTask'[dcSeen'].begun = {}
         /\ dcTask'[dcSeen'].verdict = "none"
         /\ \A d \in DcChanges : d # dcSeen' => dcTask'[d] = dcTask[d]
<1>0. dcSeen' = dcSeen + 1 /\ dcSeen' \in DcChanges
  BY DirectoriesTypes DEF DcEnqueue, DcChanges
<1>1. PICK t : t = [DcNoTask EXCEPT !.pc = "queued", !.path = p, !.at = moNow]
  OBVIOUS
<1>2. /\ t \in DcTasks /\ t.pc = "queued" /\ t.path = p /\ t.at = moNow
      /\ t.begun = {} /\ t.verdict = "none"
  BY <1>1, DirectoriesTypes DEF DcNoTask, DcTasks, DcSteps, DcVerdicts
<1>3. dcTask' = [dcTask EXCEPT ![dcSeen'] = t]
  BY <1>0, <1>1 DEF DcEnqueue
<1> QED
  BY <1>0, <1>2, <1>3 DEF DirectoriesTypeOK

\* A task that is handled has a verdict, and knows what is being recorded.
LEMMA TaskHandled ==
  ASSUME PassesTypeOK, DirectoriesTypeOK, NEW c \in DcChanges, DcHandled(c)
  PROVE  /\ dcTask' \in [DcChanges -> DcTasks]
         /\ dcTask[c].pc = "queued" /\ dcTask'[c].pc = "record"
         /\ dcTask'[c].path = dcTask[c].path /\ dcTask'[c].at = dcTask[c].at
         /\ dcTask'[c].begun = {d \in DcChanges : dcTask[d].pc = "record"}
         /\ dcTask'[c].verdict = DcVerdict(dcTask[c].path, dcTask[c].at)
         /\ \A d \in DcChanges : d # c => dcTask'[d] = dcTask[d]
<1>1. dcTask[c] \in DcTasks
  BY DEF DirectoriesTypeOK
<1>2. DcVerdict(dcTask[c].path, dcTask[c].at) \in DcVerdicts
  BY DEF DcVerdict, DcVerdicts
<1>3. PICK t : t = [dcTask[c] EXCEPT
                     !.pc = "record",
                     !.verdict = DcVerdict(dcTask[c].path, dcTask[c].at),
                     !.begun = {d \in DcChanges : dcTask[d].pc = "record"}]
  OBVIOUS
<1>4. /\ t \in DcTasks
      /\ t.pc = "record" /\ t.path = dcTask[c].path /\ t.at = dcTask[c].at
      /\ t.begun = {d \in DcChanges : dcTask[d].pc = "record"}
      /\ t.verdict = DcVerdict(dcTask[c].path, dcTask[c].at)
  BY <1>1, <1>2, <1>3 DEF DcTasks, DcSteps
<1>5. dcTask' = [dcTask EXCEPT ![c] = t]
  BY <1>3 DEF DcHandled
<1>6. dcTask \in [DcChanges -> DcTasks]
  BY DEF DirectoriesTypeOK
<1>7. /\ dcTask' \in [DcChanges -> DcTasks] /\ dcTask'[c] = t
      /\ \A d \in DcChanges : d # c => dcTask'[d] = dcTask[d]
  BY <1>4, <1>5, <1>6
<1>8. /\ UNCHANGED <<dcThere, dcObserved, dcLast, dcSeen, dcEvents, dcTold>>
      /\ dcTask[c].pc = "queued"
  BY DEF DcHandled
<1> QED
  BY <1>4, <1>7, <1>8 DEF DirectoriesTypeOK

\* What each of the steps does to its task, and to what is remembered.
DcGoesTo(c, from, to) ==
  dcTask[c].pc = from /\ DcGoto(c, to)

\* The steps, by what they do to tasks.
LEMMA DirectoriesStepCases ==
  ASSUME DirectoriesNext
  PROVE  \/ UNCHANGED <<dcTask, dcLast, dcTold, dcSeen, dcEvents>>
         \/ \E p \in DcPaths : DcEnqueue(p)
         \/ \E c \in DcChanges : DcHandled(c)
         \/ \E c \in DcChanges :
              /\ dcTask[c].verdict = "alert" /\ DcGoesTo(c, "record", "publish")
              /\ dcLast' = [dcLast EXCEPT ![dcTask[c].path] = dcTask[c].at]
              /\ dcTold' = dcTold \union {c} /\ dcSeen' = dcSeen
         \/ \E c \in DcChanges :
              /\ \/ DcGoesTo(c, "record", "done") /\ dcTask[c].verdict # "alert"
                 \/ DcGoesTo(c, "publish", "done")
                 \/ DcGoesTo(c, "record", "failed")
              /\ UNCHANGED <<dcLast, dcTold, dcSeen>>
  BY DEF DirectoriesNext, DcCollect, DcMakeDirectory, DcRecorded, DcPublished,
         DcFails, DcGoesTo

\* Each step of a task keeps the types.
LEMMA DirectoriesTypesStep ==
  ASSUME PassesTypeOK, DirectoriesInv, DirectoriesNext
  PROVE  DirectoriesTypeOK'
<1>0. DirectoriesTypeOK
  BY DEF DirectoriesInv
<1>1. dcThere' \subseteq DcDirs /\ dcObserved' \subseteq DcDirs
  BY <1>0
  DEF DirectoriesNext, DcCollect, DcMakeDirectory, DcEnqueue, DcHandled,
      DcRecorded, DcPublished, DcFails, DirectoriesTypeOK
<1>2. dcEvents' \subseteq DcChanges /\ dcTold' \subseteq DcChanges
  BY <1>0
  DEF DirectoriesNext, DcCollect, DcMakeDirectory, DcEnqueue, DcHandled,
      DcRecorded, DcPublished, DcFails, DirectoriesTypeOK
<1>3. dcSeen' \in 0 .. DcMaxChanges
  <2>1. \/ dcSeen' = dcSeen
        \/ dcSeen' = dcSeen + 1 /\ dcSeen < DcMaxChanges
    BY DEF DirectoriesNext, DcCollect, DcMakeDirectory, DcEnqueue, DcHandled,
           DcRecorded, DcPublished, DcFails
  <2>2. dcSeen \in 0 .. DcMaxChanges /\ DcMaxChanges \in Nat
    BY <1>0, DirectoriesTypes
  <2> QED
    BY <2>1, <2>2
<1>4. dcLast' \in [DcPaths -> MoStamps]
  <2>1. \A c \in DcChanges : dcTask[c].at \in MoStamps
    BY <1>0, DirectoriesTypes DEF MoStamps
  <2> QED
    BY <1>0, <2>1
    DEF DirectoriesNext, DcCollect, DcMakeDirectory, DcEnqueue, DcHandled,
        DcRecorded, DcPublished, DcFails, DirectoriesTypeOK
<1>5. dcTask' \in [DcChanges -> DcTasks]
  <2>1. {"publish", "done", "failed"} \subseteq DcSteps
    BY DEF DcSteps
  <2>2. \A c \in DcChanges, pc \in {"publish", "done", "failed"} :
          DcGoto(c, pc) => dcTask' \in [DcChanges -> DcTasks]
    BY <1>0, <2>1, TaskGoesOn
  <2> QED
    BY <1>0, <2>2, DirectoriesStepCases, TaskEnqueued, TaskHandled
    DEF DcGoesTo, DirectoriesTypeOK
<1> QED
  BY <1>1, <1>2, <1>3, <1>4, <1>5 DEF DirectoriesTypeOK

-----------------------------------------------------------------------------
(* Directories: the steps *)

\* Each step of a task keeps the order of the queue.
LEMMA QueueInvStep ==
  ASSUME PassesTypeOK, DirectoriesInv, DirectoriesNext
  PROVE  QueueInv'
<1>0. /\ DirectoriesTypeOK /\ QueueInv /\ moNow' = moNow
      /\ moNow \in Nat /\ dcSeen \in Nat /\ dcSeen <= DcMaxChanges
      /\ DcMaxChanges \in Nat
      /\ \A c \in DcChanges : c \in Nat /\ dcTask[c].at \in Nat
                                /\ dcTask[c].begun \subseteq DcChanges
      /\ 1 .. dcSeen \subseteq DcChanges
  BY DirectoriesTypes, DirectoriesPass, PassStepTypes
  DEF DirectoriesInv, DcChanges
<1>1. CASE UNCHANGED <<dcTask, dcSeen>>
  BY <1>0, <1>1 DEF QueueInv
<1>2. CASE \E p \in DcPaths : DcEnqueue(p)
  <2>1. PICK p \in DcPaths : DcEnqueue(p)
    BY <1>2
  <2>2. /\ dcSeen' = dcSeen + 1 /\ dcSeen' \in DcChanges
        /\ dcTask'[dcSeen'].pc = "queued" /\ dcTask'[dcSeen'].path = p
        /\ dcTask'[dcSeen'].at = moNow /\ dcTask'[dcSeen'].begun = {}
        /\ \A d \in DcChanges : d # dcSeen' => dcTask'[d] = dcTask[d]
    BY <1>0, <2>1, TaskEnqueued
  <2>3. \A c \in DcChanges : c > dcSeen' => dcTask'[c] = DcNoTask
    BY <1>0, <2>2 DEF QueueInv
  <2>4. ASSUME NEW c \in 1 .. dcSeen'
        PROVE  /\ dcTask'[c].pc # "none" /\ dcTask'[c].path \in DcPaths
               /\ dcTask'[c].at <= moNow'
               /\ dcTask'[c].begun \subseteq 1 .. dcSeen'
               /\ \A d \in 1 .. dcSeen' :
                    c <= d => dcTask'[c].at <= dcTask'[d].at
    <3>1. c \in 1 .. dcSeen \/ c = dcSeen'
      BY <1>0, <2>2
    <3>2. /\ dcTask'[c].pc # "none" /\ dcTask'[c].path \in DcPaths
          /\ dcTask'[c].at <= moNow'
          /\ dcTask'[c].begun \subseteq 1 .. dcSeen'
      BY <1>0, <2>2, <3>1 DEF QueueInv
    <3>3. ASSUME NEW d \in 1 .. dcSeen', c <= d
          PROVE  dcTask'[c].at <= dcTask'[d].at
      <4>1. d \in 1 .. dcSeen \/ d = dcSeen'
        BY <1>0, <2>2
      <4>2. CASE d = dcSeen'
        BY <1>0, <2>2, <3>2, <4>2
      <4>3. CASE d \in 1 .. dcSeen
        <5>1. c \in 1 .. dcSeen /\ c # dcSeen' /\ d # dcSeen'
          BY <1>0, <2>2, <3>1, <3>3, <4>3
        <5> QED
          BY <1>0, <2>2, <3>3, <4>3, <5>1 DEF QueueInv
      <4> QED
        BY <4>1, <4>2, <4>3
    <3> QED
      BY <3>2, <3>3
  <2>5. \A c, d \in DcChanges :
          dcTask'[c].pc \notin DcWaiting /\ dcTask'[d].pc = "queued" => c < d
    <3> SUFFICES ASSUME NEW c \in DcChanges, NEW d \in DcChanges,
                        dcTask'[c].pc \notin DcWaiting,
                        dcTask'[d].pc = "queued"
                 PROVE  c < d
      OBVIOUS
    <3>1. c # dcSeen' /\ dcTask[c].pc \notin DcWaiting
      BY <2>2 DEF DcWaiting
    <3>2. c <= dcSeen
      BY <1>0, <3>1 DEF QueueInv, DcNoTask, DcWaiting
    <3> QED
      BY <1>0, <2>2, <3>1, <3>2 DEF QueueInv
  <2>6. \A c, d \in DcChanges :
          /\ dcTask'[d].pc = "record" /\ d < c
          /\ dcTask'[c].pc \notin DcWaiting
          => d \in dcTask'[c].begun
    BY <1>0, <2>2 DEF QueueInv, DcWaiting
  <2> QED
    BY <2>3, <2>4, <2>5, <2>6 DEF QueueInv
<1>3. CASE \E c \in DcChanges : DcHandled(c)
  <2>1. PICK h \in DcChanges : DcHandled(h)
    BY <1>3
  <2>2. /\ dcTask[h].pc = "queued" /\ dcTask'[h].pc = "record"
        /\ dcTask'[h].path = dcTask[h].path /\ dcTask'[h].at = dcTask[h].at
        /\ dcTask'[h].begun = {d \in DcChanges : dcTask[d].pc = "record"}
        /\ \A d \in DcChanges : d # h => dcTask'[d] = dcTask[d]
    BY <1>0, <2>1, TaskHandled
  <2>3. /\ dcSeen' = dcSeen
        /\ \A d \in DcChanges : dcTask[d].pc = "queued" => h <= d
    BY <2>1 DEF DcHandled
  <2>4. h <= dcSeen
    BY <1>0, <2>2 DEF QueueInv, DcNoTask
  <2>5. \A d \in DcChanges : dcTask[d].pc = "record" => d \in 1 .. dcSeen
    BY <1>0 DEF QueueInv, DcNoTask, DcChanges
  <2>6. \A c \in DcChanges :
          /\ dcTask'[c].at = dcTask[c].at /\ dcTask'[c].path = dcTask[c].path
          /\ c > dcSeen => dcTask'[c] = dcTask[c]
    BY <1>0, <2>2, <2>4
  <2>7. \A c \in 1 .. dcSeen : dcTask'[c].pc # "none"
                                 /\ dcTask'[c].begun \subseteq 1 .. dcSeen
    BY <1>0, <2>2, <2>5 DEF QueueInv
  <2>8. \A c, d \in DcChanges :
          dcTask'[c].pc \notin DcWaiting /\ dcTask'[d].pc = "queued" => c < d
    BY <1>0, <2>2, <2>3 DEF QueueInv, DcWaiting
  <2>9. \A c, d \in DcChanges :
          /\ dcTask'[d].pc = "record" /\ d < c
          /\ dcTask'[c].pc \notin DcWaiting
          => d \in dcTask'[c].begun
    <3> SUFFICES ASSUME NEW c \in DcChanges, NEW d \in DcChanges,
                        dcTask'[d].pc = "record", d < c,
                        dcTask'[c].pc \notin DcWaiting
                 PROVE  d \in dcTask'[c].begun
      OBVIOUS
    <3>1. CASE c = h
      BY <1>0, <2>2, <3>1
    <3>2. CASE c # h
      <4>1. dcTask[c].pc \notin DcWaiting /\ dcTask'[c] = dcTask[c]
        BY <2>2, <3>2
      <4>2. c < h
        BY <1>0, <2>2, <4>1 DEF QueueInv
      <4>3. d # h
        BY <1>0, <4>2
      <4> QED
        BY <1>0, <2>2, <4>1, <4>3 DEF QueueInv
    <3> QED
      BY <3>1, <3>2
  <2> QED
    BY <1>0, <2>3, <2>6, <2>7, <2>8, <2>9 DEF QueueInv
<1>4. CASE \E c \in DcChanges, from \in {"record", "publish"},
              to \in {"publish", "done", "failed"} :
             DcGoesTo(c, from, to) /\ dcSeen' = dcSeen
  <2>1. PICK h \in DcChanges, from \in {"record", "publish"},
             to \in {"publish", "done", "failed"} :
               DcGoesTo(h, from, to) /\ dcSeen' = dcSeen
    BY <1>4
  <2>2. /\ dcTask'[h].pc = to
        /\ \A d \in DcChanges :
             /\ dcTask'[d].path = dcTask[d].path
             /\ dcTask'[d].at = dcTask[d].at
             /\ dcTask'[d].begun = dcTask[d].begun
             /\ d # h => dcTask'[d] = dcTask[d]
    <3>1. to \in DcSteps
      BY DEF DcSteps
    <3> QED
      BY <1>0, <2>1, <3>1, TaskGoesOn DEF DcGoesTo
  <2>3. h <= dcSeen /\ dcTask[h].pc \notin DcWaiting
    BY <1>0, <2>1 DEF QueueInv, DcNoTask, DcGoesTo, DcWaiting
  <2>4. \A c \in DcChanges : c > dcSeen' => dcTask'[c] = DcNoTask
    BY <1>0, <2>1, <2>2, <2>3 DEF QueueInv
  <2>5. \A c \in 1 .. dcSeen' :
          /\ dcTask'[c].pc # "none" /\ dcTask'[c].path \in DcPaths
          /\ dcTask'[c].at <= moNow'
          /\ dcTask'[c].begun \subseteq 1 .. dcSeen'
          /\ \A d \in 1 .. dcSeen' : c <= d => dcTask'[c].at <= dcTask'[d].at
    BY <1>0, <2>1, <2>2 DEF QueueInv
  <2>6. \A c, d \in DcChanges :
          dcTask'[c].pc \notin DcWaiting /\ dcTask'[d].pc = "queued" => c < d
    BY <1>0, <2>2, <2>3 DEF QueueInv, DcWaiting
  <2>7. \A c, d \in DcChanges :
          /\ dcTask'[d].pc = "record" /\ d < c
          /\ dcTask'[c].pc \notin DcWaiting
          => d \in dcTask'[c].begun
    BY <1>0, <2>2, <2>3 DEF QueueInv, DcWaiting
  <2> QED
    BY <2>4, <2>5, <2>6, <2>7 DEF QueueInv
<1> QED
  BY <1>1, <1>2, <1>3, <1>4, DirectoriesStepCases

\* Each step of a task keeps what is remembered true.
LEMMA RememberedInvStep ==
  ASSUME PassesTypeOK, DirectoriesInv, DirectoriesNext
  PROVE  RememberedInv'
<1>0. /\ DirectoriesTypeOK /\ QueueInv /\ RememberedInv
      /\ DcCooldown \in Nat /\ NotYet = -1 /\ dcTold \subseteq DcChanges
      /\ \A p \in DcPaths : dcLast[p] \in Int
      /\ \A c \in DcChanges : c \in Nat /\ dcTask[c].at \in Nat
  BY DirectoriesTypes DEF DirectoriesInv
<1>1. CASE UNCHANGED <<dcTask, dcLast, dcTold>>
  BY <1>0, <1>1 DEF RememberedInv, SilencedByAnAlert
<1>2. CASE \E p \in DcPaths : DcEnqueue(p)
  <2>1. PICK p \in DcPaths : DcEnqueue(p)
    BY <1>2
  <2>2. /\ dcSeen' = dcSeen + 1 /\ dcSeen' \in DcChanges
        /\ dcTask'[dcSeen'].pc = "queued" /\ dcTask'[dcSeen'].verdict = "none"
        /\ dcTask'[dcSeen'].begun = {}
        /\ \A d \in DcChanges : d # dcSeen' => dcTask'[d] = dcTask[d]
        /\ dcLast' = dcLast /\ dcTold' = dcTold /\ dcSeen \in Nat
    BY <1>0, <2>1, TaskEnqueued, DirectoriesTypes DEF DcEnqueue
  <2>3. dcTask[dcSeen'] = DcNoTask
    BY <1>0, <2>2 DEF QueueInv
  <2>4. dcSeen' \notin dcTold
    BY <1>0, <2>3 DEF RememberedInv, DcNoTask
  <2> QED
    BY <1>0, <2>2, <2>4 DEF RememberedInv, SilencedByAnAlert, DcWaiting
<1>3. CASE \E c \in DcChanges : DcHandled(c)
  <2>1. PICK h \in DcChanges : DcHandled(h)
    BY <1>3
  <2>2. /\ dcTask[h].pc = "queued" /\ dcTask'[h].pc = "record"
        /\ dcTask'[h].path = dcTask[h].path /\ dcTask'[h].at = dcTask[h].at
        /\ dcTask'[h].verdict = DcVerdict(dcTask[h].path, dcTask[h].at)
        /\ \A d \in DcChanges : d # h => dcTask'[d] = dcTask[d]
        /\ dcLast' = dcLast /\ dcTold' = dcTold
    BY <1>0, <2>1, TaskHandled DEF DcHandled
  <2>3. h \notin dcTold
    BY <1>0, <2>2 DEF RememberedInv
  <2>4. dcTask[h].path \in DcPaths
    <3>1. h \in 1 .. dcSeen
      BY <1>0, <2>2, DirectoriesTypes DEF QueueInv, DcNoTask, DcChanges
    <3> QED
      BY <1>0, <3>1 DEF QueueInv
  <2>5. ASSUME dcTask'[h].verdict = "cooldown"
        PROVE  \E d \in dcTold \ {h} :
                 /\ dcTask[d].path = dcTask[h].path
                 /\ dcTask[h].at - dcTask[d].at < DcCooldown
    <3>1. DcCooling(dcTask[h].path, dcTask[h].at)
      BY <2>2, <2>5 DEF DcVerdict
    <3>2. PICK d \in dcTold : dcTask[d].path = dcTask[h].path
                                /\ dcTask[d].at = dcLast[dcTask[h].path]
      BY <1>0, <2>4, <3>1 DEF RememberedInv, DcCooling
    <3> QED
      BY <2>3, <3>1, <3>2 DEF DcCooling
  <2>6. SilencedByAnAlert'
    <3> SUFFICES ASSUME NEW c \in DcChanges, dcTask'[c].verdict = "cooldown"
                 PROVE  \E d \in dcTold \ {c} :
                          /\ dcTask'[d].path = dcTask'[c].path
                          /\ dcTask'[c].at - dcTask'[d].at < DcCooldown
      BY <2>2 DEF SilencedByAnAlert
    <3>1. CASE c = h
      BY <1>0, <2>2, <2>5, <3>1
    <3>2. CASE c # h
      BY <1>0, <2>2, <3>2 DEF RememberedInv, SilencedByAnAlert
    <3> QED
      BY <3>1, <3>2
  <2>7. \A c \in DcChanges : dcTask'[c].pc \in DcWaiting =>
          dcTask'[c].verdict = "none" /\ dcTask'[c].begun = {}
    BY <1>0, <2>2 DEF RememberedInv, DcWaiting
  <2>8. \A c \in dcTold' :
          /\ dcTask'[c].pc \notin {"none", "queued", "record"}
          /\ dcTask'[c].verdict = "alert"
    BY <1>0, <2>2, <2>3 DEF RememberedInv
  <2>9. \A p \in DcPaths : dcLast'[p] # NotYet =>
          \E d \in dcTold' : dcTask'[d].path = p /\ dcTask'[d].at = dcLast'[p]
    BY <1>0, <2>2, <2>3 DEF RememberedInv
  <2> QED
    BY <2>6, <2>7, <2>8, <2>9 DEF RememberedInv
<1>4. ASSUME NEW h \in DcChanges, NEW to \in {"publish", "done", "failed"},
             DcGoto(h, to)
      PROVE  /\ dcTask'[h].pc = to
             /\ \A d \in DcChanges :
                  /\ dcTask'[d].path = dcTask[d].path
                  /\ dcTask'[d].at = dcTask[d].at
                  /\ dcTask'[d].begun = dcTask[d].begun
                  /\ dcTask'[d].verdict = dcTask[d].verdict
                  /\ d # h => dcTask'[d] = dcTask[d]
  <2>1. to \in DcSteps
    BY DEF DcSteps
  <2> QED
    BY <1>0, <1>4, <2>1, TaskGoesOn
<1>5. CASE \E c \in DcChanges :
             /\ dcTask[c].verdict = "alert" /\ DcGoesTo(c, "record", "publish")
             /\ dcLast' = [dcLast EXCEPT ![dcTask[c].path] = dcTask[c].at]
             /\ dcTold' = dcTold \union {c}
  <2>1. PICK h \in DcChanges :
          /\ dcTask[h].verdict = "alert" /\ DcGoesTo(h, "record", "publish")
          /\ dcLast' = [dcLast EXCEPT ![dcTask[h].path] = dcTask[h].at]
          /\ dcTold' = dcTold \union {h}
    BY <1>5
  <2>2. /\ dcTask'[h].pc = "publish" /\ dcTask[h].pc = "record"
        /\ \A d \in DcChanges :
             /\ dcTask'[d].path = dcTask[d].path
             /\ dcTask'[d].at = dcTask[d].at
             /\ dcTask'[d].begun = dcTask[d].begun
             /\ dcTask'[d].verdict = dcTask[d].verdict
             /\ d # h => dcTask'[d] = dcTask[d]
    BY <1>4, <2>1 DEF DcGoesTo
  <2>3. \A p \in DcPaths : dcLast'[p] # NotYet =>
          \E d \in dcTold' : dcTask'[d].path = p /\ dcTask'[d].at = dcLast'[p]
    <3> SUFFICES ASSUME NEW p \in DcPaths, dcLast'[p] # NotYet
                 PROVE  \E d \in dcTold' : dcTask'[d].path = p
                                             /\ dcTask'[d].at = dcLast'[p]
      OBVIOUS
    <3>1. CASE p = dcTask[h].path
      BY <1>0, <2>1, <2>2, <3>1 DEF DirectoriesTypeOK
    <3>2. CASE p # dcTask[h].path
      BY <1>0, <2>1, <2>2, <3>2 DEF DirectoriesTypeOK, RememberedInv
    <3> QED
      BY <3>1, <3>2
  <2>4. SilencedByAnAlert'
    <3> SUFFICES ASSUME NEW c \in DcChanges, dcTask'[c].verdict = "cooldown"
                 PROVE  \E d \in dcTold' \ {c} :
                          /\ dcTask'[d].path = dcTask'[c].path
                          /\ dcTask'[c].at - dcTask'[d].at < DcCooldown
      BY DEF SilencedByAnAlert
    <3>1. PICK d \in dcTold \ {c} :
            /\ dcTask[d].path = dcTask[c].path
            /\ dcTask[c].at - dcTask[d].at < DcCooldown
      BY <1>0, <2>2 DEF RememberedInv, SilencedByAnAlert
    <3> QED
      BY <1>0, <2>1, <2>2, <3>1
  <2>5. \A c \in DcChanges : dcTask'[c].pc \in DcWaiting =>
          dcTask'[c].verdict = "none" /\ dcTask'[c].begun = {}
    BY <1>0, <2>2 DEF RememberedInv, DcWaiting
  <2>6. \A c \in dcTold' :
          /\ dcTask'[c].pc \notin {"none", "queued", "record"}
          /\ dcTask'[c].verdict = "alert"
    BY <1>0, <2>1, <2>2 DEF RememberedInv
  <2> QED
    BY <2>3, <2>4, <2>5, <2>6 DEF RememberedInv
<1>6. CASE \E c \in DcChanges :
             /\ \/ DcGoesTo(c, "record", "done") /\ dcTask[c].verdict # "alert"
                \/ DcGoesTo(c, "publish", "done")
                \/ DcGoesTo(c, "record", "failed")
             /\ UNCHANGED <<dcLast, dcTold>>
  <2>1. PICK h \in DcChanges :
          /\ \/ DcGoesTo(h, "record", "done") \/ DcGoesTo(h, "publish", "done")
             \/ DcGoesTo(h, "record", "failed")
          /\ UNCHANGED <<dcLast, dcTold>>
    BY <1>6
  <2>2. /\ dcTask'[h].pc \in {"done", "failed"}
        /\ dcTask[h].pc \in {"record", "publish"}
        /\ \A d \in DcChanges :
             /\ dcTask'[d].path = dcTask[d].path
             /\ dcTask'[d].at = dcTask[d].at
             /\ dcTask'[d].begun = dcTask[d].begun
             /\ dcTask'[d].verdict = dcTask[d].verdict
             /\ d # h => dcTask'[d] = dcTask[d]
    BY <1>4, <2>1 DEF DcGoesTo
  <2> QED
    BY <1>0, <2>1, <2>2 DEF RememberedInv, SilencedByAnAlert, DcWaiting
<1> QED
  BY <1>1, <1>2, <1>3, <1>5, <1>6, DirectoriesStepCases

-----------------------------------------------------------------------------
(* Directories: alerts of one path *)

\* Alerts of a path are spaced if nothing lets them be close.
LEMMA SpacedUnlessApart ==
  ASSUME PassesTypeOK
  PROVE  ChangeAlertsSpaced <=>
           \A c, d \in dcTold :
             /\ c < d /\ dcTask[c].path = dcTask[d].path
             /\ Apart(dcTask[c].path)
             => dcTask[d].at - dcTask[c].at >= DcCooldown
<1>1. moStops = 0 <=> ~(moStops > 0)
  BY DEF PassesTypeOK
<1> QED
  BY <1>1 DEF ChangeAlertsSpaced, Apart, Overlapped

\* What has once overlapped has done so for good.
LEMMA OverlapsStay ==
  ASSUME PassesTypeOK, DirectoriesInv, DirectoriesNext, NEW p, Apart(p)'
  PROVE  Apart(p)
<1>0. /\ DirectoriesTypeOK /\ QueueInv /\ moStops' = moStops
      /\ dcSeen \in Nat /\ 1 .. dcSeen \subseteq DcChanges
      /\ \A c \in DcChanges : c \in Nat /\ dcTask[c].begun \subseteq DcChanges
  BY DirectoriesTypes, DirectoriesPass, PassStepTypes
  DEF DirectoriesInv, DcChanges
<1> SUFFICES ASSUME Overlapped(p) PROVE Overlapped(p)'
  BY <1>0 DEF Apart
<1>1. PICK e, f : /\ e \in DcChanges /\ f \in dcTask[e].begun
                  /\ dcTask[e].path = p /\ dcTask[f].path = p
  BY DEF Overlapped
<1>2. e \in 1 .. dcSeen /\ f \in 1 .. dcSeen /\ f \in DcChanges
  BY <1>0, <1>1 DEF QueueInv, DcNoTask, DcChanges
<1>3. /\ dcTask'[e].path = p /\ dcTask'[f].path = p
      /\ f \in dcTask'[e].begun
  <2>1. CASE UNCHANGED dcTask
    BY <1>1, <2>1
  <2>2. CASE \E q \in DcPaths : DcEnqueue(q)
    <3>1. PICK q \in DcPaths : DcEnqueue(q)
      BY <2>2
    <3>2. /\ dcSeen' = dcSeen + 1
          /\ \A d \in DcChanges : d # dcSeen' => dcTask'[d] = dcTask[d]
      BY <1>0, <3>1, TaskEnqueued
    <3>3. e # dcSeen' /\ f # dcSeen'
      BY <1>0, <1>2, <3>2
    <3> QED
      BY <1>1, <1>2, <3>2, <3>3
  <2>3. CASE \E c \in DcChanges : DcHandled(c)
    <3>1. PICK h \in DcChanges : DcHandled(h)
      BY <2>3
    <3>2. /\ dcTask[h].pc = "queued" /\ dcTask'[h].path = dcTask[h].path
          /\ \A d \in DcChanges : d # h => dcTask'[d] = dcTask[d]
      BY <1>0, <3>1, TaskHandled
    <3>3. dcTask[h].begun = {}
      BY <1>0, <3>1, <3>2 DEF DirectoriesInv, RememberedInv, DcWaiting
    <3> QED
      BY <1>1, <1>2, <3>2, <3>3
  <2>4. CASE \E c \in DcChanges, pc \in {"publish", "done", "failed"} :
               DcGoto(c, pc)
    <3>1. {"publish", "done", "failed"} \subseteq DcSteps
      BY DEF DcSteps
    <3> QED
      BY <1>0, <1>1, <1>2, <2>4, <3>1, TaskGoesOn
  <2> QED
    BY <2>1, <2>2, <2>3, <2>4, DirectoriesStepCases DEF DcGoesTo
<1> QED
  BY <1>1, <1>3 DEF Overlapped

\* Each step of a task keeps the alerts of a path apart.
LEMMA ApartInvStep ==
  ASSUME PassesTypeOK, DirectoriesInv, DirectoriesNext
  PROVE  ApartInv'
<1>0. /\ DirectoriesTypeOK /\ QueueInv /\ RememberedInv /\ ApartInv
      /\ PassesTypeOK'
      /\ DcCooldown \in Nat /\ NotYet = -1 /\ dcTold \subseteq DcChanges
      /\ dcSeen \in Nat /\ \A p \in DcPaths : dcLast[p] \in Int
      /\ \A c \in DcChanges : c \in Nat /\ dcTask[c].at \in Nat
  BY DirectoriesTypes, DirectoriesPass, PassStepTypes DEF DirectoriesInv
<1>1. \A p : Apart(p)' => Apart(p)
  BY OverlapsStay
<1>2. \A c \in DcChanges : dcTask[c].pc # "none" =>
        c \in 1 .. dcSeen /\ dcTask[c].path \in DcPaths
  BY <1>0 DEF QueueInv, DcNoTask, DcChanges
<1>3. \A c \in dcTold : /\ c \in 1 .. dcSeen /\ dcTask[c].path \in DcPaths
                        /\ dcTask[c].pc \notin DcWaiting
                        /\ dcTask[c].pc # "record"
  BY <1>0, <1>2 DEF RememberedInv, DcWaiting
\* The two conjuncts about alerts of one path.
<1> DEFINE InMind == \A c \in dcTold : Apart(dcTask[c].path) =>
                       /\ dcLast[dcTask[c].path] # NotYet
                       /\ dcTask[c].at <= dcLast[dcTask[c].path]
           Behind == \A c \in dcTold, d \in DcChanges :
                       /\ dcTask[d].pc = "record" /\ dcTask[d].verdict = "alert"
                       /\ dcTask[c].path = dcTask[d].path
                       /\ Apart(dcTask[d].path)
                       => dcTask[d].at - dcTask[c].at >= DcCooldown
           Spaced == \A c, d \in dcTold :
                       /\ c < d /\ dcTask[c].path = dcTask[d].path
                       /\ Apart(dcTask[c].path)
                       => dcTask[d].at - dcTask[c].at >= DcCooldown
<1>4. InMind /\ Behind /\ Spaced
  BY <1>0, SpacedUnlessApart DEF ApartInv
<1>5. InMind' /\ Behind' /\ Spaced' => ApartInv'
  <2>1. moStops' = 0 <=> ~(moStops' > 0)
    BY <1>0 DEF PassesTypeOK
  <2>2. Spaced' => ChangeAlertsSpaced'
    BY <2>1 DEF ChangeAlertsSpaced, Apart, Overlapped
  <2> QED
    BY <2>2 DEF ApartInv
<1> HIDE DEF InMind, Behind, Spaced
<1>6. ASSUME dcTold' = dcTold, dcLast' = dcLast,
             \A c \in dcTold : /\ dcTask'[c].path = dcTask[c].path
                               /\ dcTask'[c].at = dcTask[c].at
      PROVE  InMind' /\ Spaced'
  BY <1>1, <1>4, <1>6 DEF InMind, Spaced
<1>7. CASE UNCHANGED <<dcTask, dcLast, dcTold>>
  BY <1>1, <1>4, <1>5, <1>6, <1>7 DEF Behind
<1>8. CASE \E p \in DcPaths : DcEnqueue(p)
  <2>1. PICK p \in DcPaths : DcEnqueue(p)
    BY <1>8
  <2>2. /\ dcSeen' = dcSeen + 1 /\ dcTask'[dcSeen'].pc = "queued"
        /\ \A d \in DcChanges : d # dcSeen' => dcTask'[d] = dcTask[d]
        /\ dcLast' = dcLast /\ dcTold' = dcTold
    BY <1>0, <2>1, TaskEnqueued DEF DcEnqueue
  <2>3. \A c \in dcTold : dcTask'[c] = dcTask[c]
    BY <1>0, <1>3, <2>2
  <2>4. Behind'
    BY <1>1, <1>4, <2>2, <2>3 DEF Behind
  <2> QED
    BY <1>5, <1>6, <2>2, <2>3, <2>4
<1>9. CASE \E c \in DcChanges : DcHandled(c)
  <2>1. PICK h \in DcChanges : DcHandled(h)
    BY <1>9
  <2>2. /\ dcTask[h].pc = "queued" /\ dcTask'[h].path = dcTask[h].path
        /\ dcTask'[h].at = dcTask[h].at
        /\ dcTask'[h].verdict = DcVerdict(dcTask[h].path, dcTask[h].at)
        /\ \A d \in DcChanges : d # h => dcTask'[d] = dcTask[d]
        /\ dcLast' = dcLast /\ dcTold' = dcTold
    BY <1>0, <2>1, TaskHandled DEF DcHandled
  <2>3. \A c \in dcTold : c # h /\ dcTask'[c] = dcTask[c]
    BY <1>0, <1>3, <2>2 DEF DcWaiting
  <2>4. ASSUME NEW c \in dcTold, dcTask'[h].verdict = "alert",
               dcTask[c].path = dcTask[h].path, Apart(dcTask[h].path)
        PROVE  dcTask[h].at - dcTask[c].at >= DcCooldown
    <3>1. ~DcCooling(dcTask[h].path, dcTask[h].at)
      BY <2>2, <2>4 DEF DcVerdict
    <3>2. /\ dcLast[dcTask[h].path] # NotYet
          /\ dcTask[c].at <= dcLast[dcTask[h].path]
      BY <1>4, <2>4 DEF InMind
    <3>3. dcLast[dcTask[h].path] \in Int /\ c \in DcChanges
      BY <1>0, <1>3, <2>4
    <3>4. CASE DcCooldown = 0
      <4>1. c < h /\ c \in 1 .. dcSeen /\ h \in 1 .. dcSeen
        BY <1>0, <1>2, <1>3, <2>2, <3>3 DEF QueueInv
      <4>2. dcTask[c].at <= dcTask[h].at
        BY <1>0, <3>3, <4>1 DEF QueueInv
      <4> QED
        BY <1>0, <3>3, <3>4, <4>2
    <3>5. CASE DcCooldown > 0
      BY <1>0, <3>1, <3>2, <3>3, <3>5 DEF DcCooling
    <3> QED
      BY <1>0, <3>4, <3>5
  <2>5. Behind'
    <3> SUFFICES ASSUME NEW c \in dcTold, NEW d \in DcChanges,
                        dcTask'[d].pc = "record", dcTask'[d].verdict = "alert",
                        dcTask'[c].path = dcTask'[d].path,
                        Apart(dcTask[d].path)'
                 PROVE  dcTask'[d].at - dcTask'[c].at >= DcCooldown
      BY <2>2 DEF Behind
    <3>1. Apart(dcTask[d].path)
      BY <1>1, <2>2
    <3>2. CASE d = h
      BY <2>2, <2>3, <2>4, <3>1, <3>2
    <3>3. CASE d # h
      BY <1>4, <2>2, <2>3, <3>1, <3>3 DEF Behind
    <3> QED
      BY <3>2, <3>3
  <2> QED
    BY <1>5, <1>6, <2>2, <2>3, <2>5
<1>10. CASE \E c \in DcChanges :
              /\ dcTask[c].verdict = "alert" /\ DcGoesTo(c, "record", "publish")
              /\ dcLast' = [dcLast EXCEPT ![dcTask[c].path] = dcTask[c].at]
              /\ dcTold' = dcTold \union {c}
  <2>1. PICK h \in DcChanges :
          /\ dcTask[h].verdict = "alert" /\ DcGoesTo(h, "record", "publish")
          /\ dcLast' = [dcLast EXCEPT ![dcTask[h].path] = dcTask[h].at]
          /\ dcTold' = dcTold \union {h}
    BY <1>10
  <2>2. /\ dcTask'[h].pc = "publish" /\ dcTask[h].pc = "record"
        /\ \A d \in DcChanges :
             /\ dcTask'[d].path = dcTask[d].path
             /\ dcTask'[d].at = dcTask[d].at
             /\ dcTask'[d].verdict = dcTask[d].verdict
             /\ d # h => dcTask'[d] = dcTask[d]
    <3>1. "publish" \in DcSteps
      BY DEF DcSteps
    <3> QED
      BY <1>0, <2>1, <3>1, TaskGoesOn DEF DcGoesTo
  <2>3. dcTask[h].path \in DcPaths /\ h \notin dcTold
    BY <1>2, <1>3, <2>2
  <2>4. ASSUME NEW d \in DcChanges, dcTask[d].path = dcTask[h].path, d # h,
               \/ dcTask[d].pc = "record"
               \/ h < d /\ dcTask[d].pc \notin DcWaiting
        PROVE  ~Apart(dcTask[h].path)
    <3>1. d \in dcTask[h].begun \/ h \in dcTask[d].begun
      BY <1>0, <2>2, <2>4 DEF QueueInv, DcWaiting
    <3> QED
      BY <2>4, <3>1 DEF Apart, Overlapped
  <2>5. ASSUME NEW c \in dcTold, dcTask[c].path = dcTask[h].path,
               Apart(dcTask[h].path)
        PROVE  dcTask[h].at - dcTask[c].at >= DcCooldown
    BY <1>4, <2>1, <2>2, <2>5 DEF Behind
  <2>6. InMind'
    <3> SUFFICES ASSUME NEW c \in dcTold \union {h}, Apart(dcTask[c].path)'
                 PROVE  /\ dcLast'[dcTask'[c].path] # NotYet
                        /\ dcTask'[c].at <= dcLast'[dcTask'[c].path]
      BY <2>1 DEF InMind
    <3>1. Apart(dcTask[c].path) /\ c \in DcChanges
            /\ dcTask'[c].path = dcTask[c].path /\ dcTask'[c].at = dcTask[c].at
      BY <1>0, <1>1, <2>2
    <3>2. CASE dcTask[c].path = dcTask[h].path
      <4>1. dcLast'[dcTask[c].path] = dcTask[h].at
        BY <1>0, <2>1, <2>3, <3>2 DEF DirectoriesTypeOK
      <4>2. dcTask[c].at <= dcTask[h].at
        BY <1>0, <2>5, <3>1, <3>2
      <4> QED
        BY <1>0, <3>1, <4>1, <4>2
    <3>3. CASE dcTask[c].path # dcTask[h].path
      <4>1. dcLast'[dcTask[c].path] = dcLast[dcTask[c].path] /\ c \in dcTold
        BY <1>0, <1>3, <2>1, <3>3 DEF DirectoriesTypeOK
      <4> QED
        BY <1>4, <3>1, <4>1 DEF InMind
    <3> QED
      BY <3>2, <3>3
  <2>7. Behind'
    <3> SUFFICES ASSUME NEW c \in dcTold \union {h}, NEW d \in DcChanges,
                        dcTask'[d].pc = "record", dcTask'[d].verdict = "alert",
                        dcTask'[c].path = dcTask'[d].path,
                        Apart(dcTask[d].path)'
                 PROVE  dcTask'[d].at - dcTask'[c].at >= DcCooldown
      BY <2>1 DEF Behind
    <3>1. Apart(dcTask[d].path) /\ d # h /\ dcTask[d].pc = "record"
            /\ dcTask[c].path = dcTask[d].path /\ c \in DcChanges
      BY <1>0, <1>1, <2>2
    <3>2. c # h
      BY <2>4, <3>1
    <3> QED
      BY <1>4, <2>2, <3>1, <3>2 DEF Behind
  <2>8. Spaced'
    <3> SUFFICES ASSUME NEW c \in dcTold \union {h},
                        NEW d \in dcTold \union {h},
                        c < d, dcTask'[c].path = dcTask'[d].path,
                        Apart(dcTask[c].path)'
                 PROVE  dcTask'[d].at - dcTask'[c].at >= DcCooldown
      BY <2>1 DEF Spaced
    <3>1. /\ Apart(dcTask[c].path) /\ c \in DcChanges /\ d \in DcChanges
          /\ dcTask[c].path = dcTask[d].path /\ c # d
      BY <1>0, <1>1, <2>2
    <3>2. CASE d = h
      BY <2>2, <2>5, <3>1, <3>2
    <3>3. CASE c = h
      BY <1>3, <2>4, <3>1, <3>3
    <3>4. CASE c # h /\ d # h
      BY <1>4, <2>2, <3>1, <3>4 DEF Spaced
    <3> QED
      BY <3>2, <3>3, <3>4
  <2> QED
    BY <1>5, <2>6, <2>7, <2>8
<1>11. CASE \E c \in DcChanges :
              /\ \/ DcGoesTo(c, "record", "done") /\ dcTask[c].verdict # "alert"
                 \/ DcGoesTo(c, "publish", "done")
                 \/ DcGoesTo(c, "record", "failed")
              /\ UNCHANGED <<dcLast, dcTold>>
  <2>1. PICK h \in DcChanges, to \in {"done", "failed"} :
          DcGoto(h, to) /\ UNCHANGED <<dcLast, dcTold>>
    BY <1>11 DEF DcGoesTo
  <2>2. /\ dcTask'[h].pc = to
        /\ \A d \in DcChanges :
             /\ dcTask'[d].path = dcTask[d].path
             /\ dcTask'[d].at = dcTask[d].at
             /\ dcTask'[d].verdict = dcTask[d].verdict
             /\ d # h => dcTask'[d] = dcTask[d]
    <3>1. to \in DcSteps
      BY DEF DcSteps
    <3> QED
      BY <1>0, <2>1, <3>1, TaskGoesOn
  <2>3. Behind'
    BY <1>0, <1>1, <1>4, <2>1, <2>2 DEF Behind
  <2> QED
    BY <1>0, <1>5, <1>6, <2>1, <2>2, <2>3
<1> QED
  BY <1>7, <1>8, <1>9, <1>10, <1>11, DirectoriesStepCases

-----------------------------------------------------------------------------
(* Directories: the whole *)

\* A new process has no tasks and no alerts in mind, and a stop behind it.
LEMMA DirectoriesForgetStep ==
  ASSUME PassesTypeOK, DirectoriesInv, StartsPasses, DcForget, moStops > 0
  PROVE  DirectoriesInv'
<1>0. /\ DirectoriesTypeOK /\ QueueInv /\ RememberedInv /\ ApartInv
      /\ UNCHANGED <<moNow, moStops, dcThere, dcSeen, dcEvents, dcTold>>
      /\ dcTold \subseteq DcChanges /\ moStops # 0
      /\ 1 .. dcSeen \subseteq DcChanges
      /\ dcObserved' = {} /\ dcLast' = [p \in DcPaths |-> NotYet]
  BY DirectoriesTypes DEF DirectoriesInv, StartsPasses, DcForget, DcChanges
<1>1. /\ dcTask' \in [DcChanges -> DcTasks]
      /\ \A c \in DcChanges :
           /\ dcTask'[c].path = dcTask[c].path
           /\ dcTask'[c].at = dcTask[c].at
           /\ dcTask'[c].begun = dcTask[c].begun
           /\ dcTask'[c].verdict = dcTask[c].verdict
           /\ dcTask'[c].pc \in {"none", "done", "failed", "gone"}
           /\ dcTask[c].pc \in {"none", "done", "failed", "gone"} =>
                dcTask'[c] = dcTask[c]
           /\ dcTask'[c].pc = "none" => dcTask[c].pc = "none"
  <2>1. ASSUME NEW c \in DcChanges
        PROVE  /\ [dcTask[c] EXCEPT !.pc = "gone"] \in DcTasks
               /\ [dcTask[c] EXCEPT !.pc = "gone"].pc = "gone"
               /\ [dcTask[c] EXCEPT !.pc = "gone"].path = dcTask[c].path
               /\ [dcTask[c] EXCEPT !.pc = "gone"].at = dcTask[c].at
               /\ [dcTask[c] EXCEPT !.pc = "gone"].begun = dcTask[c].begun
               /\ [dcTask[c] EXCEPT !.pc = "gone"].verdict = dcTask[c].verdict
    BY <1>0 DEF DirectoriesTypeOK, DcTasks, DcSteps
  <2>2. \A c \in DcChanges : dcTask[c] \in DcTasks /\ dcTask[c].pc \in DcSteps
    BY <1>0, DirectoriesTypes
  <2>3. dcTask' = [c \in DcChanges |->
                     IF dcTask[c].pc \in {"queued", "record", "publish"}
                     THEN [dcTask[c] EXCEPT !.pc = "gone"] ELSE dcTask[c]]
    BY DEF DcForget
  <2> QED
    BY <2>1, <2>2, <2>3 DEF DcSteps
<1>2. DirectoriesTypeOK'
  BY <1>0, <1>1 DEF DirectoriesTypeOK, MoStamps
<1>3. QueueInv'
  <2>1. \A c \in DcChanges : c > dcSeen => dcTask'[c] = DcNoTask
    BY <1>0, <1>1 DEF QueueInv, DcNoTask
  <2>2. \A c \in 1 .. dcSeen : dcTask'[c].pc # "none"
    BY <1>0, <1>1 DEF QueueInv
  <2> QED
    BY <1>0, <1>1, <2>1, <2>2 DEF QueueInv
<1>4. RememberedInv'
  BY <1>0, <1>1 DEF RememberedInv, SilencedByAnAlert, DcWaiting
<1>5. ApartInv'
  BY <1>0, <1>1 DEF ApartInv, ChangeAlertsSpaced, Apart
<1> QED
  BY <1>2, <1>3, <1>4, <1>5 DEF DirectoriesInv

\* What other monitors do, and time and stops, leave the tasks as they are.
LEMMA DirectoriesRest ==
  ASSUME PassesTypeOK, DirectoriesInv, UNCHANGED directoryVars,
         moNow' \in {moNow, moNow + 1}, moStops' \in {moStops, moStops + 1}
  PROVE  DirectoriesInv'
<1>0. /\ UNCHANGED <<dcThere, dcObserved, dcLast, dcSeen, dcTask, dcEvents,
                     dcTold>>
      /\ DirectoriesTypeOK /\ QueueInv /\ RememberedInv /\ ApartInv
      /\ moNow \in Nat /\ moStops \in Nat
      /\ 1 .. dcSeen \subseteq DcChanges
      /\ \A c \in DcChanges : dcTask[c].at \in Nat
  BY DirectoriesTypes DEF directoryVars, DirectoriesInv, DcChanges
<1>1. DirectoriesTypeOK' /\ RememberedInv'
  BY <1>0 DEF DirectoriesTypeOK, RememberedInv, SilencedByAnAlert
<1>2. QueueInv'
  BY <1>0 DEF QueueInv
<1>3. ApartInv'
  BY <1>0 DEF ApartInv, ChangeAlertsSpaced, Apart, Overlapped
<1> QED
  BY <1>1, <1>2, <1>3 DEF DirectoriesInv

\* Each step of any monitor keeps the invariant of the directories.
LEMMA DirectoriesInvStep ==
  ASSUME PassesTypeOK, MetricsTypeOK, DirectoriesInv, StopsCounted, WatchNext
  PROVE  DirectoriesInv'
<1>1. CASE DirectoriesNext
  BY <1>1, DirectoriesTypesStep, QueueInvStep, RememberedInvStep, ApartInvStep
  DEF DirectoriesInv
<1>2. CASE UNCHANGED directoryVars
  BY <1>2, PassesKept, DirectoriesRest
<1>3. CASE StartsPasses /\ DcForget
  BY <1>3, DirectoriesForgetStep DEF StopsCounted, StartsPasses
<1> QED
  BY <1>1, <1>2, <1>3 DEF WatchNext, notMetrics, notFiles, notConnections

\* The invariant implies what it is for.
LEMMA DirectoriesProperties ==
  ASSUME DirectoriesInv
  PROVE  ChangeAlertsSpaced /\ SilencedByAnAlert
  BY DEF DirectoriesInv, RememberedInv, ApartInv

\* A daemon that is down was stopped.
LEMMA StopsCountedStep ==
  ASSUME PassesTypeOK, MetricsTypeOK, StopsCounted, WatchNext
  PROVE  StopsCounted'
<1>1. CASE PassStep
  BY <1>1, PassStepTypes DEF StopsCounted
<1>2. CASE TimePasses \/ StopsPasses \/ StartsPasses
  BY <1>2
  DEF StopsCounted, TimePasses, StopsPasses, StartsPasses, PassesTypeOK
<1> QED
  BY <1>1, <1>2, MetricsPass, FilesPass, ConnectionsPass, DirectoriesPass
  DEF WatchNext

-----------------------------------------------------------------------------
(* The monitors that watch the host *)

WatchInv ==
  /\ PassesTypeOK /\ StopsCounted
  /\ MetricsInv /\ FilesInv /\ ConnectionsInv /\ DirectoriesInv

\* All steps keep the invariants of all of them.
LEMMA WatchInvHolds == MonitorsSpec => []WatchInv
<1>1. MonitorsInit => WatchInv
  <2> SUFFICES ASSUME MonitorsInit PROVE WatchInv
    OBVIOUS
  <2>1. PassesTypeOK /\ StopsCounted
    BY PassesTypesInit DEF MonitorsInit, PassesInit, StopsCounted
  <2>2. MetricsInv
    BY MetricsTypesInit, TrafficInvInit, AlertsInvInit
    DEF MonitorsInit, MetricsInv
  <2>3. FilesInv
    BY <2>1, IntegrityInit, OldFilesInit DEF MonitorsInit, FilesInv
  <2>4. ConnectionsInv /\ DirectoriesInv
    BY <2>1, ConnectionsInvInit, DirectoriesInvInit DEF MonitorsInit
  <2> QED
    BY <2>1, <2>2, <2>3, <2>4 DEF WatchInv
<1>2. WatchInv /\ [MonitorsNext]_<<vars, watchVars>> => WatchInv'
  <2> SUFFICES ASSUME WatchInv, [MonitorsNext]_<<vars, watchVars>>
               PROVE  WatchInv'
    OBVIOUS
  <2>1. MetricsTypeOK
    BY DEF WatchInv, MetricsInv
  <2>2. CASE WatchNext
    <3>1. PassesTypeOK' /\ StopsCounted'
      BY <2>1, <2>2, PassesKept, StopsCountedStep DEF WatchInv
    <3>2. MetricsInv' /\ FilesInv'
      BY <2>1, <2>2, MetricsInvStep, FilesInvStep DEF WatchInv
    <3>3. ConnectionsInv' /\ DirectoriesInv'
      BY <2>1, <2>2, ConnectionsInvStep, DirectoriesInvStep DEF WatchInv
    <3> QED
      BY <3>1, <3>2, <3>3 DEF WatchInv
  <2>3. CASE UNCHANGED watchVars
    <3>1. /\ UNCHANGED passVars /\ UNCHANGED metricVars /\ UNCHANGED filesVars
          /\ UNCHANGED connectionVars /\ UNCHANGED directoryVars
          /\ UNCHANGED <<watched, moUp, moNow, moErrors, moStops>>
      BY <2>3 DEF watchVars, notMetrics, passVars
    <3>2. PassesTypeOK' /\ StopsCounted'
      BY <3>1 DEF WatchInv, PassesTypeOK, StopsCounted, passVars
    <3>3. MetricsInv' /\ FilesInv' /\ ConnectionsInv' /\ DirectoriesInv'
      BY <3>1, MetricsRest, FilesRest, ConnectionsRest, DirectoriesRest
      DEF WatchInv
    <3> QED
      BY <3>2, <3>3 DEF WatchInv
  <2> QED
    BY <2>2, <2>3 DEF MonitorsNext
<1> QED
  BY <1>1, <1>2, PTL DEF MonitorsSpec

-----------------------------------------------------------------------------
(* What the monitors guarantee *)

\* All variables of the monitors keep their types, the histories and bounded
\* tables included (monitors/*.py).
THEOREM MonitorsTypeCorrect == MonitorsSpec => []MonitorsTypeOK
<1>1. ReportsInv /\ WatchInv => MonitorsTypeOK
  BY DEF ReportsInv, WatchInv, MetricsInv, FilesInv, IntegrityTypes, FiRuns,
         OldFilesTypes, FilesTypeOK, ConnectionsInv, DirectoriesInv,
         MonitorsTypeOK
<1> QED
  BY <1>1, ReportsInvHolds, WatchInvHolds, PTL

\* A file that differed from its baseline when a round began, and still does,
\* has been told when the monitor rests until the next is due
\* (FileIntegrityMonitor.collect).
THEOREM TamperingIsReported == MonitorsSpec => []TamperingReported
<1>1. WatchInv => TamperingReported
  BY DEF WatchInv, FilesInv, IntegrityInv, TamperingReported
<1> QED
  BY <1>1, WatchInvHolds, PTL

\* Alerts of a resource, an address or a path are a cooldown apart, but for what
\* each monitor forgets or could not record, and checkups an interval
\* (the monitors' collect, _handle_change).
THEOREM AlertsAreSpaced == MonitorsSpec => []AlertsSpaced
<1>1. ReportsInv /\ WatchInv => AlertsSpaced
  BY MetricsProperties, ConnectionsProperties, DirectoriesProperties
  DEF ReportsInv, CheckupInv, WatchInv, AlertsSpaced
<1> QED
  BY <1>1, ReportsInvHolds, WatchInvHolds, PTL

\* What a monitor has seen is told now or was within the cooldown, traffic is in
\* the table once or was lost on its way, what a cooldown suppresses has an
\* alert behind it, and a scan is stored whole.
THEOREM NothingIsMissed == MonitorsSpec => []NothingMissed
<1>1. WatchInv => NothingMissed
  BY MetricsProperties, ConnectionsProperties, DirectoriesProperties
  DEF WatchInv, FilesInv, OldFilesInv, NothingMissed
<1> QED
  BY <1>1, WatchInvHolds, PTL
===============================================================================
