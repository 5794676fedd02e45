--------------------------- MODULE LoginMonitorProofs ---------------------------
(***************************************************************************)
(* What the login monitor guarantees: its types, and that a new user is    *)
(* announced once.                                                         *)
(***************************************************************************)
EXTENDS LoginMonitor, SequenceTheorems, FiniteSetTheorems, TLAPS

\* The alerts of a login of u from ip that may still be out: in their order, and
\* each at most once.
AlertsOf(u, ip) ==
  {<<OffHours(u, ip), NewUser(u), Travel(u)>>,
   <<OffHours(u, ip), NewUser(u)>>, <<OffHours(u, ip), Travel(u)>>,
   <<NewUser(u), Travel(u)>>,
   <<OffHours(u, ip)>>, <<NewUser(u)>>, <<Travel(u)>>}

\* Steps before and after a login is on record, and those about an address.
BeforeRow == {"known", "previous", "success"}
AtAlert == {"anomaly", "publish"}

\* u is about to be announced.
ToBeTold(u) ==
  /\ step \in AtAlert
  /\ \E i \in 1 .. Len(alerts) : alerts[i] = NewUser(u)

\* Where a pass stands: at a line of the kind that its step is about, or behind
\* the last one; its alerts are those of the line, or of an address.
PlaceInv ==
  /\ step = "attempt" => at <= Len(lines) /\ Line.kind = "failure"
  /\ step \in BeforeRow => AtSuccess
  /\ step \in {"count", "usernames"} => at > Len(lines)
  /\ step = "usernames" => \E ip \in Ips : alerts = <<BruteForce(ip)>>
  /\ step \in AtAlert =>
       /\ alerts # <<>>
       /\ at > Len(lines) => \E ip \in Ips : alerts = <<BruteForce(ip)>>
       /\ at <= Len(lines) =>
            /\ Line.kind = "success"
            /\ \E ip \in Ips : alerts \in AlertsOf(Line.user, ip)
  /\ step \in {"asleep", "down", "read"} => lines = <<>> /\ at = 1

\* A user on record was announced, or is about to be, or was cut off; one who
\* was announced is on record, and nobody is about to be who was.
AnnouncedInv ==
  /\ \A u \in Users : told[u] \in {0, 1}
  /\ \A u \in Users : told[u] = 1 => logins[u] # NoLogin
  /\ \A u \in Users : logins[u] # NoLogin =>
       told[u] = 1 \/ u \in cut \/ ToBeTold(u)
  /\ step \in {"previous", "success"} =>
       known = (logins[Line.user] # NoLogin)
  /\ \A u \in Users : ToBeTold(u) => told[u] = 0 /\ logins[u] # NoLogin

LoginsInv ==
  TypeOK /\ PlaceInv /\ ("new_user" \in enabled => AnnouncedInv)

-----------------------------------------------------------------------------
(* Types *)

\* A line is a failure or a success, of its address and user.
LEMMA EntryTypes ==
  ASSUME NEW e \in Entries
  PROVE  /\ e.ip \in Ips
         /\ e.kind \in {"failure", "success"}
         /\ e.kind = "success" => e.user \in Users
<1>1. CASE \E ip \in Ips : e = Failure(ip)
  BY <1>1 DEF Failure
<1>2. CASE \E u \in Users, ip \in Ips : e = Success(u, ip)
  BY <1>2 DEF Success
<1> QED
  BY <1>1, <1>2 DEF Entries

\* What is known of the line a pass is at.
LEMMA LineTypes ==
  ASSUME TypeOK
  PROVE  /\ Len(lines) \in Nat /\ at \in Nat /\ at \in 1 .. Len(lines) + 1
         /\ at <= Len(lines) => /\ Line \in Entries /\ Line.ip \in Ips
                                /\ Line.kind \in {"failure", "success"}
                                /\ Line.kind = "success" => Line.user \in Users
<1>1. lines \in Seq(Entries) /\ at \in 1 .. Len(lines) + 1
  BY DEF TypeOK
<1>2. Len(lines) \in Nat /\ at \in Nat
  BY <1>1, LenProperties
<1>3. at <= Len(lines) => Line \in Entries
  BY <1>1, <1>2, ElementOfSeq DEF Line
<1> QED
  BY <1>1, <1>2, <1>3, EntryTypes

\* Short sequences: joined, their heads and their tails.
LEMMA Joined ==
  ASSUME NEW a, NEW b, NEW c
  PROVE  /\ <<>> \o <<>> = <<>> /\ <<>> \o <<a>> = <<a>> /\ <<a>> \o <<>> = <<a>>
         /\ <<a>> \o <<b>> = <<a, b>> /\ <<a, b>> \o <<>> = <<a, b>>
         /\ <<a, b>> \o <<c>> = <<a, b, c>>
<1>1. /\ <<a>> \in Seq({a, b, c}) /\ <<b>> \in Seq({a, b, c})
      /\ <<c>> \in Seq({a, b, c}) /\ <<a, b>> \in Seq({a, b, c})
      /\ <<a, b, c>> \in Seq({a, b, c})
  OBVIOUS
<1>2. <<a>> \o <<b>> = <<a, b>>
  <2>1. Len(<<a>>) = 1 /\ Len(<<b>>) = 1 /\ Len(<<a, b>>) = 2
    OBVIOUS
  <2>2. /\ <<a>> \o <<b>> \in Seq({a, b, c})
        /\ Len(<<a>> \o <<b>>) = 2
        /\ \A i \in 1 .. 2 : (<<a>> \o <<b>>)[i] =
              IF i <= 1 THEN <<a>>[i] ELSE <<b>>[i - 1]
    BY <1>1, <2>1, ConcatProperties
  <2>3. \A i \in 1 .. 2 : (<<a>> \o <<b>>)[i] = <<a, b>>[i]
    BY <2>2
  <2> QED
    BY <1>1, <2>1, <2>2, <2>3, SeqEqual
<1>3. <<a, b>> \o <<c>> = <<a, b, c>>
  <2>1. Len(<<a, b>>) = 2 /\ Len(<<c>>) = 1 /\ Len(<<a, b, c>>) = 3
    OBVIOUS
  <2>2. /\ <<a, b>> \o <<c>> \in Seq({a, b, c})
        /\ Len(<<a, b>> \o <<c>>) = 3
        /\ \A i \in 1 .. 3 : (<<a, b>> \o <<c>>)[i] =
              IF i <= 2 THEN <<a, b>>[i] ELSE <<c>>[i - 2]
    BY <1>1, <2>1, ConcatProperties
  <2>3. \A i \in 1 .. 3 : (<<a, b>> \o <<c>>)[i] = <<a, b, c>>[i]
    BY <2>2
  <2> QED
    BY <1>1, <2>1, <2>2, <2>3, SeqEqual
<1> QED
  BY <1>2, <1>3

LEMMA Cut ==
  ASSUME NEW S, NEW a \in S, NEW b \in S, NEW c \in S
  PROVE  /\ <<a, b, c>> \in Seq(S) /\ <<a, b>> \in Seq(S) /\ <<a>> \in Seq(S)
         /\ <<a, b, c>> # <<>> /\ <<a, b>> # <<>> /\ <<a>> # <<>>
         /\ Head(<<a, b, c>>) = a /\ Head(<<a, b>>) = a /\ Head(<<a>>) = a
         /\ Tail(<<a, b, c>>) = <<b, c>> /\ Tail(<<a, b>>) = <<b>>
         /\ Tail(<<a>>) = <<>>
OBVIOUS

\* The alerts of a login are among three keys, in their order.
LEMMA AnomaliesType ==
  ASSUME NEW u \in Users, NEW ip \in Ips
  PROVE  /\ AnomaliesOf(u, ip) = <<>> \/ AnomaliesOf(u, ip) \in AlertsOf(u, ip)
         /\ Found(u, ip, NewUser(u)) =>
              \E i \in 1 .. Len(AnomaliesOf(u, ip)) :
                AnomaliesOf(u, ip)[i] = NewUser(u)
         /\ ~Found(u, ip, NewUser(u)) =>
              \A i \in 1 .. Len(AnomaliesOf(u, ip)) :
                AnomaliesOf(u, ip)[i] # NewUser(u)
<1> DEFINE a == OffHours(u, ip)
           b == NewUser(u)
           c == Travel(u)
<1>1. a # b /\ b # c
  BY DEF OffHours, NewUser, Travel
<1>2. AnomaliesOf(u, ip) = IfFound(u, ip, a) \o IfFound(u, ip, b)
                             \o IfFound(u, ip, c)
  BY DEF AnomaliesOf
<1> HIDE DEF a, b, c
<1>3. /\ IfFound(u, ip, a) = IF Found(u, ip, a) THEN <<a>> ELSE <<>>
      /\ IfFound(u, ip, b) = IF Found(u, ip, b) THEN <<b>> ELSE <<>>
      /\ IfFound(u, ip, c) = IF Found(u, ip, c) THEN <<c>> ELSE <<>>
  BY DEF IfFound
<1>4. /\ Found(u, ip, a) /\ Found(u, ip, b) /\ Found(u, ip, c) =>
            AnomaliesOf(u, ip) = <<a, b, c>>
      /\ Found(u, ip, a) /\ Found(u, ip, b) /\ ~Found(u, ip, c) =>
            AnomaliesOf(u, ip) = <<a, b>>
      /\ Found(u, ip, a) /\ ~Found(u, ip, b) /\ Found(u, ip, c) =>
            AnomaliesOf(u, ip) = <<a, c>>
      /\ Found(u, ip, a) /\ ~Found(u, ip, b) /\ ~Found(u, ip, c) =>
            AnomaliesOf(u, ip) = <<a>>
      /\ ~Found(u, ip, a) /\ Found(u, ip, b) /\ Found(u, ip, c) =>
            AnomaliesOf(u, ip) = <<b, c>>
      /\ ~Found(u, ip, a) /\ Found(u, ip, b) /\ ~Found(u, ip, c) =>
            AnomaliesOf(u, ip) = <<b>>
      /\ ~Found(u, ip, a) /\ ~Found(u, ip, b) /\ Found(u, ip, c) =>
            AnomaliesOf(u, ip) = <<c>>
      /\ ~Found(u, ip, a) /\ ~Found(u, ip, b) /\ ~Found(u, ip, c) =>
            AnomaliesOf(u, ip) = <<>>
  <2> DEFINE fa == Found(u, ip, a)
             fb == Found(u, ip, b)
             fc == Found(u, ip, c)
             r == AnomaliesOf(u, ip)
             ra == IfFound(u, ip, a)
             rb == IfFound(u, ip, b)
             rc == IfFound(u, ip, c)
  <2>1. /\ r = ra \o rb \o rc
        /\ fa => ra = <<a>>
        /\ ~fa => ra = <<>>
        /\ fb => rb = <<b>>
        /\ ~fb => rb = <<>>
        /\ fc => rc = <<c>>
        /\ ~fc => rc = <<>>
    BY <1>2, <1>3
  <2> HIDE DEF fa, fb, fc, r, ra, rb, rc
  <2>2. fa /\ fb => ra \o rb = <<a, b>>
    BY <2>1, Joined
  <2>3. fa /\ ~fb => ra \o rb = <<a>>
    BY <2>1, Joined
  <2>4. ~fa /\ fb => ra \o rb = <<b>>
    BY <2>1, Joined
  <2>5. ~fa /\ ~fb => ra \o rb = <<>>
    BY <2>1, Joined
  <2>6. fa /\ fb /\ fc => r = <<a, b, c>>
    BY <2>1, <2>2, Joined
  <2>7. fa /\ fb /\ ~fc => r = <<a, b>>
    BY <2>1, <2>2, Joined
  <2>8. fa /\ ~fb /\ fc => r = <<a, c>>
    BY <2>1, <2>3, Joined
  <2>9. fa /\ ~fb /\ ~fc => r = <<a>>
    BY <2>1, <2>3, Joined
  <2>10. ~fa /\ fb /\ fc => r = <<b, c>>
    BY <2>1, <2>4, Joined
  <2>11. ~fa /\ fb /\ ~fc => r = <<b>>
    BY <2>1, <2>4, Joined
  <2>12. ~fa /\ ~fb /\ fc => r = <<c>>
    BY <2>1, <2>5, Joined
  <2>13. ~fa /\ ~fb /\ ~fc => r = <<>>
    BY <2>1, <2>5, Joined
  <2> QED
    BY <2>6, <2>7, <2>8, <2>9, <2>10, <2>11, <2>12, <2>13
       DEF fa, fb, fc, r
<1>5. AlertsOf(u, ip) = {<<a, b, c>>, <<a, b>>, <<a, c>>, <<b, c>>, <<a>>, <<b>>,
                         <<c>>}
  BY DEF AlertsOf, a, b, c
<1>6. AnomaliesOf(u, ip) = <<>> \/ AnomaliesOf(u, ip) \in AlertsOf(u, ip)
  BY <1>4, <1>5
<1>7. Found(u, ip, b) => \E i \in 1 .. Len(AnomaliesOf(u, ip)) :
                           AnomaliesOf(u, ip)[i] = b
  BY <1>4
<1>8. ~Found(u, ip, b) => \A i \in 1 .. Len(AnomaliesOf(u, ip)) :
                            AnomaliesOf(u, ip)[i] # b
  BY <1>1, <1>4
<1> QED
  BY <1>6, <1>7, <1>8 DEF b

\* They are keys; the head of such alerts is one, and what is left is none or
\* such alerts again, in which the head does not come back.
LEMMA AlertsOfTypes ==
  ASSUME NEW u \in Users, NEW ip \in Ips, NEW s \in AlertsOf(u, ip)
  PROVE  /\ s \in Seq(Keys) /\ s # <<>>
         /\ Head(s) \in Keys /\ Tail(s) \in Seq(Keys)
         /\ Tail(s) = <<>> \/ Tail(s) \in AlertsOf(u, ip)
         /\ \A i \in 1 .. Len(Tail(s)) : Tail(s)[i] # Head(s)
         /\ \A i \in 1 .. Len(s) : s[i] = Head(s) \/
              \E j \in 1 .. Len(Tail(s)) : Tail(s)[j] = s[i]
         /\ \A j \in 1 .. Len(Tail(s)) :
              \E i \in 1 .. Len(s) : s[i] = Tail(s)[j]
         /\ \A i \in 1 .. Len(s) : \A v : s[i] = NewUser(v) => v = u
<1> DEFINE a == OffHours(u, ip)
           b == NewUser(u)
           c == Travel(u)
<1>1. a # b /\ b # c /\ a # c
  BY DEF OffHours, NewUser, Travel
<1>2. /\ a \in Keys /\ b \in Keys /\ c \in Keys
      /\ \A v : a # NewUser(v) /\ c # NewUser(v) /\ (b = NewUser(v) => v = u)
  BY DEF Keys, OffHours, NewUser, Travel
<1>3. s \in {<<a, b, c>>, <<a, b>>, <<a, c>>, <<b, c>>, <<a>>, <<b>>, <<c>>}
  BY DEF AlertsOf
<1> HIDE DEF a, b, c
<1>4. s \in Seq(Keys) /\ s # <<>> /\ Head(s) \in Keys /\ Tail(s) \in Seq(Keys)
      /\ Tail(s) \in {<<>>, <<b, c>>, <<b>>, <<c>>}
  <2>1. <<>> \in Seq(Keys)
    OBVIOUS
  <2>2. CASE s = <<a, b, c>>
    BY <1>2, <2>1, <2>2, Cut
  <2>3. CASE s = <<a, b>>
    BY <1>2, <2>1, <2>3, Cut
  <2>4. CASE s = <<a, c>>
    BY <1>2, <2>1, <2>4, Cut
  <2>5. CASE s = <<b, c>>
    BY <1>2, <2>1, <2>5, Cut
  <2>6. CASE s = <<a>>
    BY <1>2, <2>1, <2>6, Cut
  <2>7. CASE s = <<b>>
    BY <1>2, <2>1, <2>7, Cut
  <2>8. CASE s = <<c>>
    BY <1>2, <2>1, <2>8, Cut
  <2> QED
    BY <1>3, <2>2, <2>3, <2>4, <2>5, <2>6, <2>7, <2>8
<1>6. \A i \in 1 .. Len(Tail(s)) : Tail(s)[i] # Head(s)
  BY <1>1, <1>3
<1>7. /\ \A i \in 1 .. Len(s) : s[i] = Head(s) \/
           \E j \in 1 .. Len(Tail(s)) : Tail(s)[j] = s[i]
      /\ \A j \in 1 .. Len(Tail(s)) : \E i \in 1 .. Len(s) : s[i] = Tail(s)[j]
  BY <1>3
<1>8. \A i \in 1 .. Len(s) : \A v : s[i] = NewUser(v) => v = u
  BY <1>2, <1>3
<1>9. Tail(s) = <<>> \/ Tail(s) \in AlertsOf(u, ip)
  BY <1>4 DEF AlertsOf, a, b, c
<1> QED
  BY <1>4, <1>6, <1>7, <1>8, <1>9

-----------------------------------------------------------------------------
(* Where a pass goes on *)

\* When collect goes on it is at a line of a kind, behind the last one, or
\* over; no alert is left, and nobody is about to be announced.
LEMMA ContinueStep ==
  ASSUME TypeOK, NEW ls \in Seq(Entries), NEW k \in 1 .. Len(ls) + 1,
         NEW ips \in SUBSET Ips, Continue(ls, k, ips)
  PROVE  /\ step' \in {"attempt", "known", "count", "asleep"}
         /\ wakeAt' \in Nat /\ pass' \in Times
         /\ lines' \in Seq(Entries) /\ at' \in 1 .. Len(lines') + 1
         /\ affected' \subseteq Ips
         /\ known' \in BOOLEAN /\ previous' \in Ips \union {NoIp}
         /\ alerts' \in Seq(Keys)
         /\ PlaceInv'
         /\ \A u : ~ToBeTold(u)'
<1>0. /\ now \in Nat /\ Pause \in Nat /\ wakeAt \in Nat /\ pass \in Times
      /\ 0 \in Times
  BY LoginsAssumption DEF TypeOK, Times
<1>1. Len(ls) \in Nat /\ k \in Nat
  BY LenProperties
<1>2. <<>> \in Seq(Keys) /\ <<>> \in Seq(Entries) /\ Len(<<>>) = 0
  OBVIOUS
<1>3. CASE StepAt(ls, k, ips) = "asleep"
  <2>1. /\ step' = "asleep" /\ wakeAt' = now + Pause
        /\ pass' = 0 /\ lines' = <<>> /\ at' = 1 /\ affected' = {}
        /\ known' = FALSE /\ previous' = NoIp /\ alerts' = <<>>
    BY <1>3 DEF Continue, Returns, Forgets
  <2>2. wakeAt' \in Nat
    BY <1>0, <2>1
  <2>3. at' \in 1 .. Len(lines') + 1
    BY <1>2, <2>1
  <2>4. PlaceInv'
    BY <2>1 DEF PlaceInv, BeforeRow, AtAlert
  <2>5. \A u : ~ToBeTold(u)'
    BY <2>1 DEF ToBeTold, AtAlert
  <2> QED
    BY <1>0, <1>2, <2>1, <2>2, <2>3, <2>4, <2>5
<1>4. CASE StepAt(ls, k, ips) # "asleep"
  <2>1. /\ step' = StepAt(ls, k, ips) /\ lines' = ls /\ at' = k
        /\ affected' = ips
        /\ known' = FALSE /\ previous' = NoIp /\ alerts' = <<>>
        /\ wakeAt' = wakeAt /\ pass' = pass
    BY <1>4 DEF Continue
  <2>2. \/ step' = "attempt" /\ k <= Len(ls) /\ ls[k].kind = "failure"
        \/ step' = "known" /\ k <= Len(ls) /\ ls[k].kind = "success"
        \/ step' = "count" /\ k > Len(ls)
    BY <1>4, <2>1 DEF StepAt
  <2>3. PlaceInv'
    <3>1. CASE step' = "attempt"
      BY <2>1, <2>2, <3>1 DEF PlaceInv, BeforeRow, AtAlert, Line
    <3>2. CASE step' = "known"
      BY <2>1, <2>2, <3>2 DEF PlaceInv, BeforeRow, AtAlert, Line, AtSuccess
    <3>3. CASE step' = "count"
      BY <2>1, <2>2, <3>3 DEF PlaceInv, BeforeRow, AtAlert
    <3> QED
      BY <2>2, <3>1, <3>2, <3>3
  <2>4. \A u : ~ToBeTold(u)'
    BY <2>2 DEF ToBeTold, AtAlert
  <2> QED
    BY <1>0, <1>2, <2>1, <2>2, <2>3, <2>4
<1> QED
  BY <1>3, <1>4

\* The same when a pass returns.
LEMMA ReturnsStep ==
  ASSUME TypeOK, Returns
  PROVE  /\ step' = "asleep"
         /\ wakeAt' \in Nat /\ pass' \in Times
         /\ lines' \in Seq(Entries) /\ at' \in 1 .. Len(lines') + 1
         /\ affected' \subseteq Ips
         /\ known' \in BOOLEAN /\ previous' \in Ips \union {NoIp}
         /\ alerts' \in Seq(Keys)
         /\ PlaceInv'
         /\ \A u : ~ToBeTold(u)'
<1>0. /\ now \in Nat /\ Pause \in Nat /\ 0 \in Times
  BY LoginsAssumption DEF TypeOK, Times
<1>2. <<>> \in Seq(Keys) /\ <<>> \in Seq(Entries) /\ Len(<<>>) = 0
  OBVIOUS
<1>3. /\ step' = "asleep" /\ wakeAt' = now + Pause
      /\ pass' = 0 /\ lines' = <<>> /\ at' = 1 /\ affected' = {}
      /\ known' = FALSE /\ previous' = NoIp /\ alerts' = <<>>
  BY DEF Returns, Forgets
<1>4. at' \in 1 .. Len(lines') + 1
  BY <1>2, <1>3
<1>5. wakeAt' \in Nat
  BY <1>0, <1>3
<1>6. PlaceInv'
  BY <1>3 DEF PlaceInv, BeforeRow, AtAlert
<1>7. \A u : ~ToBeTold(u)'
  BY <1>3 DEF ToBeTold, AtAlert
<1> QED
  BY <1>0, <1>2, <1>3, <1>4, <1>5, <1>6, <1>7

\* What the source offers are lines that sshd wrote.
LEMMA OfferedType ==
  ASSUME TypeOK, NEW source \in Sources
  PROVE  Offered(source) \in Seq(Lines)
<1>1. log \in Seq(Lines) /\ Len(log) \in Nat
  BY LenProperties DEF TypeOK
<1>2. Cardinality(Older) \in Nat /\ Cardinality(Older) <= Len(log)
  <2>1. IsFiniteSet(1 .. Len(log)) /\ Cardinality(1 .. Len(log)) = Len(log)
    BY <1>1, FS_Interval
  <2>2. Older \subseteq 1 .. Len(log)
    BY DEF Older
  <2>3. IsFiniteSet(Older) /\ Cardinality(Older) <= Cardinality(1 .. Len(log))
    BY <2>1, <2>2, FS_Subset
  <2> QED
    BY <2>1, <2>3, FS_CardinalityType
<1>3. SubSeq(log, Cardinality(Older) + 1, Len(log)) \in Seq(Lines)
  BY <1>1, <1>2, SubSeqProperties
<1>4. source \in {"journald", "auth_log", "none"}
  BY LoginsAssumption
<1>5. <<>> \in Seq(Lines)
  OBVIOUS
<1>6. CASE source = "journald"
  BY <1>3, <1>6 DEF Offered
<1>7. CASE source = "auth_log"
  BY <1>1, <1>7 DEF Offered
<1>8. CASE source = "none"
  BY <1>5, <1>8 DEF Offered
<1> QED
  BY <1>4, <1>6, <1>7, <1>8

\* The lines that collect goes through are of failures and successes.
LEMMA LinesOffered ==
  ASSUME NEW s \in Seq(Lines)
  PROVE  [i \in 1 .. Len(s) |-> s[i].entry] \in Seq(Entries)
<1>1. Len(s) \in Nat
  BY LenProperties
<1>2. \A i \in 1 .. Len(s) : s[i] \in Lines
  BY ElementOfSeq
<1>3. \A i \in 1 .. Len(s) : s[i].entry \in Entries
  BY <1>2 DEF Lines
<1> QED
  BY <1>1, <1>3, IsASeq

-----------------------------------------------------------------------------
(* The tables *)

\* The row of a failed login, of a successful one and of an anomaly.
LEMMA RowTypes ==
  ASSUME TypeOK, PlaceInv
  PROVE  /\ step = "attempt" => AttemptRow \in [Ips -> [Times -> Nat]]
         /\ step = "success" =>
              /\ SuccessRow \in [Users -> [ip : Ips, at : Times] \union {NoLogin}]
              /\ Line.user \in Users
              /\ SuccessRow[Line.user] # NoLogin
              /\ \A u \in Users \ {Line.user} : SuccessRow[u] = logins[u]
         /\ step \in AtAlert => /\ Alert \in Keys
                                /\ Tail(alerts) \in Seq(Keys)
         /\ AtSuccess => Line.user \in Users
         /\ logins \in [Users -> [ip : Ips, at : Times] \union {NoLogin}]
<1>0. /\ attempts \in [Ips -> [Times -> Nat]] /\ pass \in Times
      /\ logins \in [Users -> [ip : Ips, at : Times] \union {NoLogin}]
      /\ alerts \in Seq(Keys) /\ at \in Nat /\ Len(lines) \in Nat
  BY LineTypes DEF TypeOK
<1>1. ASSUME step = "attempt"
      PROVE  AttemptRow \in [Ips -> [Times -> Nat]]
  <2>1. Line.ip \in Ips
    BY <1>1, LineTypes DEF PlaceInv
  <2> DEFINE row == [attempts[Line.ip] EXCEPT ![pass] = @ + 1]
  <2>2. attempts[Line.ip] \in [Times -> Nat]
    BY <1>0, <2>1
  <2>3. row \in [Times -> Nat]
    BY <1>0, <2>2
  <2>4. AttemptRow = [attempts EXCEPT ![Line.ip] = row]
    BY <1>0, <2>1 DEF AttemptRow, ObservedAt
  <2> HIDE DEF row
  <2> QED
    BY <1>0, <2>1, <2>3, <2>4
<1>2. ASSUME AtSuccess
      PROVE  Line.user \in Users /\ Line.ip \in Ips
  BY <1>0, <1>2, LineTypes DEF AtSuccess
<1>3. ASSUME step = "success"
      PROVE  /\ SuccessRow \in [Users -> [ip : Ips, at : Times] \union {NoLogin}]
             /\ Line.user \in Users
             /\ SuccessRow[Line.user] # NoLogin
             /\ \A u \in Users \ {Line.user} : SuccessRow[u] = logins[u]
  <2>1. Line.user \in Users /\ Line.ip \in Ips
    BY <1>2, <1>3 DEF PlaceInv, BeforeRow
  <2>2. PICK row \in [ip : Ips, at : Times] :
          row = [ip |-> Line.ip, at |-> ObservedAt]
    BY <1>0, <2>1 DEF ObservedAt
  <2>3. row # NoLogin
    BY <2>1, <2>2, LoginsAssumption DEF NoLogin
  <2>4. SuccessRow = [logins EXCEPT ![Line.user] = row]
    BY <2>2 DEF SuccessRow
  <2> QED
    BY <1>0, <2>1, <2>2, <2>3, <2>4
<1>4. ASSUME step \in AtAlert
      PROVE  Alert \in Keys /\ Tail(alerts) \in Seq(Keys)
  <2>1. alerts # <<>>
    BY <1>4 DEF PlaceInv
  <2> QED
    BY <1>0, <2>1, HeadTailProperties DEF Alert
<1> QED
  BY <1>0, <1>1, <1>2, <1>3, <1>4

\* The tables after a pass was cut off.
LEMMA TablesCut ==
  ASSUME TypeOK, PlaceInv, CutOff
  PROVE  /\ attempts' \in [Ips -> [Times -> Nat]]
         /\ logins' \in [Users -> [ip : Ips, at : Times] \union {NoLogin}]
         /\ anomalies' \subseteq Keys
         /\ cut' \subseteq Users /\ cut \subseteq cut'
         /\ AtSuccess => Line.user \in cut'
         /\ \A u \in Users : logins'[u] = logins[u] \/
              (AtSuccess /\ u = Line.user /\ logins'[u] # NoLogin)
<1>1. /\ attempts \in [Ips -> [Times -> Nat]] /\ anomalies \subseteq Keys
      /\ cut \subseteq Users
      /\ logins \in [Users -> [ip : Ips, at : Times] \union {NoLogin}]
  BY DEF TypeOK
<1>2. /\ attempts' = attempts \/ (step = "attempt" /\ attempts' = AttemptRow)
      /\ logins' = logins \/ (step = "success" /\ logins' = SuccessRow)
      /\ anomalies' = anomalies
           \/ (step = "anomaly" /\ anomalies' = anomalies \union {Alert})
      /\ cut' = IF AtSuccess THEN cut \union {Line.user} ELSE cut
  BY DEF CutOff, TablesAfterCut
<1>3. step = "success" => AtSuccess
  BY DEF PlaceInv, BeforeRow
<1>4. attempts' \in [Ips -> [Times -> Nat]]
  BY <1>1, <1>2, RowTypes
<1>5. logins' \in [Users -> [ip : Ips, at : Times] \union {NoLogin}]
  BY <1>1, <1>2, RowTypes
<1>6. anomalies' \subseteq Keys
  BY <1>1, <1>2, RowTypes DEF AtAlert
<1>7. /\ cut' \subseteq Users /\ cut \subseteq cut'
      /\ AtSuccess => Line.user \in cut'
  BY <1>1, <1>2, RowTypes
<1>8. \A u \in Users : logins'[u] = logins[u] \/
        (AtSuccess /\ u = Line.user /\ logins'[u] # NoLogin)
  BY <1>2, <1>3, RowTypes
<1> QED
  BY <1>4, <1>5, <1>6, <1>7, <1>8

\* The alerts of an address, and what is left of them: nothing.
LEMMA AttackAlerts ==
  ASSUME NEW ip \in Ips
  PROVE  /\ <<BruteForce(ip)>> \in Seq(Keys) /\ <<BruteForce(ip)>> # <<>>
         /\ Len(<<BruteForce(ip)>>) = 1
         /\ \A u : BruteForce(ip) # NewUser(u)
BY DEF BruteForce, Keys, NewUser

\* Nobody is about to be announced while a pass deals with an address.
LEMMA NobodyAtAttack ==
  ASSUME TypeOK, PlaceInv, at > Len(lines)
  PROVE  \A u : ~ToBeTold(u)
<1> SUFFICES ASSUME NEW u, ToBeTold(u)
             PROVE  FALSE
  OBVIOUS
<1>1. PICK ip \in Ips : alerts = <<BruteForce(ip)>>
  BY DEF ToBeTold, PlaceInv
<1>2. \A i \in 1 .. Len(alerts) : alerts[i] = BruteForce(ip)
  BY <1>1
<1> QED
  BY <1>2, AttackAlerts DEF ToBeTold

\* Only the user of the line can be about to be announced.
LEMMA OnlyUserOfLine ==
  ASSUME TypeOK, PlaceInv, NEW u, ToBeTold(u)
  PROVE  AtSuccess /\ Line.user = u
<1>1. at \in Nat /\ Len(lines) \in Nat
  BY LineTypes
<1>2. at <= Len(lines)
  BY <1>1, NobodyAtAttack
<1>3. AtSuccess /\ \E ip \in Ips : alerts \in AlertsOf(Line.user, ip)
  BY <1>2 DEF ToBeTold, PlaceInv, AtSuccess
<1>4. Line.user \in Users
  BY <1>3, RowTypes
<1> QED
  BY <1>3, <1>4, AlertsOfTypes DEF ToBeTold
-----------------------------------------------------------------------------
(* At the start *)

LEMMA LoginsInit ==
  Init => LoginsInv
<1> SUFFICES ASSUME Init
             PROVE  LoginsInv
  OBVIOUS
<1>0. /\ 0 \in Times /\ MaxErrors \in Nat /\ MaxStops \in Nat
      /\ MaxLines \in Nat
      /\ <<>> \in Seq(Keys) /\ <<>> \in Seq(Entries) /\ <<>> \in Seq(Lines)
      /\ Len(<<>>) = 0
  BY LoginsAssumption DEF Times
<1>1. enabled \subseteq Anomalies
  BY LoginsAssumption DEF Init
<1>2. TypeOK
  <2>1. attempts \in [Ips -> [Times -> Nat]]
    BY DEF Init
  <2>2. /\ logins \in [Users -> [ip : Ips, at : Times] \union {NoLogin}]
        /\ told \in [Users -> Nat]
        /\ lastByIp \in [Ips -> Times \union {Never}]
        /\ lastByKey \in [Keys -> Times \union {Never}]
    BY DEF Init
  <2>3. at \in 1 .. Len(lines) + 1 /\ Len(log) <= MaxLines
    BY <1>0 DEF Init
  <2>4. /\ now \in Times /\ pass \in Times /\ wakeAt \in Nat
        /\ errors \in 0 .. MaxErrors /\ stops \in 0 .. MaxStops
    BY <1>0 DEF Init
  <2>5. /\ lines \in Seq(Entries) /\ log \in Seq(Lines)
        /\ alerts \in Seq(Keys) /\ step \in Steps /\ affected \subseteq Ips
        /\ known \in BOOLEAN /\ previous \in Ips \union {NoIp}
        /\ anomalies \subseteq Keys /\ cut \subseteq Users
    BY <1>0 DEF Init, Steps
  <2> QED
    BY <1>1, <2>1, <2>2, <2>3, <2>4, <2>5 DEF TypeOK
<1>3. PlaceInv
  BY DEF Init, PlaceInv, BeforeRow, AtAlert
<1>4. AnnouncedInv
  BY DEF Init, AnnouncedInv, ToBeTold, AtAlert
<1> QED
  BY <1>2, <1>3, <1>4 DEF LoginsInv

-----------------------------------------------------------------------------
(* Types and the place, step by step *)

\* What a step must give for the types: the loop's part, and the rest.
LoopOK ==
  /\ step \in Steps /\ wakeAt \in Nat /\ pass \in Times
  /\ lines \in Seq(Entries) /\ at \in 1 .. Len(lines) + 1
  /\ affected \subseteq Ips
  /\ known \in BOOLEAN /\ previous \in Ips \union {NoIp}
  /\ alerts \in Seq(Keys)

TablesOK ==
  /\ attempts \in [Ips -> [Times -> Nat]]
  /\ logins \in [Users -> [ip : Ips, at : Times] \union {NoLogin}]
  /\ anomalies \subseteq Keys

LastOK ==
  /\ lastByIp \in [Ips -> Times \union {Never}]
  /\ lastByKey \in [Keys -> Times \union {Never}]

WorldOK ==
  /\ enabled \subseteq Anomalies
  /\ now \in Times
  /\ log \in Seq(Lines) /\ Len(log) <= MaxLines

BoundsOK == errors \in 0 .. MaxErrors /\ stops \in 0 .. MaxStops

HistoryOK == told \in [Users -> Nat] /\ cut \subseteq Users

LEMMA TypeParts ==
  TypeOK <=> /\ LoopOK /\ TablesOK /\ LastOK /\ WorldOK /\ BoundsOK
             /\ HistoryOK
BY DEF TypeOK, LoopOK, TablesOK, LastOK, WorldOK, BoundsOK, HistoryOK

\* A part that a step leaves alone stays as it is.
LEMMA Frames ==
  /\ LoopOK /\ UNCHANGED <<loopVars, lineVars>> => LoopOK'
  /\ TablesOK /\ UNCHANGED tableVars => TablesOK'
  /\ LastOK /\ UNCHANGED lastVars => LastOK'
  /\ WorldOK /\ UNCHANGED worldVars => WorldOK'
  /\ BoundsOK /\ UNCHANGED boundVars => BoundsOK'
  /\ HistoryOK /\ UNCHANGED historyVars => HistoryOK'
BY DEF LoopOK, TablesOK, LastOK, WorldOK, BoundsOK, HistoryOK, loopVars,
       lineVars, tableVars, lastVars, worldVars, boundVars, historyVars

\* The loop after a pass goes on, and after it returns.
LEMMA LoopContinues ==
  ASSUME TypeOK, NEW ls \in Seq(Entries), NEW k \in 1 .. Len(ls) + 1,
         NEW ips \in SUBSET Ips, Continue(ls, k, ips)
  PROVE  LoopOK' /\ PlaceInv' /\ \A u : ~ToBeTold(u)'
<1>1. step' \in Steps
  BY ContinueStep DEF Steps
<1> QED
  BY <1>1, ContinueStep DEF LoopOK

\* The same for the next line, and for the next address.
LEMMA NextLineContinues ==
  ASSUME TypeOK, at <= Len(lines), NEW ips \in SUBSET Ips, NextLine(ips)
  PROVE  LoopOK' /\ PlaceInv' /\ \A u : ~ToBeTold(u)'
<1>1. lines \in Seq(Entries) /\ at + 1 \in 1 .. Len(lines) + 1
  BY LineTypes DEF TypeOK
<1> QED
  BY <1>1, LoopContinues DEF NextLine

LEMMA NextIpContinues ==
  ASSUME TypeOK, NEW ip, NextIp(ip)
  PROVE  LoopOK' /\ PlaceInv' /\ \A u : ~ToBeTold(u)'
<1>1. /\ lines \in Seq(Entries) /\ at \in 1 .. Len(lines) + 1
      /\ affected \ {ip} \in SUBSET Ips
  BY DEF TypeOK
<1> QED
  BY <1>1, LoopContinues DEF NextIp

LEMMA LoopReturns ==
  ASSUME TypeOK, Returns
  PROVE  LoopOK' /\ PlaceInv' /\ \A u : ~ToBeTold(u)'
<1>1. step' \in Steps
  BY ReturnsStep DEF Steps
<1> QED
  BY <1>1, ReturnsStep DEF LoopOK

\* Every step keeps the types and the place.
LEMMA TypeStep ==
  TypeOK /\ PlaceInv /\ [Next]_vars => TypeOK' /\ PlaceInv'
<1> SUFFICES ASSUME TypeOK, PlaceInv, [Next]_vars
             PROVE  TypeOK' /\ PlaceInv'
  OBVIOUS
<1>0. LoopOK /\ TablesOK /\ LastOK /\ WorldOK /\ BoundsOK /\ HistoryOK
  BY TypeParts
<1>a. SUFFICES /\ LoopOK' /\ TablesOK' /\ LastOK' /\ WorldOK' /\ BoundsOK'
               /\ HistoryOK' /\ PlaceInv'
  BY DEF TypeOK, LoopOK, TablesOK, LastOK, WorldOK, BoundsOK, HistoryOK
<1>b. /\ at \in Nat /\ Len(lines) \in Nat /\ at \in 1 .. Len(lines) + 1
      /\ lines \in Seq(Entries) /\ affected \subseteq Ips
      /\ now \in Times /\ pass \in Times /\ 0 \in Times
      /\ MaxTime \in Nat /\ MaxErrors \in Nat /\ MaxStops \in Nat
      /\ MaxLines \in Nat
  <2>1. /\ at \in Nat /\ Len(lines) \in Nat /\ at \in 1 .. Len(lines) + 1
    BY LineTypes
  <2>2. /\ MaxTime \in Nat /\ MaxErrors \in Nat /\ MaxStops \in Nat
        /\ MaxLines \in Nat /\ 0 \in Times
    BY LoginsAssumption DEF Times
  <2> QED
    BY <2>1, <2>2 DEF TypeOK
<1>1. CASE UNCHANGED vars
  <2>1. PlaceInv'
    BY <1>1 DEF vars, loopVars, lineVars, PlaceInv, Line, AtSuccess
  <2> QED
    BY <1>0, <1>1, <2>1, Frames DEF vars
<1>2. CASE Collect
  <2>1. /\ step' = "read" /\ pass' = now /\ wakeAt' = 0
        /\ UNCHANGED <<lines, at, affected, known, previous, alerts>>
    BY <1>2 DEF Collect, lineVars
  <2>2. LoopOK'
    BY <1>0, <1>b, <2>1 DEF LoopOK, Steps
  <2>3. PlaceInv'
    BY <1>2, <2>1 DEF PlaceInv, BeforeRow, AtAlert, Collect
  <2> QED
    BY <1>0, <1>2, <2>2, <2>3, Frames DEF Collect
<1>3. CASE ReadNewLogLines
  <2>1. PICK source \in Sources :
          Continue([i \in 1 .. Len(Offered(source)) |->
                      Offered(source)[i].entry], 1, {})
    BY <1>3 DEF ReadNewLogLines
  <2> DEFINE ls == [i \in 1 .. Len(Offered(source)) |->
                      Offered(source)[i].entry]
  <2>2. ls \in Seq(Entries)
    BY OfferedType, LinesOffered
  <2> HIDE DEF ls
  <2>3. 1 \in 1 .. Len(ls) + 1
    BY <2>2, LenProperties
  <2>4. Continue(ls, 1, {})
    BY <2>1 DEF ls
  <2>5. LoopOK' /\ PlaceInv'
    BY <2>2, <2>3, <2>4, LoopContinues
  <2> QED
    BY <1>0, <1>3, <2>5, Frames DEF ReadNewLogLines
<1>4. CASE KnownRead
  <2>1. /\ step = "known" /\ step' = "previous"
        /\ known' = HasSuccessfulLogin(Line.user)
        /\ UNCHANGED <<wakeAt, pass, lines, at, affected, previous, alerts>>
    BY <1>4 DEF KnownRead
  <2>2. known' \in BOOLEAN
    BY <2>1 DEF HasSuccessfulLogin
  <2>3. LoopOK'
    BY <1>0, <2>1, <2>2 DEF LoopOK, Steps
  <2>4. PlaceInv'
    BY <2>1 DEF PlaceInv, BeforeRow, AtAlert, AtSuccess, Line
  <2> QED
    BY <1>0, <1>4, <2>3, <2>4, Frames DEF KnownRead
<1>5. CASE PreviousRead
  <2>1. /\ step = "previous" /\ step' = "success"
        /\ previous' = LatestSuccessfulLogin(Line.user)
        /\ UNCHANGED <<wakeAt, pass, lines, at, affected, known, alerts>>
    BY <1>5 DEF PreviousRead
  <2>2. previous' \in Ips \union {NoIp}
    <3>1. Line.user \in Users
      BY <2>1, RowTypes DEF PlaceInv, BeforeRow
    <3>2. logins[Line.user] \in [ip : Ips, at : Times] \union {NoLogin}
      BY <3>1, RowTypes
    <3> QED
      BY <2>1, <3>2 DEF LatestSuccessfulLogin
  <2>3. LoopOK'
    BY <1>0, <2>1, <2>2 DEF LoopOK, Steps
  <2>4. PlaceInv'
    BY <2>1 DEF PlaceInv, BeforeRow, AtAlert, AtSuccess, Line
  <2> QED
    BY <1>0, <1>5, <2>3, <2>4, Frames DEF PreviousRead
<1>6. CASE SuccessRecorded
  <2>1. /\ step = "success" /\ logins' = SuccessRow
        /\ UNCHANGED <<attempts, anomalies>>
    BY <1>6 DEF SuccessRecorded
  <2>2. AtSuccess /\ Line.user \in Users /\ Line.ip \in Ips
    BY <1>b, <2>1, LineTypes DEF PlaceInv, BeforeRow, AtSuccess
  <2>3. TablesOK'
    BY <1>0, <2>1, RowTypes DEF TablesOK
  <2> DEFINE found == AnomaliesOf(Line.user, Line.ip)
  <2>4. LoopOK' /\ PlaceInv'
    <3>1. CASE found = <<>>
      <4>1. NextLine(affected)
        BY <1>6, <3>1 DEF SuccessRecorded
      <4> QED
        BY <1>b, <2>2, <4>1, NextLineContinues DEF AtSuccess
    <3>2. CASE found # <<>>
      <4>1. /\ step' = "anomaly" /\ alerts' = found
            /\ UNCHANGED <<wakeAt, pass, lines, at, affected, known, previous>>
        BY <1>6, <3>2 DEF SuccessRecorded
      <4>2. found \in AlertsOf(Line.user, Line.ip)
        BY <2>2, <3>2, AnomaliesType
      <4> HIDE DEF found
      <4>3. found \in Seq(Keys)
        BY <2>2, <4>2, AlertsOfTypes
      <4>4. LoopOK'
        BY <1>0, <4>1, <4>3 DEF LoopOK, Steps
      <4>5. Line' = Line
        BY <4>1 DEF Line
      <4>6. alerts' \in AlertsOf(Line'.user, Line.ip)
        BY <4>1, <4>2, <4>5
      <4>7. PlaceInv'
        BY <1>b, <2>2, <3>2, <4>1, <4>5, <4>6
           DEF PlaceInv, BeforeRow, AtAlert, AtSuccess
      <4> QED
        BY <4>4, <4>7
    <3> QED
      BY <3>1, <3>2
  <2> QED
    BY <1>0, <1>6, <2>3, <2>4, Frames DEF SuccessRecorded
<1>7. CASE LoginPublished
  <2>1. /\ step = "publish" /\ at <= Len(lines)
        /\ Told(Alert) /\ lastByKey' = LastByKey
        /\ UNCHANGED <<lastByIp, cut>>
    BY <1>7 DEF LoginPublished
  <2>2. PICK ip \in Ips : alerts \in AlertsOf(Line.user, ip)
    BY <2>1 DEF PlaceInv, AtAlert
  <2>3. Line.kind = "success" /\ Line.user \in Users
    BY <2>1, LineTypes DEF PlaceInv, AtAlert
  <2>4. Alert \in Keys
    BY <2>2, <2>3, AlertsOfTypes DEF Alert
  <2>5. LastOK'
    BY <1>0, <1>b, <2>1, <2>4 DEF LastOK, LastByKey, ObservedAt
  <2>6. HistoryOK'
    BY <1>0, <2>1 DEF HistoryOK, Told
  <2>7. LoopOK' /\ PlaceInv'
    <3>1. CASE Tail(alerts) = <<>>
      <4>1. NextLine(affected)
        BY <1>7, <3>1 DEF LoginPublished
      <4> QED
        BY <1>b, <2>1, <4>1, NextLineContinues
    <3>2. CASE Tail(alerts) # <<>>
      <4>1. /\ step' = "anomaly" /\ alerts' = Tail(alerts)
            /\ UNCHANGED <<wakeAt, pass, lines, at, affected, known, previous>>
        BY <1>7, <3>2 DEF LoginPublished
      <4>2. /\ Tail(alerts) \in AlertsOf(Line.user, ip)
            /\ Tail(alerts) \in Seq(Keys)
        BY <2>2, <2>3, <3>2, AlertsOfTypes
      <4>4. LoopOK'
        BY <1>0, <4>1, <4>2 DEF LoopOK, Steps
      <4>5. Line' = Line
        BY <4>1 DEF Line
      <4>6. alerts' \in AlertsOf(Line'.user, ip)
        BY <4>1, <4>2, <4>5
      <4>7. PlaceInv'
        BY <1>b, <2>1, <2>3, <3>2, <4>1, <4>5, <4>6
           DEF PlaceInv, BeforeRow, AtAlert, AtSuccess
      <4> QED
        BY <4>4, <4>7
    <3> QED
      BY <3>1, <3>2
  <2> QED
    BY <1>0, <1>7, <2>5, <2>6, <2>7, Frames DEF LoginPublished
<1>8. CASE AttemptRecorded
  <2>1. /\ step = "attempt" /\ attempts' = AttemptRow
        /\ UNCHANGED <<logins, anomalies>>
        /\ NextLine(affected \union {Line.ip})
    BY <1>8 DEF AttemptRecorded
  <2>2. at <= Len(lines) /\ Line.ip \in Ips
    BY <2>1, LineTypes DEF PlaceInv
  <2>3. TablesOK'
    BY <1>0, <2>1, RowTypes DEF TablesOK
  <2>4. LoopOK' /\ PlaceInv'
    BY <1>b, <2>1, <2>2, NextLineContinues
  <2> QED
    BY <1>0, <1>8, <2>3, <2>4, Frames DEF AttemptRecorded
<1>9. CASE AttemptNotRecorded
  <2>1. /\ step = "attempt" /\ attempts' \in {attempts, AttemptRow}
        /\ UNCHANGED <<logins, anomalies, stops>>
        /\ errors < MaxErrors /\ errors' = errors + 1
        /\ NextLine(affected)
    BY <1>9 DEF AttemptNotRecorded
  <2>2. at <= Len(lines)
    BY <2>1 DEF PlaceInv
  <2>3. TablesOK'
    BY <1>0, <2>1, RowTypes DEF TablesOK
  <2>4. LoopOK' /\ PlaceInv'
    BY <1>b, <2>1, <2>2, NextLineContinues
  <2>5. BoundsOK'
    BY <1>0, <1>b, <2>1 DEF BoundsOK
  <2> QED
    BY <1>0, <1>9, <2>3, <2>4, <2>5, Frames DEF AttemptNotRecorded
<1>10. CASE UsernamesRead
  <2>1. /\ step = "usernames" /\ step' = "anomaly"
        /\ UNCHANGED <<wakeAt, pass, lines, at, affected, known, previous,
                       alerts>>
    BY <1>10 DEF UsernamesRead, lineVars
  <2>2. LoopOK'
    BY <1>0, <2>1 DEF LoopOK, Steps
  <2>3. PICK ip \in Ips : alerts = <<BruteForce(ip)>>
    BY <2>1 DEF PlaceInv
  <2>4. at > Len(lines) /\ alerts # <<>>
    BY <2>1, <2>3, AttackAlerts DEF PlaceInv
  <2>5. PlaceInv'
    BY <1>b, <2>1, <2>3, <2>4 DEF PlaceInv, BeforeRow, AtAlert
  <2> QED
    BY <1>0, <1>10, <2>2, <2>5, Frames DEF UsernamesRead
<1>11. ASSUME NEW ip \in Ips, NotAttacked(ip)
       PROVE  /\ LoopOK' /\ TablesOK' /\ LastOK' /\ WorldOK' /\ BoundsOK'
              /\ HistoryOK' /\ PlaceInv'
  <2>1. LoopOK' /\ PlaceInv'
    BY <1>11, NextIpContinues DEF NotAttacked
  <2> QED
    BY <1>0, <1>11, <2>1, Frames DEF NotAttacked
<1>12. ASSUME NEW ip \in Ips, Attacked(ip)
       PROVE  /\ LoopOK' /\ TablesOK' /\ LastOK' /\ WorldOK' /\ BoundsOK'
              /\ HistoryOK' /\ PlaceInv'
  <2>1. /\ step = "count" /\ step' = "usernames"
        /\ alerts' = <<BruteForce(ip)>>
        /\ UNCHANGED <<wakeAt, pass, lines, at, affected, known, previous>>
    BY <1>12 DEF Attacked
  <2>2. LoopOK'
    BY <1>0, <2>1, AttackAlerts DEF LoopOK, Steps
  <2>3. PlaceInv'
    BY <1>b, <2>1 DEF PlaceInv, BeforeRow, AtAlert
  <2> QED
    BY <1>0, <1>12, <2>2, <2>3, Frames DEF Attacked
<1>13. ASSUME NEW ip \in Ips, AttackPublished(ip)
       PROVE  /\ LoopOK' /\ TablesOK' /\ LastOK' /\ WorldOK' /\ BoundsOK'
              /\ HistoryOK' /\ PlaceInv'
  <2>1. /\ step = "publish" /\ lastByKey' = LastByKey
        /\ lastByIp' = [lastByIp EXCEPT ![ip] = pass]
    BY <1>13 DEF AttackPublished
  <2>2. LoopOK' /\ PlaceInv'
    BY <1>13, NextIpContinues DEF AttackPublished
  <2>3. Alert \in Keys
    BY <2>1, RowTypes DEF AtAlert
  <2>4. LastOK'
    BY <1>0, <1>b, <2>1, <2>3 DEF LastOK, LastByKey, ObservedAt
  <2> QED
    BY <1>0, <1>13, <2>2, <2>4, Frames DEF AttackPublished
<1>14. CASE AnomalyRecorded
  <2>1. /\ step = "anomaly" /\ step' = "publish"
        /\ anomalies' = anomalies \union {Alert}
        /\ UNCHANGED <<wakeAt, pass, lines, at, affected, known, previous,
                       alerts, attempts, logins>>
    BY <1>14 DEF AnomalyRecorded, lineVars
  <2>2. LoopOK'
    BY <1>0, <2>1 DEF LoopOK, Steps
  <2>3. Alert \in Keys
    BY <2>1, RowTypes DEF AtAlert
  <2>4. TablesOK'
    BY <1>0, <2>1, <2>3 DEF TablesOK
  <2>5. Line' = Line
    BY <2>1 DEF Line
  <2>6. PlaceInv'
    BY <2>1, <2>5 DEF PlaceInv, BeforeRow, AtAlert
  <2> QED
    BY <1>0, <1>14, <2>2, <2>4, <2>6, Frames DEF AnomalyRecorded
<1>15. CASE Raises
  <2>1. /\ CutOff /\ Returns /\ errors' = errors + 1 /\ errors < MaxErrors
        /\ UNCHANGED <<lastVars, worldVars, stops, told>>
    BY <1>15 DEF Raises
  <2>2. LoopOK' /\ PlaceInv'
    BY <2>1, LoopReturns
  <2>3. TablesOK' /\ cut' \subseteq Users
    BY <2>1, TablesCut DEF TablesOK
  <2>4. BoundsOK' /\ HistoryOK'
    BY <1>0, <1>b, <2>1, <2>3 DEF BoundsOK, HistoryOK
  <2> QED
    BY <1>0, <2>1, <2>2, <2>3, <2>4, Frames
<1>16. CASE Stop
  <2>1. /\ CutOff /\ Forgets /\ step' = "down" /\ wakeAt' = 0
        /\ stops' = stops + 1 /\ stops < MaxStops
        /\ lastByIp' = [ip \in Ips |-> Never]
        /\ lastByKey' = [key \in Keys |-> Never]
        /\ UNCHANGED <<worldVars, errors, told>>
    BY <1>16 DEF Stop
  <2>2. /\ pass' = 0 /\ lines' = <<>> /\ at' = 1 /\ affected' = {}
        /\ known' = FALSE /\ previous' = NoIp /\ alerts' = <<>>
    BY <2>1 DEF Forgets
  <2>3. /\ <<>> \in Seq(Keys) /\ <<>> \in Seq(Entries) /\ Len(<<>>) = 0
    OBVIOUS
  <2>4. at' \in 1 .. Len(lines') + 1
    BY <2>2, <2>3
  <2>5. LoopOK'
    BY <1>b, <2>1, <2>2, <2>3, <2>4 DEF LoopOK, Steps
  <2>6. PlaceInv'
    BY <2>1, <2>2 DEF PlaceInv, BeforeRow, AtAlert
  <2>7. TablesOK' /\ cut' \subseteq Users
    BY <2>1, TablesCut DEF TablesOK
  <2>8. BoundsOK' /\ HistoryOK' /\ LastOK'
    BY <1>0, <1>b, <2>1, <2>7 DEF BoundsOK, HistoryOK, LastOK
  <2> QED
    BY <1>0, <2>1, <2>5, <2>6, <2>7, <2>8, Frames
<1>17. CASE Start
  <2>1. /\ step = "down" /\ step' = "asleep" /\ wakeAt' = now
        /\ UNCHANGED <<pass, lines, at, affected, known, previous, alerts>>
    BY <1>17 DEF Start, lineVars
  <2>2. LoopOK'
    BY <1>0, <1>b, <2>1 DEF LoopOK, Steps, Times
  <2>3. PlaceInv'
    BY <2>1 DEF PlaceInv, BeforeRow, AtAlert
  <2> QED
    BY <1>0, <1>17, <2>2, <2>3, Frames DEF Start
<1>18. CASE Tick
  <2>1. /\ now < MaxTime /\ now' = now + 1
        /\ UNCHANGED <<enabled, log, loopVars, lineVars>>
    BY <1>18 DEF Tick
  <2>2. WorldOK'
    BY <1>0, <1>b, <2>1 DEF WorldOK, Times
  <2>3. PlaceInv'
    BY <2>1 DEF loopVars, lineVars, PlaceInv, Line, AtSuccess
  <2> QED
    BY <1>0, <1>18, <2>2, <2>3, Frames DEF Tick
<1>19. ASSUME NEW entry \in Entries, Writes(entry)
       PROVE  /\ LoopOK' /\ TablesOK' /\ LastOK' /\ WorldOK' /\ BoundsOK'
              /\ HistoryOK' /\ PlaceInv'
  <2>1. /\ Len(log) < MaxLines
        /\ log' = Append(log, [entry |-> entry, at |-> now])
        /\ UNCHANGED <<enabled, now, loopVars, lineVars>>
    BY <1>19 DEF Writes
  <2>2. [entry |-> entry, at |-> now] \in Lines
    BY <1>b DEF Lines
  <2>3. /\ log' \in Seq(Lines)
        /\ Len(log') = Len(log) + 1 /\ Len(log) \in Nat
    BY <1>0, <2>1, <2>2, AppendProperties, LenProperties DEF WorldOK
  <2>4. WorldOK'
    BY <1>0, <1>b, <2>1, <2>3 DEF WorldOK
  <2>5. PlaceInv'
    BY <2>1 DEF loopVars, lineVars, PlaceInv, Line, AtSuccess
  <2> QED
    BY <1>0, <1>19, <2>4, <2>5, Frames DEF Writes
<1> QED
  BY <1>1, <1>2, <1>3, <1>4, <1>5, <1>6, <1>7, <1>8, <1>9, <1>10, <1>11,
     <1>12, <1>13, <1>14, <1>15, <1>16, <1>17, <1>18, <1>19
     DEF Next, LoginStep, AttackStep

-----------------------------------------------------------------------------
(* Announcements, step by step *)

\* A step that tells nobody and records nobody new, and after which nobody is
\* about to be announced who was not before.
LEMMA AnnouncedFrame ==
  ASSUME TypeOK, AnnouncedInv, told' = told, cut \subseteq cut',
         \A u \in Users : logins'[u] = logins[u] \/
           (u \in cut' /\ logins'[u] # NoLogin),
         step' \notin {"previous", "success"},
         \A u \in Users : ToBeTold(u)' => ToBeTold(u),
         \A u \in Users : ToBeTold(u) => ToBeTold(u)' \/ u \in cut'
  PROVE  AnnouncedInv'
<1>1. \A u \in Users : told'[u] \in {0, 1}
  BY DEF AnnouncedInv
<1>2. \A u \in Users : told'[u] = 1 => logins'[u] # NoLogin
  BY DEF AnnouncedInv
<1>3. \A u \in Users : logins'[u] # NoLogin =>
        told'[u] = 1 \/ u \in cut' \/ ToBeTold(u)'
  BY DEF AnnouncedInv
<1>4. \A u \in Users : ToBeTold(u)' => told'[u] = 0 /\ logins'[u] # NoLogin
  BY DEF AnnouncedInv
<1> QED
  BY <1>1, <1>2, <1>3, <1>4 DEF AnnouncedInv

\* The same where nobody is about to be announced, before and after.
LEMMA AnnouncedQuiet ==
  ASSUME TypeOK, AnnouncedInv, told' = told, cut' = cut, logins' = logins,
         step' \notin {"previous", "success"},
         \A u : ~ToBeTold(u), \A u : ~ToBeTold(u)'
  PROVE  AnnouncedInv'
BY AnnouncedFrame

LEMMA NobodyAt ==
  /\ step \notin AtAlert => \A u : ~ToBeTold(u)
  /\ step' \notin AtAlert => \A u : ~ToBeTold(u)'
BY DEF ToBeTold, AtAlert

\* Where a pass goes on to the next line.
LEMMA NextLineStep ==
  ASSUME TypeOK, at <= Len(lines), NEW ips \in SUBSET Ips, NextLine(ips)
  PROVE  /\ \A u : ~ToBeTold(u)'
         /\ step' \notin {"previous", "success"}
<1>1. lines \in Seq(Entries) /\ at + 1 \in 1 .. Len(lines) + 1
  BY LineTypes DEF TypeOK
<1>2. Continue(lines, at + 1, ips)
  BY DEF NextLine
<1> QED
  BY <1>1, <1>2, ContinueStep

\* Every step keeps what is known of announcements.
LEMMA AnnouncedStep ==
  ASSUME TypeOK, PlaceInv, "new_user" \in enabled, AnnouncedInv, [Next]_vars
  PROVE  AnnouncedInv'
<1>b. /\ at \in Nat /\ Len(lines) \in Nat /\ lines \in Seq(Entries)
      /\ at \in 1 .. Len(lines) + 1 /\ affected \subseteq Ips
      /\ told \in [Users -> Nat]
      /\ logins \in [Users -> [ip : Ips, at : Times] \union {NoLogin}]
  BY LineTypes DEF TypeOK
<1>1. CASE UNCHANGED vars
  BY <1>1 DEF vars, loopVars, lineVars, tableVars, historyVars, AnnouncedInv,
              ToBeTold, Line
<1>2. CASE Collect
  <2>1. /\ step = "asleep" /\ step' = "read"
        /\ told' = told /\ cut' = cut /\ logins' = logins
    BY <1>2 DEF Collect, historyVars, tableVars
  <2> QED
    BY <2>1, NobodyAt, AnnouncedQuiet DEF AtAlert
<1>3. CASE ReadNewLogLines
  <2>1. PICK source \in Sources :
          Continue([i \in 1 .. Len(Offered(source)) |->
                      Offered(source)[i].entry], 1, {})
    BY <1>3 DEF ReadNewLogLines
  <2> DEFINE ls == [i \in 1 .. Len(Offered(source)) |->
                      Offered(source)[i].entry]
  <2>2. ls \in Seq(Entries)
    BY OfferedType, LinesOffered
  <2> HIDE DEF ls
  <2>3. 1 \in 1 .. Len(ls) + 1
    BY <2>2, LenProperties
  <2>4. Continue(ls, 1, {})
    BY <2>1 DEF ls
  <2>5. /\ \A u : ~ToBeTold(u)'
        /\ step' \notin {"previous", "success"}
    BY <2>2, <2>3, <2>4, ContinueStep
  <2>6. step = "read" /\ told' = told /\ cut' = cut /\ logins' = logins
    BY <1>3 DEF ReadNewLogLines, historyVars, tableVars
  <2> QED
    BY <2>5, <2>6, NobodyAt, AnnouncedQuiet DEF AtAlert
<1>4. CASE KnownRead
  <2>1. /\ step = "known" /\ step' = "previous"
        /\ known' = HasSuccessfulLogin(Line.user)
        /\ lines' = lines /\ at' = at
        /\ told' = told /\ cut' = cut /\ logins' = logins
    BY <1>4 DEF KnownRead, historyVars, tableVars
  <2>2. (\A u : ~ToBeTold(u)) /\ (\A u : ~ToBeTold(u)')
    BY <2>1, NobodyAt DEF AtAlert
  <2>3. Line' = Line
    BY <2>1 DEF Line
  <2>4. known' = (logins'[Line'.user] # NoLogin)
    BY <2>1, <2>3 DEF HasSuccessfulLogin
  <2> QED
    BY <2>1, <2>2, <2>4 DEF AnnouncedInv
<1>5. CASE PreviousRead
  <2>1. /\ step = "previous" /\ step' = "success"
        /\ known' = known /\ lines' = lines /\ at' = at
        /\ told' = told /\ cut' = cut /\ logins' = logins
    BY <1>5 DEF PreviousRead, historyVars, tableVars
  <2>2. (\A u : ~ToBeTold(u)) /\ (\A u : ~ToBeTold(u)')
    BY <2>1, NobodyAt DEF AtAlert
  <2>3. Line' = Line
    BY <2>1 DEF Line
  <2>4. known' = (logins'[Line'.user] # NoLogin)
    BY <2>1, <2>3 DEF AnnouncedInv
  <2> QED
    BY <2>1, <2>2, <2>4 DEF AnnouncedInv
<1>6. CASE SuccessRecorded
  <2>1. /\ step = "success" /\ logins' = SuccessRow
        /\ told' = told /\ cut' = cut
    BY <1>6 DEF SuccessRecorded, historyVars
  <2>0. AtSuccess /\ Line.user \in Users /\ Line.ip \in Ips
    BY <1>b, <2>1, LineTypes DEF PlaceInv, BeforeRow, AtSuccess
  <2>2. PICK w \in Users, ip \in Ips : w = Line.user /\ ip = Line.ip /\ AtSuccess
    BY <2>0
  <2> DEFINE found == AnomaliesOf(w, ip)
  <2>3. known = (logins[w] # NoLogin)
    BY <2>1, <2>2 DEF AnnouncedInv
  <2>4. \A u : ~ToBeTold(u)
    BY <2>1, NobodyAt DEF AtAlert
  <2>5. Found(w, ip, NewUser(w)) <=> ~known
    BY DEF Found, NewUser, OffHours, Travel
  <2>6. /\ logins'[w] # NoLogin
        /\ \A u \in Users \ {w} : logins'[u] = logins[u]
    BY <2>1, <2>2, RowTypes
  <2>7. /\ step' \notin {"previous", "success"}
        /\ ~known => ToBeTold(w)'
        /\ \A u \in Users : ToBeTold(u)' => u = w /\ ~known
    <3>1. CASE found = <<>>
      <4>1. NextLine(affected)
        BY <1>6, <2>2, <3>1 DEF SuccessRecorded
      <4>2. at <= Len(lines)
        BY <2>2 DEF AtSuccess
      <4>3. /\ \A u : ~ToBeTold(u)'
            /\ step' \notin {"previous", "success"}
        BY <1>b, <4>1, <4>2, NextLineStep
      <4>4. \A i \in 1 .. Len(found) : FALSE
        <5>1. Len(<<>>) = 0
          OBVIOUS
        <5> QED
          BY <3>1, <5>1
      <4> HIDE DEF found
      <4>5. known
        BY <2>2, <2>5, <4>4, AnomaliesType DEF found
      <4> QED
        BY <4>3, <4>5
    <3>2. CASE found # <<>>
      <4>1. step' = "anomaly" /\ alerts' = found
        BY <1>6, <2>2, <3>2 DEF SuccessRecorded
      <4>2. found \in AlertsOf(w, ip)
        BY <2>2, <3>2, AnomaliesType
      <4>3. /\ ~known => \E i \in 1 .. Len(found) : found[i] = NewUser(w)
            /\ known => \A i \in 1 .. Len(found) : found[i] # NewUser(w)
        BY <2>2, <2>5, AnomaliesType
      <4> HIDE DEF found
      <4>4. \A i \in 1 .. Len(found) : \A u : found[i] = NewUser(u) => u = w
        BY <2>2, <4>2, AlertsOfTypes
      <4>5. ~known => ToBeTold(w)'
        BY <4>1, <4>3 DEF ToBeTold, AtAlert
      <4>6. \A u \in Users : ToBeTold(u)' => u = w /\ ~known
        BY <4>1, <4>3, <4>4 DEF ToBeTold
      <4> QED
        BY <4>1, <4>5, <4>6
    <3> QED
      BY <3>1, <3>2
  <2> HIDE DEF found
  <2>8. \A u \in Users : told'[u] = 1 => logins'[u] # NoLogin
    BY <2>1, <2>6 DEF AnnouncedInv
  <2>9. \A u \in Users : logins'[u] # NoLogin =>
          told'[u] = 1 \/ u \in cut' \/ ToBeTold(u)'
    BY <2>1, <2>2, <2>3, <2>4, <2>6, <2>7 DEF AnnouncedInv
  <2>10. \A u \in Users : ToBeTold(u)' => told'[u] = 0 /\ logins'[u] # NoLogin
    BY <2>1, <2>2, <2>3, <2>6, <2>7 DEF AnnouncedInv
  <2>11. \A u \in Users : told'[u] \in {0, 1}
    BY <2>1 DEF AnnouncedInv
  <2> QED
    BY <2>7, <2>8, <2>9, <2>10, <2>11 DEF AnnouncedInv
<1>7. CASE LoginPublished
  <2>1. /\ step = "publish" /\ at <= Len(lines)
        /\ Told(Alert) /\ cut' = cut /\ logins' = logins
    BY <1>7 DEF LoginPublished, tableVars
  <2> DEFINE w == Line.user
  <2>2. PICK ip \in Ips : alerts \in AlertsOf(w, ip)
    BY <2>1 DEF PlaceInv, AtAlert
  <2>3. w \in Users
    BY <2>1, LineTypes DEF PlaceInv, AtAlert
  <2>4. /\ \A i \in 1 .. Len(Tail(alerts)) : Tail(alerts)[i] # Alert
        /\ \A i \in 1 .. Len(alerts) : alerts[i] = Alert \/
             \E j \in 1 .. Len(Tail(alerts)) : Tail(alerts)[j] = alerts[i]
        /\ \A j \in 1 .. Len(Tail(alerts)) :
             \E i \in 1 .. Len(alerts) : alerts[i] = Tail(alerts)[j]
    BY <2>2, <2>3, AlertsOfTypes DEF Alert
  <2>5. \A u \in Users :
          told'[u] = told[u] + IF Alert = NewUser(u) THEN 1 ELSE 0
    BY <2>1 DEF Told
  <2>6. /\ step' \notin {"previous", "success"}
        /\ \A u \in Users : ToBeTold(u)' <=>
             \E j \in 1 .. Len(Tail(alerts)) : Tail(alerts)[j] = NewUser(u)
    <3>1. CASE Tail(alerts) = <<>>
      <4>1. NextLine(affected)
        BY <1>7, <3>1 DEF LoginPublished
      <4>2. /\ \A u : ~ToBeTold(u)'
            /\ step' \notin {"previous", "success"}
        BY <1>b, <2>1, <4>1, NextLineStep
      <4>3. \A j \in 1 .. Len(Tail(alerts)) : FALSE
        <5>1. \A t : t = <<>> => \A j \in 1 .. Len(t) : FALSE
          OBVIOUS
        <5> QED
          BY <3>1, <5>1, Zenon
      <4> QED
        BY <4>2, <4>3
    <3>2. CASE Tail(alerts) # <<>>
      <4>1. step' = "anomaly" /\ alerts' = Tail(alerts)
        BY <1>7, <3>2 DEF LoginPublished
      <4> QED
        BY <4>1 DEF ToBeTold, AtAlert
    <3> QED
      BY <3>1, <3>2
  <2>7. \A u \in Users : ToBeTold(u) <=>
          \E i \in 1 .. Len(alerts) : alerts[i] = NewUser(u)
    BY <2>1 DEF ToBeTold, AtAlert
  <2>8. Alert = alerts[1] /\ 1 \in 1 .. Len(alerts)
    <3>1. alerts \in Seq(Keys) /\ alerts # <<>>
      BY <2>1 DEF TypeOK, PlaceInv, AtAlert
    <3> QED
      BY <3>1, HeadTailProperties, EmptySeq, LenProperties DEF Alert
  <2>9. ASSUME NEW u \in Users, Alert = NewUser(u)
        PROVE  ToBeTold(u) /\ ~ToBeTold(u)' /\ told[u] = 0 /\ told'[u] = 1
    <3>1. ToBeTold(u)
      BY <2>7, <2>8, <2>9
    <3>2. ~ToBeTold(u)'
      BY <2>4, <2>6, <2>9
    <3>3. told[u] = 0
      BY <3>1 DEF AnnouncedInv
    <3> QED
      BY <2>5, <2>9, <3>1, <3>2, <3>3
  <2>10. ASSUME NEW u \in Users, Alert # NewUser(u)
         PROVE  /\ ToBeTold(u)' <=> ToBeTold(u)
                /\ told'[u] = told[u]
    <3>1. ToBeTold(u)' => ToBeTold(u)
      BY <2>4, <2>6, <2>7
    <3>2. ToBeTold(u) => ToBeTold(u)'
      BY <2>4, <2>6, <2>7, <2>10
    <3>3. told'[u] = told[u]
      BY <1>b, <2>5, <2>10
    <3> QED
      BY <3>1, <3>2, <3>3
  <2> HIDE DEF w
  <2>11. \A u \in Users :
           /\ told'[u] \in {0, 1}
           /\ told'[u] = 1 => logins'[u] # NoLogin
           /\ logins'[u] # NoLogin =>
                told'[u] = 1 \/ u \in cut' \/ ToBeTold(u)'
           /\ ToBeTold(u)' => told'[u] = 0 /\ logins'[u] # NoLogin
    <3> SUFFICES ASSUME NEW u \in Users
                 PROVE  /\ told'[u] \in {0, 1}
                        /\ told'[u] = 1 => logins'[u] # NoLogin
                        /\ logins'[u] # NoLogin =>
                             told'[u] = 1 \/ u \in cut' \/ ToBeTold(u)'
                        /\ ToBeTold(u)' =>
                             told'[u] = 0 /\ logins'[u] # NoLogin
      OBVIOUS
    <3>1. CASE Alert = NewUser(u)
      BY <2>1, <2>9, <3>1 DEF AnnouncedInv
    <3>2. CASE Alert # NewUser(u)
      BY <2>1, <2>10, <3>2 DEF AnnouncedInv
    <3> QED
      BY <3>1, <3>2
  <2> QED
    BY <2>6, <2>11 DEF AnnouncedInv
<1>8. CASE AttemptRecorded
  <2>1. /\ step = "attempt" /\ NextLine(affected \union {Line.ip})
        /\ told' = told /\ cut' = cut /\ logins' = logins
    BY <1>8 DEF AttemptRecorded, historyVars
  <2>2. at <= Len(lines) /\ Line.ip \in Ips
    BY <2>1, LineTypes DEF PlaceInv
  <2>3. /\ \A u : ~ToBeTold(u)'
        /\ step' \notin {"previous", "success"}
    BY <1>b, <2>1, <2>2, NextLineStep
  <2> QED
    BY <2>1, <2>3, NobodyAt, AnnouncedQuiet DEF AtAlert
<1>9. CASE AttemptNotRecorded
  <2>1. /\ step = "attempt" /\ NextLine(affected)
        /\ told' = told /\ cut' = cut /\ logins' = logins
    BY <1>9 DEF AttemptNotRecorded, historyVars
  <2>2. at <= Len(lines)
    BY <2>1 DEF PlaceInv
  <2>3. /\ \A u : ~ToBeTold(u)'
        /\ step' \notin {"previous", "success"}
    BY <1>b, <2>1, <2>2, NextLineStep
  <2> QED
    BY <2>1, <2>3, NobodyAt, AnnouncedQuiet DEF AtAlert
<1>10. CASE UsernamesRead
  <2>1. /\ step = "usernames" /\ step' = "anomaly" /\ alerts' = alerts
        /\ told' = told /\ cut' = cut /\ logins' = logins
    BY <1>10 DEF UsernamesRead, historyVars, tableVars, lineVars
  <2>2. PICK ip \in Ips : alerts = <<BruteForce(ip)>>
    BY <2>1 DEF PlaceInv
  <2>3. \A i \in 1 .. Len(alerts') : \A u : alerts'[i] # NewUser(u)
    BY <2>1, <2>2, AttackAlerts
  <2>4. \A u : ~ToBeTold(u)'
    BY <2>3 DEF ToBeTold
  <2> QED
    BY <2>1, <2>4, NobodyAt, AnnouncedQuiet DEF AtAlert
<1>11. ASSUME NEW ip \in Ips, NotAttacked(ip)
       PROVE  AnnouncedInv'
  <2>1. /\ step = "count" /\ NextIp(ip)
        /\ told' = told /\ cut' = cut /\ logins' = logins
    BY <1>11 DEF NotAttacked, historyVars, tableVars
  <2>2. affected \ {ip} \in SUBSET Ips
    BY <1>b
  <2>3. /\ \A u : ~ToBeTold(u)'
        /\ step' \notin {"previous", "success"}
    BY <1>b, <2>1, <2>2, ContinueStep DEF NextIp
  <2> QED
    BY <2>1, <2>3, NobodyAt, AnnouncedQuiet DEF AtAlert
<1>12. ASSUME NEW ip \in Ips, Attacked(ip)
       PROVE  AnnouncedInv'
  <2>1. /\ step = "count" /\ step' = "usernames"
        /\ told' = told /\ cut' = cut /\ logins' = logins
    BY <1>12 DEF Attacked, historyVars, tableVars
  <2> QED
    BY <2>1, NobodyAt, AnnouncedQuiet DEF AtAlert
<1>13. ASSUME NEW ip \in Ips, AttackPublished(ip)
       PROVE  AnnouncedInv'
  <2>1. /\ step = "publish" /\ at > Len(lines) /\ NextIp(ip)
        /\ told' = told /\ cut' = cut /\ logins' = logins
    BY <1>13 DEF AttackPublished, historyVars, tableVars
  <2>2. affected \ {ip} \in SUBSET Ips
    BY <1>b
  <2>3. /\ \A u : ~ToBeTold(u)'
        /\ step' \notin {"previous", "success"}
    BY <1>b, <2>1, <2>2, ContinueStep DEF NextIp
  <2>4. \A u : ~ToBeTold(u)
    BY <2>1, NobodyAtAttack
  <2> QED
    BY <2>1, <2>3, <2>4, AnnouncedQuiet
<1>14. CASE AnomalyRecorded
  <2>1. /\ step = "anomaly" /\ step' = "publish" /\ alerts' = alerts
        /\ told' = told /\ cut' = cut /\ logins' = logins
    BY <1>14 DEF AnomalyRecorded, historyVars, lineVars
  <2>2. \A u : ToBeTold(u)' <=> ToBeTold(u)
    BY <2>1 DEF ToBeTold, AtAlert
  <2> QED
    BY <2>1, <2>2, AnnouncedFrame
<1>15. CASE Raises
  <2>1. CutOff /\ Returns /\ told' = told
    BY <1>15 DEF Raises
  <2>2. /\ \A u : ~ToBeTold(u)'
        /\ step' = "asleep"
    BY <2>1, ReturnsStep
  <2>3. \A u \in Users : ToBeTold(u) => u \in cut'
    BY <2>1, TablesCut, OnlyUserOfLine
  <2>4. cut \subseteq cut' /\ \A u \in Users : logins'[u] = logins[u] \/
          (u \in cut' /\ logins'[u] # NoLogin)
    BY <2>1, TablesCut
  <2> QED
    BY <2>1, <2>2, <2>3, <2>4, AnnouncedFrame
<1>16. CASE Stop
  <2>1. CutOff /\ step' = "down" /\ told' = told
    BY <1>16 DEF Stop
  <2>2. \A u : ~ToBeTold(u)'
    BY <2>1, NobodyAt DEF AtAlert
  <2>3. \A u \in Users : ToBeTold(u) => u \in cut'
    BY <2>1, TablesCut, OnlyUserOfLine
  <2>4. cut \subseteq cut' /\ \A u \in Users : logins'[u] = logins[u] \/
          (u \in cut' /\ logins'[u] # NoLogin)
    BY <2>1, TablesCut
  <2> QED
    BY <2>1, <2>2, <2>3, <2>4, AnnouncedFrame
<1>17. CASE Start
  <2>1. /\ step = "down" /\ step' = "asleep"
        /\ told' = told /\ cut' = cut /\ logins' = logins
    BY <1>17 DEF Start, historyVars, tableVars
  <2> QED
    BY <2>1, NobodyAt, AnnouncedQuiet DEF AtAlert
<1>18. CASE Tick
  <2>1. UNCHANGED <<loopVars, lineVars, tableVars, historyVars>>
    BY <1>18 DEF Tick
  <2> QED
    BY <2>1 DEF loopVars, lineVars, tableVars, historyVars, AnnouncedInv,
                ToBeTold, Line
<1>19. ASSUME NEW entry \in Entries, Writes(entry)
       PROVE  AnnouncedInv'
  <2>1. UNCHANGED <<loopVars, lineVars, tableVars, historyVars>>
    BY <1>19 DEF Writes
  <2> QED
    BY <2>1 DEF loopVars, lineVars, tableVars, historyVars, AnnouncedInv,
                ToBeTold, Line
<1> QED
  BY <1>1, <1>2, <1>3, <1>4, <1>5, <1>6, <1>7, <1>8, <1>9, <1>10, <1>11,
     <1>12, <1>13, <1>14, <1>15, <1>16, <1>17, <1>18, <1>19
     DEF Next, LoginStep, AttackStep
-----------------------------------------------------------------------------
(* The theorems *)

LEMMA LoginsStep ==
  LoginsInv /\ [Next]_vars => LoginsInv'
<1> SUFFICES ASSUME LoginsInv, [Next]_vars
             PROVE  LoginsInv'
  OBVIOUS
<1>1. TypeOK' /\ PlaceInv'
  BY TypeStep DEF LoginsInv
<1>2. enabled' = enabled
  BY DEF Next, vars, worldVars, Collect, ReadNewLogLines, LoginStep, KnownRead,
         PreviousRead, SuccessRecorded, LoginPublished, AttackStep,
         AttemptRecorded, AttemptNotRecorded, UsernamesRead, NotAttacked,
         Attacked, AttackPublished, AnomalyRecorded, Raises, Stop, Start, Tick,
         Writes
<1>3. "new_user" \in enabled => AnnouncedInv'
  BY AnnouncedStep DEF LoginsInv
<1> QED
  BY <1>1, <1>2, <1>3 DEF LoginsInv

LEMMA LoginsHold ==
  Spec => []LoginsInv
BY LoginsInit, LoginsStep, PTL DEF Spec

\* The variables of the login monitor keep their types: a pass is at a line it
\* has read or right behind them, the tables hold rows of known users and
\* addresses (LoginMonitor.collect).
THEOREM LoginsTypeCorrect == Spec => []TypeOK
<1>1. LoginsInv => TypeOK
  BY DEF LoginsInv
<1> QED
  BY <1>1, LoginsHold, PTL

\* For any users, lines, errors and stops a new user is announced at most once,
\* and whoever is in login_successes was announced, is just being dealt with,
\* or was cut off by an error or a stop (has_successful_login, asked before
\* the login is stored).
THEOREM NewUsersAreAnnounced == Spec => []NewUsersAnnounced
<1>1. LoginsInv => NewUsersAnnounced
  <2> SUFFICES ASSUME LoginsInv, "new_user" \in enabled, NEW u \in Users
               PROVE  /\ told[u] <= 1
                      /\ logins[u] # NoLogin =>
                           \/ told[u] = 1
                           \/ u \in cut
                           \/ AtSuccess /\ Line.user = u
    BY DEF NewUsersAnnounced
  <2>1. TypeOK /\ PlaceInv /\ AnnouncedInv
    BY DEF LoginsInv
  <2>2. told[u] <= 1
    BY <2>1 DEF AnnouncedInv
  <2>3. logins[u] # NoLogin => told[u] = 1 \/ u \in cut \/ ToBeTold(u)
    BY <2>1 DEF AnnouncedInv
  <2> QED
    BY <2>1, <2>2, <2>3, OnlyUserOfLine
<1> QED
  BY <1>1, LoginsHold, PTL

=============================================================================
