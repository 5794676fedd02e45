------------------------- MODULE ConnectionMonitor -------------------------
(***************************************************************************)
(* The monitor of unknown inbound connections (monitors/connections.py,    *)
(* monitors/connection_intent.py) and its tables (ConnectionRepository):   *)
(* every pass appends what ss shows, and an address with enough attempts   *)
(* in the window is classified, told, and then recorded as told.           *)
(***************************************************************************)
EXTENDS MonitorPasses

CONSTANTS
  CoPairs,             \* addresses and local ports that may be connected
  CoWhitelist,         \* addresses that are ignored
  CoSensitive,         \* sensitive_ports
  CoCount,             \* repeat_alert_count
  CoWindow,            \* repeat_alert_window, in ticks
  CoRecurrence,        \* classification.recurrence_over_time.window
  CoCooldown,          \* cooldown
  CoMaxRows            \* bound: rows of connection_attempts

ASSUME ConnectionsAssumption ==
  /\ CoCount \in Nat /\ CoWindow \in Nat /\ CoRecurrence \in Nat
  /\ CoCooldown \in Nat /\ CoMaxRows \in Nat
  /\ IsFiniteSet(CoPairs)
  /\ \A p \in CoPairs : p = <<p[1], p[2]>> /\ p[2] \in Nat

Nobody == "nobody"

VARIABLES
  coRows,              \* connection_attempts, in order
  coAlerted,           \* known_connections: last_alerted by address and port
  coRun,               \* what collect awaits, and what it has found
  coTold               \* history: alerts published, and whether recorded

connectionVars == <<coRows, coAlerted, coRun, coTold>>

CoIPs == {p[1] : p \in CoPairs}
CoPorts == {p[2] : p \in CoPairs}
CoSteps == {"asleep", "ss", "record", "count", "cooldown", "classify",
            "publish", "store", "upsert"}
CoCategories == {"background_scan", "suspicious", "likely_access_attempt"}
CoIdle == [pc |-> "asleep", pairs |-> {}, ips |-> {}, ip |-> Nobody,
           ports |-> {}, at |-> 0, category |-> "background_scan"]

ConnectionsTypeOK ==
  /\ coRows \in Seq([ip : CoIPs, port : CoPorts, at : MoTimes])
  /\ Len(coRows) <= CoMaxRows
  /\ coAlerted \in [CoPairs -> MoStamps]
  /\ coRun \in [pc : CoSteps, pairs : SUBSET CoPairs, ips : SUBSET CoIPs,
                ip : CoIPs \union {Nobody}, ports : SUBSET CoPairs,
                at : MoTimes, category : CoCategories]
  /\ coTold \in Seq([ip : CoIPs, at : MoTimes, recorded : BOOLEAN])

ConnectionsInit ==
  /\ coRows = <<>>
  /\ coAlerted = [p \in CoPairs |-> NotYet]
  /\ coRun = CoIdle
  /\ coTold = <<>>

-----------------------------------------------------------------------------
(* ConnectionRepository *)

CoRowsSince(ip, since) ==
  {i \in 1 .. Len(coRows) : coRows[i].ip = ip /\ coRows[i].at >= since}

\* count_attempts_since
CoAttempts(ip, since) == Cardinality(CoRowsSince(ip, since))

\* ports_since
CoPortsSince(ip, since) == {coRows[i].port : i \in CoRowsSince(ip, since)}

\* Mutant: the port that was told longest ago, or never.
CoAnyPort(ip) ==
  LET stamps == {coAlerted[p] : p \in {q \in CoPairs : q[1] = ip}}
  IN CHOOSE t \in stamps : \A u \in stamps : t <= u

\* get_last_alerted_for_ip: the latest over all ports.
CoLastAlerted(ip) ==
  LET stamps == {coAlerted[p] : p \in {q \in CoPairs : q[1] = ip}}
  IN CHOOSE t \in stamps : \A u \in stamps : u <= t

-----------------------------------------------------------------------------
(* classify_connection_intent, with its defaults *)

CoLevel(n, suspicious, likely, weight) ==
  IF n >= likely THEN weight ELSE IF n >= suspicious THEN 1 ELSE 0

CoScore(attempts, ports, recurrence) ==
  CoLevel(attempts, 3, 8, 3) + CoLevel(Cardinality(ports), 2, 4, 2)
    + CoLevel(recurrence, 3, 7, 2)
    + IF ports \cap CoSensitive # {} THEN 2 ELSE 0

CoCategory(score) ==
  IF score >= 6 THEN "likely_access_attempt"
  ELSE IF score >= 3 THEN "suspicious" ELSE "background_scan"

-----------------------------------------------------------------------------
(* ConnectionMonitor.collect *)

CoAt(pc) == watched = "connections" /\ moUp /\ coRun.pc = pc
CoGoto(pc) == coRun' = [coRun EXCEPT !.pc = pc]

CoBegin ==
  /\ CoAt("asleep") /\ PassBegins
  /\ coRun' = [CoIdle EXCEPT !.pc = "ss", !.at = moNow]
  /\ PassGoesOn /\ UNCHANGED <<coRows, coAlerted, coTold>>

\* Where a pass goes when it has nothing more to record, or an address is done.
CoNextPair(r) == [r EXCEPT !.pc = IF r.pairs = {} THEN "count" ELSE "record"]
CoOver(r) == r.pc = "count" /\ r.ips = {}
CoGoesOn(r) ==
  IF CoOver(r)
  THEN coRun' = [CoIdle EXCEPT !.ports = r.ports, !.at = r.at] /\ PassEnds
  ELSE coRun' = r /\ PassGoesOn

\* parse_ss_line and is_whitelisted: pairs of address and local port, once each.
CoSeen ==
  /\ CoAt("ss")
  /\ \E pairs \in SUBSET CoPairs :
       /\ Len(coRows) + Cardinality(pairs) <= CoMaxRows
       /\ CoGoesOn(CoNextPair(
            [coRun EXCEPT !.pairs = {p \in pairs : p[1] \notin CoWhitelist}]))
  /\ UNCHANGED <<coRows, coAlerted, coTold>>

\* record_attempt
CoRecorded(p) ==
  /\ CoAt("record") /\ p \in coRun.pairs
  /\ coRows' = Append(coRows, [ip |-> p[1], port |-> p[2], at |-> coRun.at])
  /\ coRun' = CoNextPair([coRun EXCEPT !.pairs = @ \ {p}, !.ips = @ \union {p[1]},
                                       !.ports = @ \union {p}])
  /\ PassGoesOn /\ UNCHANGED <<coAlerted, coTold>>

CoReaches(ip) == CoAttempts(ip, coRun.at - CoWindow) >= CoCount

\* The next address has attempts enough, or is passed over.
CoCounted(ip) ==
  /\ CoAt("count") /\ ip \in coRun.ips
  /\ LET r == [coRun EXCEPT !.ips = @ \ {ip}, !.ip = ip] IN
     CoGoesOn(IF CoReaches(ip) THEN [r EXCEPT !.pc = "cooldown"] ELSE r)
  /\ UNCHANGED <<coRows, coAlerted, coTold>>

CoCooled(ip) ==
  \/ CoLastAlerted(ip) = NotYet
  \/ CoLastAlerted(ip) <= coRun.at - CoCooldown

CoChecked ==
  /\ CoAt("cooldown")
  /\ CoGoesOn([coRun EXCEPT !.pc = IF CoCooled(coRun.ip) THEN "classify"
                                   ELSE "count"])
  /\ UNCHANGED <<coRows, coAlerted, coTold>>

\* Two queries, and a thread.
CoClassified ==
  /\ CoAt("classify")
  /\ LET ip == coRun.ip
         score == CoScore(CoAttempts(ip, coRun.at - CoWindow),
                          CoPortsSince(ip, coRun.at - CoWindow),
                          CoAttempts(ip, coRun.at - CoRecurrence))
     IN coRun' = [coRun EXCEPT !.category = CoCategory(score), !.pc = "publish"]
  /\ PassGoesOn /\ UNCHANGED <<coRows, coAlerted, coTold>>

CoPublished ==
  /\ CoAt("publish")
  /\ coTold' = Append(coTold, [ip |-> coRun.ip, at |-> coRun.at,
                               recorded |-> FALSE])
  /\ CoGoto("store")
  /\ PassGoesOn /\ UNCHANGED <<coRows, coAlerted>>

\* record_classification
CoStored ==
  /\ CoAt("store") /\ CoGoto("upsert")
  /\ PassGoesOn /\ UNCHANGED <<coRows, coAlerted, coTold>>

\* min(ports)
CoAlertPort ==
  CHOOSE port \in CoPorts :
    /\ <<coRun.ip, port>> \in coRun.ports
    /\ \A p \in coRun.ports : p[1] = coRun.ip => port <= p[2]

\* upsert
CoUpserted ==
  /\ CoAt("upsert")
  /\ coAlerted' = [coAlerted EXCEPT ![<<coRun.ip, CoAlertPort>>] = coRun.at]
  /\ coTold' = [coTold EXCEPT ![Len(coTold)].recorded = TRUE]
  /\ CoGoesOn([coRun EXCEPT !.pc = "count"])
  /\ UNCHANGED coRows

CoRaises ==
  /\ \E pc \in CoSteps \ {"asleep", "publish"} : CoAt(pc)
  /\ coRun' = CoIdle
  /\ PassRaises /\ UNCHANGED <<coRows, coAlerted, coTold>>

CoForget == coRun' = CoIdle /\ UNCHANGED <<coRows, coAlerted, coTold>>

ConnectionsNext ==
  \/ CoBegin \/ CoSeen \/ (\E p \in CoPairs : CoRecorded(p))
  \/ (\E ip \in CoIPs : CoCounted(ip)) \/ CoChecked \/ CoClassified
  \/ CoPublished \/ CoStored \/ CoUpserted \/ CoRaises

-----------------------------------------------------------------------------
(* Properties *)

\* Two alerts of one address are a cooldown apart, also across a restart; only
\* one whose record an error or a stop prevented may be repeated at once.
ConnectionAlertsSpaced ==
  \A i, j \in 1 .. Len(coTold) :
    i < j /\ coTold[i].ip = coTold[j].ip =>
      coTold[j].at - coTold[i].at >= CoCooldown \/ ~coTold[i].recorded

\* An address that a pass is through with has been told in it, or within the
\* cooldown, if it has attempts enough, those of this pass and of passes that
\* were cut off included.
AttemptsTold ==
  coRun.pc \in {"asleep", "count"} =>
    \A p \in coRun.ports :
      \/ p[1] \in coRun.ips
      \/ ~CoReaches(p[1])
      \/ \E i \in 1 .. Len(coTold) :
           /\ coTold[i].ip = p[1]
           /\ coTold[i].at = coRun.at \/ coRun.at - coTold[i].at < CoCooldown
=============================================================================
