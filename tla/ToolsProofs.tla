---------------------------- MODULE ToolsProofs ----------------------------
(***************************************************************************)
(* What the tools report to have repaired is repaired, for any rules,      *)
(* services and packages, however many faults, stops and interferences     *)
(* there are.  The runs of a tool overlap and work from lists of different *)
(* moments; what saves them is that none of them ever undoes what another  *)
(* one wants, since all of them want the same.  What the scans and audits  *)
(* find is told and stored whole.                                          *)
(***************************************************************************)
EXTENDS MCTools, WellFoundedInduction, TLAPS

-----------------------------------------------------------------------------
(* The firewall *)

FwRunType == fwRun \in [FwCallers -> FwRuns] /\ fwLive \subseteq FwRules

\* No run means to remove a desired rule or to add another one.
FwListsAgree ==
  \A c \in FwCallers :
    /\ fwRun[c].missing \subseteq FwDesired
    /\ fwRun[c].unexpected \intersect FwDesired = {}

\* Of the backends only nftables has chains to flush and to ensure.
FwNoChains ==
  fwBackend = "ufw" => \A c \in FwCallers : fwRun[c].pc \notin {"chain", "flush"}

\* What a run is through with when it stands where it does.
FwInOrder ==
  \A c \in FwCallers :
    /\ fwRun[c].pc \in {"remove", "chain", "add", "after"} => ~fwRun[c].policyDrift
    /\ fwRun[c].pc \in {"chain", "add", "after"} => fwRun[c].unexpected = {}
    /\ fwRun[c].pc = "after" => fwRun[c].missing = {}

\* Whatever still differs from what is desired is in the lists of every run.
FwKnows(c) ==
  /\ FwDesired \ fwLive \subseteq fwRun[c].missing
  /\ fwLive \ FwDesired \subseteq fwRun[c].unexpected
  /\ PolicyDrift => fwRun[c].policyDrift

FwWorking == {"alert", "policy", "remove", "add", "after"}
FwRunsKnow ==
  fwBackend = "ufw" /\ fwEnforce =>
    \A c \in FwCallers \ fwMeddled : fwRun[c].pc \in FwWorking => FwKnows(c)

FwInv ==
  /\ FwRunType /\ FwListsAgree /\ FwNoChains /\ FwInOrder /\ FwRunsKnow
  /\ FirewallReported

LEMMA FwInvInit == RunnerInit /\ FirewallInit => FwInv
  BY FirewallAssumption
  DEF FirewallInit, FwInv, FwRunType, FwListsAgree, FwNoChains, FwInOrder,
      FwRunsKnow, FirewallReported, FwNoRun, FwRuns, FwSteps, FwCommands,
      FwWorking, Waiting

LEMMA FwInvSame == FwInv /\ UNCHANGED firewallState => FwInv'
  BY DEF firewallState, FwInv, FwRunType, FwListsAgree, FwNoChains, FwInOrder,
         FwRunsKnow, FwKnows, FirewallReported, FwMatches, PolicyDrift

\* A run that is over, or has not begun, promises nothing.
LEMMA FwIdleRun ==
  ASSUME NEW pc \in FwSteps \ (FwWorking \union {"recordSuccess", "chain", "flush"}),
         NEW c \in FwCallers, FwInv, UNCHANGED <<fwBackend, fwEnforce, fwRules>>,
         fwRun' = [fwRun EXCEPT ![c] = FwNoRun(pc)],
         fwMeddled \ {c} \subseteq fwMeddled'
  PROVE  FwInv'
<1> USE FirewallAssumption DEF FwInv
<1>1. FwRunType'
  BY DEF FwRunType, fwRules, FwNoRun, FwRuns, FwSteps, FwCommands
<1>2. fwRun'[c] = FwNoRun(pc) /\ \A d \in FwCallers \ {c} : fwRun'[d] = fwRun[d]
  BY DEF FwRunType
<1>3. pc \notin FwWorking /\ pc \notin {"recordSuccess", "chain", "flush"}
  OBVIOUS
<1>4. (FwListsAgree /\ FwNoChains /\ FwInOrder)'
  BY <1>2, <1>3 DEF FwNoRun, FwListsAgree, FwNoChains, FwInOrder, FwWorking
<1>5. FwRunsKnow'
  BY <1>2, <1>3 DEF FwNoRun, FwRunsKnow, FwKnows, PolicyDrift, fwRules
<1>6. FirewallReported'
  BY <1>2, <1>3 DEF FwNoRun, FirewallReported, FwMatches, PolicyDrift, fwRules
<1> QED
  BY <1>1, <1>4, <1>5, <1>6

LEMMA FwRunEnds ==
  ASSUME FwInv, NEW c \in FwCallers, FwEnd(c),
         UNCHANGED <<fwBackend, fwEnforce, fwRules>>
  PROVE  FwInv'
<1>1. Ended(c) \in FwSteps \ (FwWorking \union {"recordSuccess", "chain", "flush"})
  BY DEF Ended, FwSteps, FwCommands, FwWorking
<1> QED
  BY <1>1, FwIdleRun DEF FwEnd

\* The record of a run that goes on with its lists; what it does not get from
\* them it has dealt with.
LEMMA FwNextStepFits ==
  ASSUME NEW r \in FwRuns, FwInv
  PROVE  LET s == [r EXCEPT !.pc = FwNextStep(r)] IN
         /\ s \in FwRuns
         /\ s.missing = r.missing /\ s.unexpected = r.unexpected
         /\ s.policyDrift = r.policyDrift
         /\ s.pc \in {"policy", "remove", "add", "chain", "after"}
         /\ s.pc \in {"remove", "chain", "add", "after"} => ~s.policyDrift
         /\ s.pc \in {"chain", "add", "after"} => s.unexpected = {}
         /\ s.pc = "after" => s.missing = {}
         /\ fwBackend = "ufw" => s.pc # "chain"
<1> DEFINE s == [r EXCEPT !.pc = FwNextStep(r)]
<1>1. FwNextStep(r) \in {"policy", "remove", "add", "chain", "after"}
  BY DEF FwNextStep, FwRuns
<1>2. s.pc = FwNextStep(r) /\ s \in FwRuns
  BY <1>1 DEF FwRuns, FwSteps, FwCommands
<1>3. s.missing = r.missing /\ s.unexpected = r.unexpected
      /\ s.policyDrift = r.policyDrift
  BY DEF FwRuns
<1>4. /\ FwNextStep(r) \in {"remove", "chain", "add", "after"} => ~r.policyDrift
      /\ FwNextStep(r) \in {"chain", "add", "after"} => r.unexpected = {}
      /\ FwNextStep(r) = "after" => r.missing = {}
      /\ fwBackend = "ufw" => FwNextStep(r) # "chain"
  BY DEF FwNextStep, FwRuns
<1> QED
  BY <1>1, <1>2, <1>3, <1>4

\* One run changes what it knows, and perhaps the rules: it is enough that the
\* new record fits and that the rules have come no further from the desired
\* ones.
LEMMA FwOneRun ==
  ASSUME FwInv, NEW c \in FwCallers, NEW r \in FwRuns,
         fwRun' = [fwRun EXCEPT ![c] = r],
         UNCHANGED <<fwBackend, fwEnforce, fwMeddled>>, fwLive' \subseteq FwRules,
         r.missing \subseteq FwDesired, r.unexpected \intersect FwDesired = {},
         fwBackend = "ufw" => r.pc \notin {"chain", "flush"},
         r.pc \in {"remove", "chain", "add", "after"} => ~r.policyDrift,
         r.pc \in {"chain", "add", "after"} => r.unexpected = {},
         r.pc = "after" => r.missing = {},
         fwBackend = "ufw" =>
           /\ FwDesired \ fwLive' \subseteq FwDesired \ fwLive
           /\ fwLive' \ FwDesired \subseteq fwLive \ FwDesired
           /\ PolicyDrift' => PolicyDrift,
         fwBackend = "ufw" /\ fwEnforce /\ c \notin fwMeddled =>
           /\ r.pc \in FwWorking => FwKnows(c)'
           /\ r.pc = "recordSuccess" => FwMatches'
  PROVE  FwInv'
<1> USE DEF FwInv
<1>1. fwRun'[c] = r /\ \A d \in FwCallers \ {c} : fwRun'[d] = fwRun[d]
  BY DEF FwRunType
<1>2. FwRunType'
  BY DEF FwRunType
<1>3. (FwListsAgree /\ FwNoChains /\ FwInOrder)'
  BY <1>1 DEF FwListsAgree, FwNoChains, FwInOrder
<1>4. ASSUME fwBackend = "ufw", NEW d \in FwCallers \ {c}, FwKnows(d)
      PROVE  FwKnows(d)'
  BY <1>1, <1>4 DEF FwKnows
<1>5. FwRunsKnow'
  BY <1>1, <1>4 DEF FwRunsKnow
<1>6. ASSUME fwBackend = "ufw", FwMatches PROVE FwMatches'
  <2>1. FwDesired \ fwLive' = {} /\ fwLive' \ FwDesired = {} /\ ~PolicyDrift'
    BY <1>6 DEF FwMatches
  <2> QED
    BY <2>1 DEF FwMatches
<1>7. FirewallReported'
  BY <1>1, <1>6 DEF FirewallReported
<1> QED
  BY <1>2, <1>3, <1>5, <1>7

LEMMA FwStepKeeps ==
  ASSUME FwInv, NEW c \in FwCallers, FwBegin(c) \/ FwStep(c)
  PROVE  FwInv'
<1> USE DEF FwInv
<1>1. fwRun[c] \in FwRuns
  BY DEF FwRunType
<1>2. /\ fwRun[c].missing \subseteq FwDesired
      /\ fwRun[c].unexpected \intersect FwDesired = {}
  BY DEF FwListsAgree
<1>3. CASE FwBegin(c)
  <2> DEFINE r == [fwRun[c] EXCEPT !.pc = "capture"]
  <2>1. r \in FwRuns /\ fwRun' = [fwRun EXCEPT ![c] = r]
    BY <1>1, <1>3 DEF FwBegin, FwGoto, FwRuns, FwSteps, FwCommands, FwRunType
  <2> QED
    BY <1>1, <1>2, <1>3, <2>1, FwOneRun
    DEF FwBegin, fwWorld, fwRules, FwRuns, FwWorking, PolicyDrift, FwRunType
<1>4. CASE FwCaptured(c)
  <2> DEFINE drift == fwLive # FwDesired \/ PolicyDrift
             r == [pc |-> IF drift THEN "alert" ELSE "recordSuccess",
                   missing |-> FwDesired \ fwLive,
                   unexpected |-> fwLive \ FwDesired,
                   policyDrift |-> PolicyDrift]
  <2>1. PolicyDrift \in BOOLEAN
    BY DEF PolicyDrift
  <2>2. r \in FwRuns
    BY <2>1, FirewallAssumption DEF FwRuns, FwSteps, FwCommands, FwRunType
  <2>3. fwRun' = [fwRun EXCEPT ![c] = r] /\ fwRun'[c] = r
    BY <1>4 DEF FwCaptured, FwRunType
  <2>4. UNCHANGED <<fwBackend, fwEnforce, fwMeddled, fwLive, fwPolicy>>
    BY <1>4 DEF FwCaptured, fwWorld, fwRules
  <2>5. /\ r.missing = FwDesired \ fwLive /\ r.unexpected = fwLive \ FwDesired
        /\ r.policyDrift = PolicyDrift
        /\ r.pc \in {"alert", "recordSuccess"}
        /\ r.pc = "recordSuccess" => fwLive = FwDesired /\ ~PolicyDrift
    OBVIOUS
  <2> HIDE DEF r
  <2>6. r.pc = "recordSuccess" => FwMatches'
    BY <2>4, <2>5 DEF FwMatches, PolicyDrift
  <2>7. FwKnows(c)'
    BY <2>3, <2>4, <2>5 DEF FwKnows, PolicyDrift
  <2> QED
    BY <2>2, <2>3, <2>4, <2>5, <2>6, <2>7, FwOneRun
    DEF PolicyDrift, FwRunType
<1>5. CASE FwAlerted(c)
  <2>1. CASE fwEnforce
    <3> DEFINE r == [fwRun[c] EXCEPT !.pc = FwNextStep(fwRun[c])]
    <3>1. fwRun' = [fwRun EXCEPT ![c] = r]
      BY <1>5, <2>1 DEF FwAlerted, FwGoOn
    <3>2. UNCHANGED <<fwBackend, fwEnforce, fwMeddled, fwLive, fwPolicy>>
      BY <1>5 DEF FwAlerted, fwWorld, fwRules
    <3>3. fwBackend = "ufw" /\ c \notin fwMeddled => FwKnows(c)
      BY <1>5, <2>1 DEF FwAlerted, FwAt, FwRunsKnow, FwWorking
    <3>4. /\ r \in FwRuns
          /\ r.missing = fwRun[c].missing /\ r.unexpected = fwRun[c].unexpected
          /\ r.policyDrift = fwRun[c].policyDrift
          /\ r.pc \in {"policy", "remove", "add", "chain", "after"}
          /\ r.pc \in {"remove", "chain", "add", "after"} => ~r.policyDrift
          /\ r.pc \in {"chain", "add", "after"} => r.unexpected = {}
          /\ r.pc = "after" => r.missing = {}
          /\ fwBackend = "ufw" => r.pc # "chain"
      BY <1>1, FwNextStepFits
    <3> HIDE DEF r
    <3>5. fwRun'[c] = r
      BY <3>1 DEF FwRunType
    <3>6. fwBackend = "ufw" /\ c \notin fwMeddled => FwKnows(c)'
      BY <3>2, <3>3, <3>4, <3>5 DEF FwKnows, PolicyDrift
    <3> QED
      BY <1>2, <3>1, <3>2, <3>4, <3>6, FwOneRun DEF PolicyDrift, FwRunType
  <2>2. CASE ~fwEnforce
    <3> DEFINE r == [fwRun[c] EXCEPT !.pc = "recordSuccess"]
    <3>1. r \in FwRuns /\ fwRun' = [fwRun EXCEPT ![c] = r]
      BY <1>1, <1>5, <2>2
      DEF FwAlerted, FwGoto, FwRuns, FwSteps, FwCommands, FwRunType
    <3>2. UNCHANGED <<fwBackend, fwEnforce, fwMeddled, fwLive, fwPolicy>>
      BY <1>5 DEF FwAlerted, fwWorld, fwRules
    <3>3. r.missing = fwRun[c].missing /\ r.unexpected = fwRun[c].unexpected
          /\ r.pc = "recordSuccess"
      BY <1>1 DEF FwRuns
    <3> HIDE DEF r
    <3> QED
      BY <1>2, <2>2, <3>1, <3>2, <3>3, FwOneRun DEF PolicyDrift, FwRunType
  <2> QED
    BY <2>1, <2>2
<1>6. CASE FwPolicyApplied(c)
  <2>1. CASE fwBackend = "ufw"
    <3> DEFINE q == [fwRun[c] EXCEPT !.policyDrift = FALSE]
               r == [q EXCEPT !.pc = FwNextStep(q)]
    <3>1. q \in FwRuns /\ q.missing = fwRun[c].missing
          /\ q.unexpected = fwRun[c].unexpected
      BY <1>1 DEF FwRuns
    <3>2. fwRun' = [fwRun EXCEPT ![c] = r]
      BY <1>6, <2>1 DEF FwPolicyApplied, FwGoOn
    <3>3. UNCHANGED <<fwBackend, fwEnforce, fwMeddled, fwLive>>
          /\ fwPolicy' = FwDesiredPolicy
      BY <1>6, <2>1 DEF FwPolicyApplied, fwWorld
    <3>4. ~PolicyDrift'
      BY <3>3 DEF PolicyDrift
    <3>5. fwEnforce /\ c \notin fwMeddled => FwKnows(c)
      BY <1>6, <2>1 DEF FwPolicyApplied, FwAt, FwRunsKnow, FwWorking
    <3>6. /\ r \in FwRuns
          /\ r.missing = q.missing /\ r.unexpected = q.unexpected
          /\ r.policyDrift = q.policyDrift
          /\ r.pc \in {"policy", "remove", "add", "chain", "after"}
          /\ r.pc \in {"remove", "chain", "add", "after"} => ~r.policyDrift
          /\ r.pc \in {"chain", "add", "after"} => r.unexpected = {}
          /\ r.pc = "after" => r.missing = {}
          /\ fwBackend = "ufw" => r.pc # "chain"
      BY <3>1, FwNextStepFits
    <3> HIDE DEF r, q
    <3>7. fwRun'[c] = r
      BY <3>2 DEF FwRunType
    <3>8. fwEnforce /\ c \notin fwMeddled => FwKnows(c)'
      BY <3>1, <3>3, <3>4, <3>5, <3>6, <3>7 DEF FwKnows
    <3> QED
      BY <1>2, <3>1, <3>2, <3>3, <3>4, <3>6, <3>8, FwOneRun DEF FwRunType
  <2>2. CASE fwBackend # "ufw"
    <3> DEFINE r == [fwRun[c] EXCEPT !.pc = "flush"]
    <3>1. r \in FwRuns /\ fwRun' = [fwRun EXCEPT ![c] = r]
      BY <1>1, <1>6, <2>2
      DEF FwPolicyApplied, FwGoto, FwRuns, FwSteps, FwCommands, FwRunType
    <3>2. UNCHANGED <<fwBackend, fwEnforce, fwMeddled, fwLive>>
      BY <1>6 DEF FwPolicyApplied, fwWorld
    <3>3. r.missing = fwRun[c].missing /\ r.unexpected = fwRun[c].unexpected
          /\ r.pc = "flush"
      BY <1>1 DEF FwRuns
    <3> HIDE DEF r
    <3> QED
      BY <1>2, <2>2, <3>1, <3>2, <3>3, FwOneRun DEF FwRunType
  <2> QED
    BY <2>1, <2>2
<1>7. CASE FwFlushed(c)
  <2> DEFINE q == [fwRun[c] EXCEPT !.policyDrift = FALSE]
             r == [q EXCEPT !.pc = FwNextStep(q)]
  <2>1. q \in FwRuns /\ q.missing = fwRun[c].missing
        /\ q.unexpected = fwRun[c].unexpected
    BY <1>1 DEF FwRuns
  <2>2. fwRun' = [fwRun EXCEPT ![c] = r]
    BY <1>7 DEF FwFlushed, FwGoOn
  <2>3. fwBackend # "ufw"
    BY <1>7 DEF FwFlushed, FwAt, FwNoChains
  <2>4. UNCHANGED <<fwBackend, fwEnforce, fwMeddled>> /\ fwLive' = {}
    BY <1>7 DEF FwFlushed, fwWorld
  <2>5. /\ r \in FwRuns
        /\ r.missing = q.missing /\ r.unexpected = q.unexpected
        /\ r.pc \in {"remove", "chain", "add", "after"} => ~r.policyDrift
        /\ r.pc \in {"chain", "add", "after"} => r.unexpected = {}
        /\ r.pc = "after" => r.missing = {}
    BY <2>1, FwNextStepFits
  <2> HIDE DEF r, q
  <2> QED
    BY <1>2, <2>1, <2>2, <2>3, <2>4, <2>5, FwOneRun
<1>8. CASE FwRemoved(c)
  <2>1. PICK rule \in fwRun[c].unexpected :
          /\ fwLive' = IF fwBackend = "ufw" THEN fwLive \ {rule} ELSE {}
          /\ FwGoOn(c, [fwRun[c] EXCEPT !.unexpected = @ \ {rule}])
    BY <1>8 DEF FwRemoved
  <2> DEFINE q == [fwRun[c] EXCEPT !.unexpected = @ \ {rule}]
             r == [q EXCEPT !.pc = FwNextStep(q)]
  <2>2. q \in FwRuns /\ q.missing = fwRun[c].missing
        /\ q.unexpected = fwRun[c].unexpected \ {rule}
        /\ q.policyDrift = fwRun[c].policyDrift
    BY <1>1 DEF FwRuns
  <2>3. fwRun' = [fwRun EXCEPT ![c] = r]
    BY <2>1 DEF FwGoOn
  <2>4. UNCHANGED <<fwBackend, fwEnforce, fwMeddled, fwPolicy>>
    BY <1>8 DEF FwRemoved, fwWorld
  <2>5. fwBackend = "ufw" /\ fwEnforce /\ c \notin fwMeddled => FwKnows(c)
    BY <1>8 DEF FwRemoved, FwAt, FwRunsKnow, FwWorking
  <2>6. /\ r \in FwRuns
        /\ r.missing = q.missing /\ r.unexpected = q.unexpected
        /\ r.policyDrift = q.policyDrift
        /\ r.pc \in {"policy", "remove", "add", "chain", "after"}
        /\ r.pc \in {"remove", "chain", "add", "after"} => ~r.policyDrift
        /\ r.pc \in {"chain", "add", "after"} => r.unexpected = {}
        /\ r.pc = "after" => r.missing = {}
        /\ fwBackend = "ufw" => r.pc # "chain"
    BY <2>2, FwNextStepFits
  <2> HIDE DEF r, q
  <2>7. fwRun'[c] = r
    BY <2>3 DEF FwRunType
  <2>8. rule \notin FwDesired
    BY <1>2
  <2>9. fwBackend = "ufw" /\ fwEnforce /\ c \notin fwMeddled => FwKnows(c)'
    BY <2>1, <2>2, <2>4, <2>5, <2>6, <2>7, <2>8 DEF FwKnows, PolicyDrift
  <2>10. /\ fwLive' \subseteq FwRules
         /\ fwBackend = "ufw" =>
              /\ FwDesired \ fwLive' \subseteq FwDesired \ fwLive
              /\ fwLive' \ FwDesired \subseteq fwLive \ FwDesired
    BY <2>1, <2>8 DEF FwRunType
  <2>11. r.missing \subseteq FwDesired /\ r.unexpected \intersect FwDesired = {}
    BY <1>2, <2>2, <2>6
  <2>12. PolicyDrift' <=> PolicyDrift
    BY <2>4 DEF PolicyDrift
  <2> QED
    BY <2>3, <2>4, <2>6, <2>9, <2>10, <2>11, <2>12, FwOneRun
<1>9. CASE FwChained(c)
  <2> DEFINE r == [fwRun[c] EXCEPT !.pc = "add"]
  <2>1. r \in FwRuns /\ fwRun' = [fwRun EXCEPT ![c] = r]
    BY <1>1, <1>9 DEF FwChained, FwGoto, FwRuns, FwSteps, FwCommands, FwRunType
  <2>2. UNCHANGED <<fwBackend, fwEnforce, fwMeddled, fwLive>> /\ fwBackend # "ufw"
    BY <1>9 DEF FwChained, FwAt, fwWorld, FwNoChains
  <2>3. r.missing = fwRun[c].missing /\ r.unexpected = fwRun[c].unexpected
        /\ r.policyDrift = fwRun[c].policyDrift /\ r.pc = "add"
    BY <1>1 DEF FwRuns
  <2>4. fwRun[c].unexpected = {} /\ ~fwRun[c].policyDrift
    BY <1>9 DEF FwChained, FwAt, FwInOrder
  <2> HIDE DEF r
  <2> QED
    BY <1>2, <2>1, <2>2, <2>3, <2>4, FwOneRun DEF FwRunType
<1>10. CASE FwAdded(c)
  <2>1. PICK rule \in fwRun[c].missing :
          /\ fwLive' = fwLive \union {rule}
          /\ FwGoOn(c, [fwRun[c] EXCEPT !.missing = @ \ {rule}])
    BY <1>10 DEF FwAdded
  <2> DEFINE q == [fwRun[c] EXCEPT !.missing = @ \ {rule}]
             r == [q EXCEPT !.pc = FwNextStep(q)]
  <2>2. q \in FwRuns /\ q.missing = fwRun[c].missing \ {rule}
        /\ q.unexpected = fwRun[c].unexpected
        /\ q.policyDrift = fwRun[c].policyDrift
    BY <1>1 DEF FwRuns
  <2>3. fwRun' = [fwRun EXCEPT ![c] = r]
    BY <2>1 DEF FwGoOn
  <2>4. UNCHANGED <<fwBackend, fwEnforce, fwMeddled, fwPolicy>>
    BY <1>10 DEF FwAdded, fwWorld
  <2>5. fwBackend = "ufw" /\ fwEnforce /\ c \notin fwMeddled => FwKnows(c)
    BY <1>10 DEF FwAdded, FwAt, FwRunsKnow, FwWorking
  <2>6. /\ r \in FwRuns
        /\ r.missing = q.missing /\ r.unexpected = q.unexpected
        /\ r.policyDrift = q.policyDrift
        /\ r.pc \in {"policy", "remove", "add", "chain", "after"}
        /\ r.pc \in {"remove", "chain", "add", "after"} => ~r.policyDrift
        /\ r.pc \in {"chain", "add", "after"} => r.unexpected = {}
        /\ r.pc = "after" => r.missing = {}
        /\ fwBackend = "ufw" => r.pc # "chain"
    BY <2>2, FwNextStepFits
  <2> HIDE DEF r, q
  <2>7. fwRun'[c] = r
    BY <2>3 DEF FwRunType
  <2>8. rule \in FwDesired /\ rule \in FwRules
    BY <1>2, FirewallAssumption
  <2>9. fwBackend = "ufw" /\ fwEnforce /\ c \notin fwMeddled => FwKnows(c)'
    BY <2>1, <2>2, <2>4, <2>5, <2>6, <2>7, <2>8 DEF FwKnows, PolicyDrift
  <2> QED
    BY <1>2, <2>1, <2>2, <2>3, <2>4, <2>6, <2>8, <2>9, FwOneRun
    DEF FwRunType, PolicyDrift
<1>11. CASE FwCapturedAfter(c)
  <2> DEFINE r == [fwRun[c] EXCEPT !.pc = "recordSuccess"]
  <2>1. r \in FwRuns /\ fwRun' = [fwRun EXCEPT ![c] = r]
    BY <1>1, <1>11
    DEF FwCapturedAfter, FwGoto, FwRuns, FwSteps, FwCommands, FwRunType
  <2>2. UNCHANGED <<fwBackend, fwEnforce, fwMeddled, fwLive, fwPolicy>>
    BY <1>11 DEF FwCapturedAfter, fwWorld, fwRules
  <2>3. r.missing = fwRun[c].missing /\ r.unexpected = fwRun[c].unexpected
        /\ r.pc = "recordSuccess"
    BY <1>1 DEF FwRuns
  <2>4. /\ fwRun[c].missing = {} /\ fwRun[c].unexpected = {}
        /\ ~fwRun[c].policyDrift
    BY <1>11 DEF FwCapturedAfter, FwAt, FwInOrder
  <2>5. fwBackend = "ufw" /\ fwEnforce /\ c \notin fwMeddled => FwKnows(c)
    BY <1>11 DEF FwCapturedAfter, FwAt, FwRunsKnow, FwWorking
  <2>6. fwBackend = "ufw" /\ fwEnforce /\ c \notin fwMeddled => FwMatches'
    BY <2>2, <2>4, <2>5 DEF FwKnows, FwMatches, PolicyDrift
  <2> HIDE DEF r
  <2> QED
    BY <1>2, <2>1, <2>2, <2>3, <2>6, FwOneRun
    DEF FwRunType, FwWorking, PolicyDrift
<1>12. CASE FwRecorded(c)
  BY <1>12, FwRunEnds DEF FwRecorded, fwWorld
<1> QED
  BY <1>3, <1>4, <1>5, <1>6, <1>7, <1>8, <1>9, <1>10, <1>11, <1>12 DEF FwStep

LEMMA FwInvStep == FwInv /\ FirewallNext => FwInv'
<1> SUFFICES ASSUME FwInv, FirewallNext PROVE FwInv'
  OBVIOUS
<1>1. CASE \E c \in FwCallers : FwBegin(c) \/ FwStep(c)
  BY <1>1, FwStepKeeps
<1>2. ASSUME NEW c \in FwCallers, FwFails(c) PROVE FwInv'
  <2>1. "recordFailure" \in
          FwSteps \ (FwWorking \union {"recordSuccess", "chain", "flush"})
    BY DEF FwSteps, FwCommands, FwWorking
  <2> QED
    BY <1>2, <2>1, FwIdleRun DEF FwFails, fwWorld, fwRules
<1>3. ASSUME NEW c \in FwCallers, FwRaises(c) PROVE FwInv'
  BY <1>3, FwRunEnds DEF FwRaises, fwWorld
<1>4. CASE FwMeddle
  <2>1. UNCHANGED <<fwBackend, fwEnforce, fwRun>> /\ fwMeddled' = FwBusy
    BY <1>4 DEF FwMeddle
  <2>2. fwLive' \subseteq FwRules
    BY <1>4 DEF FwMeddle, FwInv, FwRunType
  <2>3. \A c \in FwCallers \ FwBusy : fwRun[c].pc \in {"idle", "due", "done"}
    BY DEF FwBusy, Waiting, Ended
  <2>4. (FwRunType /\ FwListsAgree /\ FwNoChains /\ FwInOrder)'
    BY <2>1, <2>2
    DEF FwInv, FwRunType, FwListsAgree, FwNoChains, FwInOrder
  <2>5. (FwRunsKnow /\ FirewallReported)'
    BY <2>1, <2>3 DEF FwRunsKnow, FirewallReported, FwWorking
  <2> QED
    BY <2>4, <2>5 DEF FwInv
<1> QED
  BY <1>1, <1>2, <1>3, <1>4 DEF FirewallNext

\* The daemon starts again: no run is under way.
LEMMA FwInvForget == FwInv /\ FwForget => FwInv'
<1> SUFFICES ASSUME FwInv, FwForget PROVE FwInv'
  OBVIOUS
<1>1. \A c \in FwCallers : fwRun'[c] = FwNoRun(Waiting(c))
  BY DEF FwForget
<1>2. \A c \in FwCallers : Waiting(c) \in {"due", "idle"}
  BY DEF Waiting
<1>3. FwRunType'
  BY <1>2 DEF FwForget, FwInv, FwRunType, FwNoRun, FwRuns, FwSteps, FwCommands,
              fwRules
<1>4. ASSUME NEW c \in FwCallers
      PROVE  /\ fwRun'[c].pc \in {"due", "idle"}
             /\ fwRun'[c].missing = {} /\ fwRun'[c].unexpected = {}
  <2>1. LET r == FwNoRun(Waiting(c))
        IN  r.pc = Waiting(c) /\ r.missing = {} /\ r.unexpected = {}
    BY DEF FwNoRun
  <2> QED
    BY <1>1, <1>2, <2>1
<1>5. (FwListsAgree /\ FwNoChains /\ FwInOrder)'
  BY <1>4 DEF FwListsAgree, FwNoChains, FwInOrder
<1>6. (FwRunsKnow /\ FirewallReported)'
  BY <1>4 DEF FwRunsKnow, FirewallReported, FwWorking
<1> QED
  BY <1>3, <1>5, <1>6 DEF FwInv

-----------------------------------------------------------------------------
(* Required packages *)

PkRunType == pkCheck \in [PqCallers -> PqRuns]

\* A package that is required and not there is still to be dealt with, or known
\* to have failed, wherever the check stands.
PqKnows(c) ==
  LET r == pkCheck[c] IN
  /\ r.pc = "query" => PkRequired \ (r.todo \union r.missing) \subseteq pkPresent
  /\ r.pc \in {"announce", "install", "publish"} =>
       PkRequired \ (r.todo \union r.failed) \subseteq pkPresent
  /\ r.pc = "record" => PkRequired \ r.failed \subseteq pkPresent

PkInv == PkRunType /\ \A c \in PqCallers \ pkMeddled : PqKnows(c)

LEMMA PkInvImplies == PkInv => PackagesReported
  BY DEF PkInv, PqKnows, PackagesReported

LEMMA PkInvInit == PackagesInit => PkInv
<1> SUFFICES ASSUME PackagesInit PROVE PkInv
  OBVIOUS
<1>1. \A c \in PqCallers : pkCheck[c] = PqNoRun(Waiting(c))
  BY DEF PackagesInit
<1>2. \A c \in PqCallers : Waiting(c) \in {"due", "idle"}
  BY DEF Waiting
<1>3. PkRunType
  BY <1>2 DEF PackagesInit, PkRunType, PqRuns, PqNoRun, PqSteps
<1>4. ASSUME NEW c \in PqCallers PROVE pkCheck[c].pc \in {"due", "idle"}
  <2>1. PqNoRun(Waiting(c)).pc = Waiting(c)
    BY DEF PqNoRun
  <2> QED
    BY <1>1, <1>2, <2>1
<1> QED
  BY <1>3, <1>4 DEF PkInv, PqKnows

LEMMA PkInvSame ==
  PkInv /\ UNCHANGED <<pkCheck, pkPresent, pkMeddled>> => PkInv'
  BY DEF PkInv, PkRunType, PqKnows

\* One check goes on, and packages only come: it is enough that it knows.
LEMMA PkOneCheck ==
  ASSUME PkInv, NEW c \in PqCallers, NEW r \in PqRuns,
         pkCheck' = [pkCheck EXCEPT ![c] = r],
         pkPresent \subseteq pkPresent',
         pkMeddled \ {c} \subseteq pkMeddled',
         c \notin pkMeddled' => PqKnows(c)'
  PROVE  PkInv'
<1>1. PkRunType'
  BY DEF PkInv, PkRunType
<1>2. ASSUME NEW d \in PqCallers \ pkMeddled', d # c PROVE PqKnows(d)'
  <2>1. PqKnows(d) /\ pkCheck'[d] = pkCheck[d]
    BY <1>2 DEF PkInv, PkRunType
  <2> QED
    BY <2>1 DEF PqKnows
<1> QED
  BY <1>1, <1>2 DEF PkInv

LEMMA PkCheckEnds ==
  ASSUME PkInv, NEW c \in PqCallers, PqEnd(c), UNCHANGED pkPresent
  PROVE  PkInv'
<1>1. Ended(c) \in {"done", "idle"}
  BY DEF Ended
<1>2. PqNoRun(Ended(c)) \in PqRuns
  BY <1>1 DEF PqNoRun, PqRuns, PqSteps
<1>3. pkCheck'[c] = PqNoRun(Ended(c))
  BY DEF PqEnd, PqGoto, PkInv, PkRunType
<1>4. PqKnows(c)'
  BY <1>1, <1>3 DEF PqKnows, PqNoRun
<1> QED
  BY <1>2, <1>4, PkOneCheck DEF PqEnd, PqGoto

LEMMA PqStepKeeps ==
  ASSUME PkInv, NEW c \in PqCallers, PqBegin(c) \/ PqStep(c) \/ PqRaises(c)
  PROVE  PkInv'
<1>1. pkCheck[c] \in PqRuns
  BY DEF PkInv, PkRunType
<1>2. c \notin pkMeddled => PqKnows(c)
  BY DEF PkInv
<1>3. CASE PqBegin(c)
  <2> DEFINE r == IF pkDistro = "other"
                  THEN [PqNoRun("record") EXCEPT !.failed = PkRequired]
                  ELSE [PqNoRun("query") EXCEPT !.todo = PkRequired]
  <2>1. r \in PqRuns /\ pkCheck' = [pkCheck EXCEPT ![c] = r]
    BY <1>3 DEF PqBegin, PqGoto, PqNoRun, PqRuns, PqSteps
  <2>2. \/ r.pc = "record" /\ r.failed = PkRequired
        \/ r.pc = "query" /\ r.todo = PkRequired
    BY DEF PqNoRun
  <2> HIDE DEF r
  <2>3. pkCheck'[c] = r
    BY <2>1 DEF PkInv, PkRunType
  <2>4. PqKnows(c)'
    BY <2>2, <2>3 DEF PqKnows
  <2> QED
    BY <1>3, <2>1, <2>4, PkOneCheck DEF PqBegin
<1>4. CASE PqQueried(c)
  <2> DEFINE q == pkCheck[c]
             missing(p) == IF p \in pkPresent THEN q.missing
                           ELSE q.missing \union {p}
             left(p) == q.todo \ {p}
             r(p) == [q EXCEPT
                        !.missing = missing(p),
                        !.pc = IF left(p) # {} THEN "query"
                               ELSE IF missing(p) = {} THEN "record"
                               ELSE "announce",
                        !.todo = IF left(p) = {} THEN missing(p) ELSE left(p)]
  <2>1. PICK p \in q.todo : pkCheck' = [pkCheck EXCEPT ![c] = r(p)]
    BY <1>4 DEF PqQueried, PqGoto
  <2>2. p \in PkRequired /\ missing(p) \subseteq PkRequired
        /\ left(p) \subseteq PkRequired
    BY <1>1, <2>1 DEF PqRuns
  <2>3. UNCHANGED <<pkPresent, pkMeddled>> /\ q.pc = "query"
    BY <1>4 DEF PqQueried, PqAt
  <2>4. c \notin pkMeddled =>
          PkRequired \ (left(p) \union missing(p)) \subseteq pkPresent
    BY <1>2, <2>3 DEF PqKnows
  <2> HIDE DEF missing, left
  <2>5. r(p) \in PqRuns
    BY <1>1, <2>2 DEF PqRuns, PqSteps
  <2>6. /\ r(p).missing = missing(p)
        /\ \/ r(p).pc = "query" /\ r(p).todo = left(p)
           \/ r(p).pc = "record" /\ left(p) = {} /\ missing(p) = {}
           \/ r(p).pc = "announce" /\ left(p) = {} /\ r(p).todo = missing(p)
    BY <1>1 DEF PqRuns
  <2> HIDE DEF r
  <2>7. pkCheck'[c] = r(p)
    BY <2>1, <2>5 DEF PkInv, PkRunType
  <2>8. c \notin pkMeddled' => PqKnows(c)'
    BY <2>3, <2>4, <2>6, <2>7 DEF PqKnows
  <2> QED
    BY <2>1, <2>3, <2>5, <2>8, PkOneCheck
<1>5. CASE PqAnnounced(c)
  <2> DEFINE q == pkCheck[c]
             pc(p) == IF q.missing = {p} THEN "install" ELSE "announce"
             r(p) == [q EXCEPT !.missing = @ \ {p}, !.pc = pc(p)]
  <2>1. PICK p \in q.missing : pkCheck' = [pkCheck EXCEPT ![c] = r(p)]
    BY <1>5 DEF PqAnnounced, PqGoto
  <2>2. /\ r(p) \in PqRuns /\ r(p).pc \in {"install", "announce"}
        /\ r(p).todo = q.todo /\ r(p).failed = q.failed
    BY <1>1 DEF PqRuns, PqSteps
  <2> HIDE DEF r
  <2>3. pkCheck'[c] = r(p)
    BY <2>1 DEF PkInv, PkRunType
  <2>4. UNCHANGED <<pkPresent, pkMeddled>> /\ q.pc = "announce"
    BY <1>5 DEF PqAnnounced, PqAt
  <2>5. c \notin pkMeddled' => PqKnows(c)'
    BY <1>2, <2>2, <2>3, <2>4 DEF PqKnows
  <2> QED
    BY <2>1, <2>2, <2>4, <2>5, PkOneCheck
<1>6. CASE PqInstalled(c)
  <2> DEFINE left(p) == [pkCheck[c] EXCEPT !.todo = @ \ {p}, !.pc = "publish"]
             lost(p) == [left(p) EXCEPT !.failed = @ \union {p}]
  <2>1. PICK p \in pkCheck[c].todo :
          \/ pkPresent' = pkPresent \union {p} /\ PqGoto(c, left(p))
          \/ PqGoto(c, lost(p)) /\ UNCHANGED pkPresent
    BY <1>6 DEF PqInstalled
  <2>2. p \in PkRequired
    BY <1>1, <2>1 DEF PqRuns
  <2>3. left(p) \in PqRuns /\ lost(p) \in PqRuns
    BY <1>1, <2>2 DEF PqRuns, PqSteps
  <2>4. /\ left(p).pc = "publish" /\ lost(p).pc = "publish"
        /\ left(p).todo = pkCheck[c].todo \ {p}
        /\ lost(p).todo = pkCheck[c].todo \ {p}
        /\ left(p).failed = pkCheck[c].failed
        /\ lost(p).failed = pkCheck[c].failed \union {p}
    BY <1>1 DEF PqRuns
  <2>5. pkMeddled' = pkMeddled /\ pkCheck[c].pc = "install"
    BY <1>6 DEF PqInstalled, PqAt
  <2> HIDE DEF left, lost
  <2>6. CASE pkPresent' = pkPresent \union {p} /\ PqGoto(c, left(p))
    <3>1. pkCheck'[c] = left(p)
      BY <2>6 DEF PqGoto, PkInv, PkRunType
    <3>2. c \notin pkMeddled' => PqKnows(c)'
      BY <1>2, <2>4, <2>5, <2>6, <3>1 DEF PqKnows
    <3> QED
      BY <2>3, <2>5, <2>6, <3>2, PkOneCheck DEF PqGoto
  <2>7. CASE PqGoto(c, lost(p)) /\ UNCHANGED pkPresent
    <3>1. pkCheck'[c] = lost(p)
      BY <2>7 DEF PqGoto, PkInv, PkRunType
    <3>2. c \notin pkMeddled' => PqKnows(c)'
      BY <1>2, <2>4, <2>5, <2>7, <3>1 DEF PqKnows
    <3> QED
      BY <2>3, <2>5, <2>7, <3>2, PkOneCheck DEF PqGoto
  <2> QED
    BY <2>1, <2>6, <2>7
<1>7. CASE PqPublished(c)
  <2> DEFINE step == IF pkCheck[c].todo = {} THEN "record" ELSE "install"
             r == [pkCheck[c] EXCEPT !.pc = step]
  <2>1. r \in PqRuns /\ pkCheck' = [pkCheck EXCEPT ![c] = r]
    BY <1>1, <1>7 DEF PqPublished, PqGoto, PqRuns, PqSteps
  <2>2. /\ \/ r.pc = "record" /\ pkCheck[c].todo = {}
           \/ r.pc = "install"
        /\ r.todo = pkCheck[c].todo /\ r.failed = pkCheck[c].failed
    BY <1>1 DEF PqRuns
  <2> HIDE DEF r
  <2>3. pkCheck'[c] = r
    BY <2>1 DEF PkInv, PkRunType
  <2>4. UNCHANGED <<pkPresent, pkMeddled>> /\ pkCheck[c].pc = "publish"
    BY <1>7 DEF PqPublished, PqAt
  <2>5. c \notin pkMeddled' => PqKnows(c)'
    BY <1>2, <2>2, <2>3, <2>4 DEF PqKnows
  <2> QED
    BY <2>1, <2>4, <2>5, PkOneCheck
<1>8. CASE PqRecorded(c)
  BY <1>8, PkCheckEnds DEF PqRecorded
<1>9. CASE PqRaises(c)
  BY <1>9, PkCheckEnds DEF PqRaises
<1> QED
  BY <1>3, <1>4, <1>5, <1>6, <1>7, <1>8, <1>9 DEF PqStep

LEMMA PkInvStep == PkInv /\ PackagesNext => PkInv'
<1> SUFFICES ASSUME PkInv, PackagesNext PROVE PkInv'
  OBVIOUS
<1>1. CASE \E c \in UpCallers : UpBegin(c) \/ UpStep(c) \/ UpRaises(c)
  <2>1. UNCHANGED pkChecks
    BY <1>1
    DEF UpBegin, UpStep, UpUpgraded, UpRecorded, UpAnnounced, UpRebootAsked,
        UpRebootTold, UpRaises, UpHost
  <2> QED
    BY <2>1, PkInvSame DEF pkChecks
<1>2. CASE \E c \in PqCallers : PqBegin(c) \/ PqStep(c) \/ PqRaises(c)
  BY <1>2, PqStepKeeps
<1>3. CASE PkRemoved
  <2>1. pkCheck' = pkCheck /\
        pkMeddled' = {c \in PqCallers : pkCheck[c].pc \notin {Waiting(c), Ended(c)}}
    BY <1>3 DEF PkRemoved, PkMeddles
  <2>2. \A c \in PqCallers \ pkMeddled' : pkCheck'[c].pc \in {"idle", "due", "done"}
    BY <2>1 DEF Waiting, Ended
  <2> QED
    BY <2>1, <2>2 DEF PkInv, PkRunType, PqKnows
<1>4. CASE PkUpdateOut
  BY <1>4, PkInvSame DEF PkUpdateOut, PkMeddles
<1>5. CASE PkRebooted
  BY <1>5, PkInvSame DEF PkRebooted, pkChecks
<1> QED
  BY <1>1, <1>2, <1>3, <1>4, <1>5 DEF PackagesNext

LEMMA PkInvForget == PkInv /\ PkForget => PkInv'
<1> SUFFICES ASSUME PkForget PROVE PkInv'
  OBVIOUS
<1>1. \A c \in PqCallers : pkCheck'[c] = PqNoRun(Waiting(c))
  BY DEF PkForget
<1>2. \A c \in PqCallers : Waiting(c) \in {"due", "idle"}
  BY DEF Waiting
<1>3. PkRunType'
  BY <1>2 DEF PkForget, PkRunType, PqRuns, PqNoRun, PqSteps
<1>4. ASSUME NEW c \in PqCallers PROVE pkCheck'[c].pc \in {"due", "idle"}
  <2>1. PqNoRun(Waiting(c)).pc = Waiting(c)
    BY DEF PqNoRun
  <2> QED
    BY <1>1, <1>2, <2>1
<1> QED
  BY <1>3, <1>4 DEF PkInv, PqKnows

-----------------------------------------------------------------------------
(* Hardening *)

\* A record of the right fields; what is in todo does not matter here.
HdShaped(r) ==
  /\ r = [pc |-> r.pc, todo |-> r.todo, result |-> r.result,
          announce |-> r.announce]
  /\ r.result \in [HdChecks -> HdResults]

HdRunsShaped ==
  /\ hdRun = [c \in HdCallers |-> hdRun[c]]
  /\ \A c \in HdCallers : HdShaped(hdRun[c])

\* Where no run is under way, nothing counts as fixed.
HdNoneFixed ==
  \A c \in HdCallers :
    hdRun[c].pc \in {"idle", "due", "done"} => HdFixed(c) = {}

HdAsWanted(k) == HdPasses(k) /\ (k \in SshChecks \ hdEarlier => k \in hdInForce)

\* What a run has fixed is as it should be from then on, not only at the end.
HdFixedHolds ==
  \A c \in HdCallers \ hdMeddled :
    \A k \in HdFixed(c) \ hdLater : HdAsWanted(k)

HdInv == HdRunsShaped /\ HdNoneFixed /\ HdFixedHolds

LEMMA HdInvImplies == HdInv => HardeningReported
  BY DEF HdInv, HdFixedHolds, HdAsWanted, HardeningReported, HdFixed

LEMMA HdNoRunShaped ==
  ASSUME NEW pc
  PROVE  /\ HdShaped(HdNoRun(pc)) /\ HdNoRun(pc).pc = pc
         /\ \A k \in HdChecks : HdNoRun(pc).result[k] # "fixed"
<1>1. HdNoRun(pc).result = [k \in HdChecks |-> "none"]
  BY DEF HdNoRun
<1>2. [k \in HdChecks |-> "none"] \in [HdChecks -> HdResults]
  BY DEF HdResults
<1>3. HdNoRun(pc).pc = pc /\ HdShaped(HdNoRun(pc))
  BY <1>2 DEF HdNoRun, HdShaped
<1> QED
  BY <1>1, <1>3

LEMMA HdInvInit == HardeningInit => HdInv
<1> SUFFICES ASSUME HardeningInit PROVE HdInv
  OBVIOUS
<1>1. hdRun = [c \in HdCallers |-> HdNoRun(Waiting(c))]
  BY DEF HardeningInit
<1>2. \A c \in HdCallers : hdRun[c] = HdNoRun(Waiting(c))
  BY <1>1
<1>3. HdRunsShaped
  BY <1>1, <1>2, HdNoRunShaped DEF HdRunsShaped
<1>4. \A c \in HdCallers : HdFixed(c) = {}
  BY <1>2, HdNoRunShaped DEF HdFixed
<1> QED
  BY <1>3, <1>4 DEF HdInv, HdNoneFixed, HdFixedHolds

LEMMA HdInvForget == HdForget => HdInv'
<1> SUFFICES ASSUME HdForget PROVE HdInv'
  OBVIOUS
<1>1. hdRun' = [c \in HdCallers |-> HdNoRun(Waiting(c))]
  BY DEF HdForget
<1>2. \A c \in HdCallers : hdRun'[c] = HdNoRun(Waiting(c))
  BY <1>1
<1>3. HdRunsShaped'
  BY <1>1, <1>2, HdNoRunShaped DEF HdRunsShaped
<1>4. \A c \in HdCallers : HdFixed(c)' = {}
  BY <1>2, HdNoRunShaped DEF HdFixed
<1> QED
  BY <1>3, <1>4 DEF HdInv, HdNoneFixed, HdFixedHolds

LEMMA HdSameWanted ==
  ASSUME NEW k, UNCHANGED <<hdHost, hdEarlier, hdLater>>
  PROVE  HdPasses(k)' = HdPasses(k) /\ HdAsWanted(k)' = HdAsWanted(k)
<1>1. UNCHANGED <<hdMain, hdManaged, hdInForce, hdSysctl, hdEnabled, hdEarlier,
                  hdLater>>
  BY DEF hdHost, hdFiles
<1>2. HdPasses(k)' = HdPasses(k)
  BY <1>1 DEF HdPasses, HdEffective, HdEffectiveWith
<1> QED
  BY <1>1, <1>2 DEF HdAsWanted

LEMMA HdInvSame == HdInv /\ UNCHANGED hardeningState => HdInv'
<1> SUFFICES ASSUME HdInv, UNCHANGED hardeningState PROVE HdInv'
  OBVIOUS
<1>1. UNCHANGED <<hdHost, hdEarlier, hdLater, hdRun, hdMeddled>>
  BY DEF hardeningState, hdConfig
<1>2. \A k : HdAsWanted(k)' = HdAsWanted(k)
  BY <1>1, HdSameWanted
<1> QED
  BY <1>1, <1>2 DEF HdInv, HdRunsShaped, HdNoneFixed, HdFixedHolds, HdFixed

\* One run goes on, and spoils no setting that was as wanted: it is enough that
\* what it newly counts as fixed is.
LEMMA HdOneRun ==
  ASSUME HdInv, NEW c \in HdCallers,
         hdRun' = [d \in HdCallers |-> hdRun'[d]], HdShaped(hdRun'[c]),
         \A d \in HdCallers \ {c} : hdRun'[d] = hdRun[d],
         hdMeddled \ {c} \subseteq hdMeddled', UNCHANGED <<hdEarlier, hdLater>>,
         \A k \in HdChecks \ hdLater : HdAsWanted(k) => HdAsWanted(k)',
         hdRun'[c].pc \in {"idle", "due", "done"} => HdFixed(c)' = {},
         c \notin hdMeddled' => \A k \in HdFixed(c)' \ hdLater : HdAsWanted(k)'
  PROVE  HdInv'
<1>1. HdRunsShaped'
  BY DEF HdInv, HdRunsShaped, HdShaped
<1>2. \A d \in HdCallers \ {c} : HdFixed(d)' = HdFixed(d)
  BY DEF HdFixed
<1>3. HdNoneFixed'
  BY <1>2 DEF HdInv, HdNoneFixed
<1>4. ASSUME NEW d \in HdCallers \ hdMeddled', NEW k \in HdFixed(d)' \ hdLater'
      PROVE  HdAsWanted(k)'
  <2>1. CASE d = c
    BY <1>4, <2>1
  <2>2. CASE d # c
    <3>1. HdAsWanted(k)
      BY <1>2, <1>4, <2>2 DEF HdInv, HdFixedHolds
    <3> QED
      BY <1>4, <3>1 DEF HdFixed
  <2> QED
    BY <2>1, <2>2
<1> QED
  BY <1>1, <1>3, <1>4 DEF HdInv, HdFixedHolds

LEMMA HdRunEnds ==
  ASSUME HdInv, NEW c \in HdCallers, HdEnd(c),
         UNCHANGED <<hdHost, hdEarlier, hdLater>>
  PROVE  HdInv'
<1>1. /\ hdRun' = [hdRun EXCEPT ![c] = HdNoRun(Ended(c))]
      /\ hdMeddled' = hdMeddled \ {c}
  BY DEF HdEnd
<1>2. hdRun = [d \in HdCallers |-> hdRun[d]]
  BY DEF HdInv, HdRunsShaped
<1>3. hdRun'[c] = HdNoRun(Ended(c))
      /\ \A d \in HdCallers \ {c} : hdRun'[d] = hdRun[d]
  BY <1>1, <1>2
<1>4. hdRun' = [d \in HdCallers |-> hdRun'[d]]
  BY <1>1, <1>2
<1>5. HdFixed(c)' = {} /\ HdShaped(hdRun'[c])
  BY <1>3, HdNoRunShaped DEF HdFixed
<1> QED
  BY <1>1, <1>3, <1>4, <1>5, HdOneRun, HdSameWanted

LEMMA HdCheckNames ==
  \A k \in HdChecks : \/ k \in FileChecks
                      \/ k = "sysctl_hardening"
                      \/ k = "disable_unnecessary_services"
  BY DEF HdChecks, HdOrder, FileChecks, SshChecks

\* A check with its result: it spoils nothing, and what it says to have fixed
\* is as wanted.
LEMMA HdResultKeeps ==
  ASSUME HdInv, NEW c \in HdCallers, NEW result \in HdResults,
         HdResult(c, result), NEW k, k = HdCheck(c),
         \A j \in HdChecks \ hdLater : HdAsWanted(j) => HdAsWanted(j)',
         result = "fixed" => k \in hdLater \/ HdAsWanted(k)'
  PROVE  HdInv'
<1> DEFINE q == hdRun[c]
           pc == IF Tail(q.todo) = <<>> THEN "record" ELSE "check"
           r == [q EXCEPT !.result[k] = result, !.todo = Tail(@), !.pc = pc]
<1>1. hdRun = [d \in HdCallers |-> hdRun[d]] /\ HdShaped(q)
  BY DEF HdInv, HdRunsShaped
<1>2. hdRun' = [hdRun EXCEPT ![c] = r]
  BY <1>1 DEF HdResult
<1>3. UNCHANGED <<hdEarlier, hdLater, hdMeddled>>
  BY DEF HdResult, hdConfig
<1>4. /\ r = [pc |-> pc, todo |-> Tail(q.todo),
              result |-> [q.result EXCEPT ![k] = result], announce |-> q.announce]
      /\ q.result \in [HdChecks -> HdResults]
  <2>1. PICK p, t, res, a :
          q = [pc |-> p, todo |-> t, result |-> res, announce |-> a]
    BY <1>1 DEF HdShaped
  <2> DEFINE new == [q.result EXCEPT ![k] = result]
             left == Tail(q.todo)
             s1 == [q EXCEPT !.result = new]
             s2 == [s1 EXCEPT !.todo = left]
  <2>2. r = [s2 EXCEPT !.pc = pc]
    OBVIOUS
  <2>3. q.result = res /\ q.announce = a
    BY <2>1
  <2> HIDE DEF r, new, left, pc
  <2>4. s1 = [pc |-> p, todo |-> t, result |-> new, announce |-> a]
    BY <2>1
  <2> HIDE DEF s1
  <2>5. s2 = [pc |-> p, todo |-> left, result |-> new, announce |-> a]
    BY <2>4
  <2> HIDE DEF s2
  <2>6. r = [pc |-> pc, todo |-> left, result |-> new, announce |-> a]
    BY <2>2, <2>5
  <2> QED
    BY <1>1, <2>3, <2>6 DEF HdShaped, new, left
<1>5. /\ HdShaped(r) /\ r.pc \in {"check", "record"}
      /\ r.result = [q.result EXCEPT ![k] = result]
  BY <1>4 DEF HdShaped
<1> HIDE DEF r
<1>6. /\ hdRun'[c] = r /\ hdRun' = [d \in HdCallers |-> hdRun'[d]]
      /\ \A d \in HdCallers \ {c} : hdRun'[d] = hdRun[d]
  BY <1>1, <1>2
<1>7. ASSUME NEW j \in HdFixed(c)' \ hdLater, c \notin hdMeddled
      PROVE  HdAsWanted(j)'
  <2>1. j \in HdChecks /\ r.result[j] = "fixed"
    BY <1>6 DEF HdFixed
  <2>2. CASE j = k
    BY <1>4, <1>5, <1>7, <2>1, <2>2
  <2>3. CASE j # k
    <3>1. j \in HdFixed(c)
      BY <1>4, <1>5, <2>1, <2>3 DEF HdFixed
    <3> QED
      BY <1>7, <2>1, <3>1 DEF HdInv, HdFixedHolds
  <2> QED
    BY <2>2, <2>3
<1> QED
  BY <1>3, <1>5, <1>6, <1>7, HdOneRun

\* Writing a setting leaves the ones that are there.
LEMMA HdWriteKeeps ==
  ASSUME NEW k, hdManaged \union {k} = hdManaged',
         UNCHANGED <<hdMain, hdEarlier, hdLater>>,
         NEW j \in FileChecks, HdPasses(j)
  PROVE  HdPasses(j)'
<1>1. HdPasses(j) = HdEffective(j) /\ HdPasses(j)' = HdEffective(j)'
  BY DEF HdPasses, FileChecks, SshChecks
<1> QED
  BY <1>1 DEF HdEffective, HdEffectiveWith

LEMMA HdBeginKeeps ==
  ASSUME HdInv, NEW c \in HdCallers, HdBegin(c)
  PROVE  HdInv'
<1> DEFINE checks == HdEnabledChecks
           pc == IF checks = <<>> THEN "record" ELSE "check"
           q == hdRun[c]
           s1 == [q EXCEPT !.pc = pc]
           r == [s1 EXCEPT !.todo = checks]
<1>1. /\ hdRun' = [hdRun EXCEPT ![c] = r]
      /\ UNCHANGED <<hdEarlier, hdLater, hdMeddled, hdHost>>
  BY DEF HdBegin, HdInv, HdRunsShaped, hdConfig
<1>2. hdRun = [d \in HdCallers |-> hdRun[d]] /\ HdShaped(q)
  BY DEF HdInv, HdRunsShaped
<1>3. pc \in {"record", "check"} /\ q.pc \in {"idle", "due", "done"}
  BY DEF HdBegin, HdAt, Waiting
<1> HIDE DEF checks, pc
<1>4. s1 = [pc |-> pc, todo |-> q.todo, result |-> q.result,
            announce |-> q.announce]
  BY <1>2 DEF HdShaped
<1> HIDE DEF s1
<1>5. r = [pc |-> pc, todo |-> checks, result |-> q.result,
           announce |-> q.announce]
  BY <1>4
<1> HIDE DEF r
<1>6. HdShaped(r) /\ r.pc = pc /\ r.result = q.result
  BY <1>2, <1>5 DEF HdShaped
<1>7. /\ hdRun'[c] = r /\ hdRun' = [d \in HdCallers |-> hdRun'[d]]
      /\ \A d \in HdCallers \ {c} : hdRun'[d] = hdRun[d]
  BY <1>1, <1>2
<1>8. HdFixed(c) = {} /\ HdFixed(c)' = HdFixed(c)
  BY <1>3, <1>6, <1>7 DEF HdFixed, HdInv, HdNoneFixed
<1> QED
  BY <1>1, <1>6, <1>7, <1>8, HdOneRun, HdSameWanted

LEMMA HdOtherPasses ==
  ASSUME UNCHANGED <<hdSysctl, hdEnabled>>, NEW j \in HdChecks \ FileChecks,
         HdPasses(j)
  PROVE  HdPasses(j)'
<1>1. CASE j = "sysctl_hardening"
  BY <1>1 DEF HdPasses
<1>2. CASE j = "disable_unnecessary_services"
  BY <1>2 DEF HdPasses
<1> QED
  BY <1>1, <1>2, HdCheckNames

LEMMA HdFixSshKeeps ==
  ASSUME HdInv, NEW c \in HdCallers, HdFixSsh(c)
  PROVE  HdInv'
<1> PICK k : k = HdCheck(c)
  OBVIOUS
<1>1. k \in SshChecks /\ ~HdPasses(k)
  BY DEF HdFixSsh, HdToFix
<1>2. UNCHANGED <<hdMain, hdSysctl, hdEnabled, hdEarlier, hdLater>>
  BY DEF HdFixSsh, HdResult, hdConfig
<1>3. \A j \in FileChecks : /\ HdPasses(j) = HdEffective(j)
                            /\ HdPasses(j)' = HdEffective(j)'
  BY DEF HdPasses, FileChecks, SshChecks
<1>4. \A j \in HdChecks \ FileChecks : HdPasses(j) => HdPasses(j)'
  BY <1>2, HdOtherPasses
<1>5. SshChecks \subseteq FileChecks
  BY DEF FileChecks
<1>6. CASE /\ HdWritesFile(c)
           /\ hdInForce' = SshdLoads(hdManaged')
           /\ HdResult(c, "fixed")
  <2>1. hdManaged' = hdManaged \union {k}
    BY <1>6 DEF HdWritesFile
  <2>2. \A j \in FileChecks : HdEffective(j) => HdEffective(j)'
    BY <1>2, <2>1 DEF HdEffective, HdEffectiveWith
  <2>3. \A j \in SshChecks \ hdEarlier : HdEffective(j)' => j \in hdInForce'
    BY <1>2, <1>6 DEF HdEffective, HdEffectiveWith, SshdLoads
  <2>4. \A j \in HdChecks : HdAsWanted(j) => HdAsWanted(j)'
    BY <1>2, <1>3, <1>4, <1>5, <2>2, <2>3 DEF HdAsWanted
  <2>5. k \in hdLater \/ HdEffective(k)'
    BY <1>2, <2>1 DEF HdEffective, HdEffectiveWith
  <2>6. k \in hdLater \/ HdAsWanted(k)'
    BY <1>1, <1>2, <1>3, <1>5, <2>3, <2>5 DEF HdAsWanted
  <2> QED
    BY <1>6, <2>4, <2>6, HdResultKeeps DEF HdResults
<1>7. CASE /\ hdManaged' = hdManaged \/ HdWritesFile(c)
           /\ HdResult(c, "fail")
           /\ UNCHANGED hdInForce
  <2>1. hdManaged \subseteq hdManaged'
    BY <1>7 DEF HdWritesFile
  <2>2. \A j \in FileChecks : HdEffective(j) => HdEffective(j)'
    BY <1>2, <2>1 DEF HdEffective, HdEffectiveWith
  <2>3. \A j \in HdChecks : HdAsWanted(j) => HdAsWanted(j)'
    BY <1>2, <1>3, <1>4, <1>7, <2>2 DEF HdAsWanted
  <2> QED
    BY <1>7, <2>3, HdResultKeeps DEF HdResults
<1> QED
  BY <1>6, <1>7 DEF HdFixSsh

LEMMA HdFixPasswordKeeps ==
  ASSUME HdInv, NEW c \in HdCallers, HdFixPassword(c)
  PROVE  HdInv'
<1> PICK k : k = HdCheck(c)
  OBVIOUS
<1>1. k = "strong_password_policy" /\ k \in FileChecks /\ k \notin SshChecks
  BY DEF HdFixPassword, HdToFix, FileChecks, SshChecks
<1>2. UNCHANGED <<hdMain, hdInForce, hdSysctl, hdEnabled, hdEarlier, hdLater>>
  BY DEF HdFixPassword, HdResult, hdConfig
<1>3. \A j \in FileChecks : /\ HdPasses(j) = HdEffective(j)
                            /\ HdPasses(j)' = HdEffective(j)'
  BY DEF HdPasses, FileChecks, SshChecks
<1>4. \A j \in HdChecks \ FileChecks : HdPasses(j) => HdPasses(j)'
  BY <1>2, HdOtherPasses
<1>5. hdManaged \subseteq hdManaged'
  BY DEF HdFixPassword, HdWritesFile
<1>6. \A j \in FileChecks : HdEffective(j) => HdEffective(j)'
  BY <1>2, <1>5 DEF HdEffective, HdEffectiveWith
<1>7. \A j \in HdChecks : HdAsWanted(j) => HdAsWanted(j)'
  BY <1>2, <1>3, <1>4, <1>6 DEF HdAsWanted
<1>8. CASE HdWritesFile(c) /\ HdResult(c, "fixed")
  <2>1. k \in hdLater \/ HdEffective(k)'
    BY <1>2, <1>8 DEF HdEffective, HdEffectiveWith, HdWritesFile
  <2>2. k \in hdLater \/ HdAsWanted(k)'
    BY <1>1, <1>3, <2>1 DEF HdAsWanted
  <2> QED
    BY <1>7, <1>8, <2>2, HdResultKeeps DEF HdResults
<1>9. CASE HdResult(c, "fail")
  BY <1>7, <1>9, HdResultKeeps DEF HdResults
<1> QED
  BY <1>8, <1>9 DEF HdFixPassword

LEMMA HdStepKeeps ==
  ASSUME HdInv, NEW c \in HdCallers, HdBegin(c) \/ HdStep(c) \/ HdRaises(c)
  PROVE  HdInv'
<1> PICK k : k = HdCheck(c)
  OBVIOUS
<1>1. CASE HdBegin(c)
  BY <1>1, HdBeginKeeps
<1>2. CASE HdAudited(c)
  <2>1. UNCHANGED hdHost
    BY <1>2 DEF HdAudited
  <2>2. PICK result \in {"pass", "fail"} : HdResult(c, result)
    BY <1>2 DEF HdAudited
  <2>3. UNCHANGED <<hdEarlier, hdLater>>
    BY <2>2 DEF HdResult, hdConfig
  <2>4. \A j \in HdChecks : HdAsWanted(j) => HdAsWanted(j)'
    BY <2>1, <2>3, HdSameWanted
  <2> QED
    BY <2>2, <2>4, HdResultKeeps DEF HdResults
<1>3. CASE HdFixSsh(c)
  BY <1>3, HdFixSshKeeps
<1>4. CASE HdFixPassword(c)
  BY <1>4, HdFixPasswordKeeps
<1>5. CASE HdFixSysctl(c)
  <2>1. k = "sysctl_hardening" /\ ~hdSysctl /\ k \notin SshChecks
    BY <1>5 DEF HdFixSysctl, HdToFix, HdPasses, FileChecks, SshChecks
  <2>2. UNCHANGED <<hdMain, hdManaged, hdInForce, hdEnabled, hdEarlier, hdLater>>
    BY <1>5 DEF HdFixSysctl, HdResult, hdConfig, hdFiles
  <2>3. ASSUME NEW j \in HdChecks, HdPasses(j) PROVE HdPasses(j)'
    <3>1. CASE j \in FileChecks
      <4>1. HdPasses(j) = HdEffective(j) /\ HdPasses(j)' = HdEffective(j)'
        BY <3>1 DEF HdPasses, FileChecks, SshChecks
      <4> QED
        BY <2>2, <2>3, <4>1 DEF HdEffective, HdEffectiveWith
    <3>2. CASE j = "sysctl_hardening"
      BY <2>1, <2>3, <3>2 DEF HdPasses, FileChecks, SshChecks
    <3>3. CASE j = "disable_unnecessary_services"
      BY <2>2, <2>3, <3>3 DEF HdPasses, FileChecks, SshChecks
    <3> QED
      BY <3>1, <3>2, <3>3, HdCheckNames
  <2>4. \A j \in HdChecks : HdAsWanted(j) => HdAsWanted(j)'
    BY <2>2, <2>3 DEF HdAsWanted
  <2>5. CASE hdSysctl' = TRUE /\ HdResult(c, "fixed")
    <3>1. HdAsWanted(k)'
      BY <2>1, <2>5 DEF HdAsWanted, HdPasses, FileChecks, SshChecks
    <3> QED
      BY <2>4, <2>5, <3>1, HdResultKeeps DEF HdResults
  <2>6. CASE HdResult(c, "fail")
    BY <2>4, <2>6, HdResultKeeps DEF HdResults
  <2> QED
    BY <1>5, <2>5, <2>6 DEF HdFixSysctl
<1>6. CASE HdFixServices(c)
  <2>1. k = "disable_unnecessary_services" /\ hdEnabled # {} /\ k \notin SshChecks
    BY <1>6 DEF HdFixServices, HdToFix, HdPasses, FileChecks, SshChecks
  <2>2. UNCHANGED <<hdMain, hdManaged, hdInForce, hdSysctl, hdEarlier, hdLater>>
    BY <1>6 DEF HdFixServices, HdResult, hdConfig, hdFiles
  <2>3. ASSUME NEW j \in HdChecks, HdPasses(j) PROVE HdPasses(j)'
    <3>1. CASE j \in FileChecks
      <4>1. HdPasses(j) = HdEffective(j) /\ HdPasses(j)' = HdEffective(j)'
        BY <3>1 DEF HdPasses, FileChecks, SshChecks
      <4> QED
        BY <2>2, <2>3, <4>1 DEF HdEffective, HdEffectiveWith
    <3>2. CASE j = "sysctl_hardening"
      BY <2>2, <2>3, <3>2 DEF HdPasses, FileChecks, SshChecks
    <3>3. CASE j = "disable_unnecessary_services"
      BY <2>1, <2>3, <3>3 DEF HdPasses, FileChecks, SshChecks
    <3> QED
      BY <3>1, <3>2, <3>3, HdCheckNames
  <2>4. \A j \in HdChecks : HdAsWanted(j) => HdAsWanted(j)'
    BY <2>2, <2>3 DEF HdAsWanted
  <2>5. CASE hdEnabled' = {} /\ HdResult(c, "fixed")
    <3>1. HdAsWanted(k)'
      BY <2>1, <2>5 DEF HdAsWanted, HdPasses, FileChecks, SshChecks
    <3> QED
      BY <2>4, <2>5, <3>1, HdResultKeeps DEF HdResults
  <2>6. CASE HdResult(c, "fail")
    BY <2>4, <2>6, HdResultKeeps DEF HdResults
  <2> QED
    BY <1>6, <2>5, <2>6 DEF HdFixServices
<1>7. CASE HdRecorded(c) \/ HdPublished(c)
  <2>1. UNCHANGED <<hdHost, hdEarlier, hdLater>> /\ hdRun[c].pc \in {"record", "publish"}
    BY <1>7 DEF HdRecorded, HdPublished, HdAt, hdConfig
  <2>2. CASE HdEnd(c)
    BY <2>1, <2>2, HdRunEnds
  <2>3. ASSUME NEW p \in {"record", "publish"}, NEW a,
               hdRun' = [hdRun EXCEPT ![c].pc = p, ![c].announce = a],
               UNCHANGED hdMeddled
        PROVE  HdInv'
    <3> DEFINE q == hdRun[c]
               s1 == [q EXCEPT !.pc = p]
               r == [s1 EXCEPT !.announce = a]
    <3>1. hdRun = [d \in HdCallers |-> hdRun[d]] /\ HdShaped(q)
      BY DEF HdInv, HdRunsShaped
    <3>2. hdRun' = [hdRun EXCEPT ![c] = r]
      BY <2>3, <3>1
    <3>3. s1 = [pc |-> p, todo |-> q.todo, result |-> q.result,
                announce |-> q.announce]
      BY <3>1 DEF HdShaped
    <3> HIDE DEF s1
    <3>4. r = [pc |-> p, todo |-> q.todo, result |-> q.result, announce |-> a]
      BY <3>3
    <3> HIDE DEF r
    <3>5. HdShaped(r) /\ r.pc = p /\ r.result = q.result
      BY <3>1, <3>4 DEF HdShaped
    <3>6. /\ hdRun'[c] = r /\ hdRun' = [d \in HdCallers |-> hdRun'[d]]
          /\ \A d \in HdCallers \ {c} : hdRun'[d] = hdRun[d]
      BY <3>1, <3>2
    <3>7. HdFixed(c)' = HdFixed(c)
      BY <3>5, <3>6 DEF HdFixed
    <3>8. \A j \in HdChecks : HdAsWanted(j) => HdAsWanted(j)'
      BY <2>1, HdSameWanted
    <3>9. c \notin hdMeddled' => \A j \in HdFixed(c)' \ hdLater : HdAsWanted(j)'
      BY <2>3, <3>7, <3>8 DEF HdInv, HdFixedHolds, HdFixed
    <3> QED
      BY <2>1, <2>3, <3>5, <3>6, <3>8, <3>9, HdOneRun
  <2>4. HdRecorded(c) /\ ~HdEnd(c) =>
          /\ hdRun' = [hdRun EXCEPT ![c].pc = "publish", ![c].announce = HdFixed(c)]
          /\ UNCHANGED hdMeddled
    BY DEF HdRecorded
  <2>5. CASE HdPublished(c) /\ ~HdEnd(c)
    <3>1. PICK j : /\ hdRun' = [hdRun EXCEPT ![c].announce = @ \ {j}]
                   /\ UNCHANGED hdMeddled
      BY <2>5 DEF HdPublished
    <3> DEFINE a == hdRun[c].announce \ {j}
    <3>2. hdRun' = [hdRun EXCEPT ![c].pc = hdRun[c].pc, ![c].announce = a]
      BY <3>1 DEF HdInv, HdRunsShaped, HdShaped
    <3> QED
      BY <2>1, <2>3, <3>1, <3>2
  <2> QED
    BY <1>7, <2>2, <2>3, <2>4, <2>5
<1>8. CASE HdRaises(c)
  BY <1>8, HdRunEnds DEF HdRaises, hdConfig
<1> QED
  BY <1>1, <1>2, <1>3, <1>4, <1>5, <1>6, <1>7, <1>8 DEF HdStep

LEMMA HdInvStep == HdInv /\ HardeningNext => HdInv'
<1> SUFFICES ASSUME HdInv, HardeningNext PROVE HdInv'
  OBVIOUS
<1>1. CASE \E c \in HdCallers : HdBegin(c) \/ HdStep(c) \/ HdRaises(c)
  BY <1>1, HdStepKeeps
<1>2. CASE HdMeddle
  <2>1. UNCHANGED <<hdRun, hdEarlier, hdLater>> /\ hdMeddled' = HdBusy
    BY <1>2 DEF HdMeddle, hdConfig
  <2>2. \A c \in HdCallers : HdFixed(c)' = HdFixed(c)
    BY <2>1 DEF HdFixed
  <2>3. \A c \in HdCallers \ HdBusy : hdRun[c].pc \in {"idle", "due", "done"}
    BY DEF HdBusy, Waiting, Ended
  <2>4. \A c \in HdCallers \ hdMeddled' : HdFixed(c)' = {}
    BY <2>1, <2>2, <2>3 DEF HdInv, HdNoneFixed
  <2>5. (HdRunsShaped /\ HdNoneFixed)'
    BY <2>1, <2>2 DEF HdInv, HdRunsShaped, HdNoneFixed
  <2> QED
    BY <2>4, <2>5 DEF HdInv, HdFixedHolds
<1> QED
  BY <1>1, <1>2 DEF HardeningNext

-----------------------------------------------------------------------------
(* Scans and audits *)

\* The newest of some scans is one of them, and none is newer: CHOOSE finds a
\* maximum.
LEMMA NewestOf ==
  ASSUME NEW S \in SUBSET Numbers, S # {}
  PROVE  Newest(S) \in S /\ \A m \in S : m <= Newest(S)
<1> DEFINE bounds == {k \in Nat : \A m \in S : m <= k}
           less == OpToRel(<, Nat)
<1>0. S \subseteq Nat /\ \A m \in S : m > 0
  BY ScansAssumption DEF Numbers
<1>1. ScMaxRuns \in bounds
  BY ScansAssumption DEF Numbers
<1>2. PICK k \in bounds : \A j \in bounds : ~(<<j, k>> \in less)
  <2>1. IsWellFoundedOn(less, Nat)
    BY NatLessThanWellFounded, Zenon
  <2>2. bounds \subseteq Nat /\ bounds # {}
    BY <1>1
  <2> HIDE DEF bounds, less
  <2> QED
    BY <2>1, <2>2, WFMin
<1>3. \A j \in bounds : ~(j < k)
  BY <1>2 DEF OpToRel
<1> HIDE DEF less
<1>4. k \in S
  <2> SUFFICES ASSUME k \notin S PROVE FALSE
    OBVIOUS
  <2>1. PICK m \in S : TRUE
    OBVIOUS
  <2>2. k > 0
    BY <1>0, <2>1
  <2>3. k - 1 \in bounds
    BY <1>0, <2>2
  <2> QED
    BY <1>3, <2>3
<1>5. k \in S /\ \A m \in S : m <= k
  BY <1>4
<1> HIDE DEF bounds
<1> QED
  BY <1>5 DEF Newest

\* The 2FA audit: an audit is of one run, and stands where its rows say.
TfType ==
  /\ tfBegun \in 0 .. ScMaxRuns
  /\ tfRows \in [Numbers -> Rows] /\ tfStored \in [Numbers -> Rows]
  /\ tfRun \in [TfCallers -> TfRuns]
  /\ tfCut \subseteq Numbers

TfNumbered == {"insertAccounts", "commit", "record", "publish"}
TfInserting == {"insertAccounts", "commit"}

TfRunsApart ==
  /\ \A c \in TfCallers :
       /\ tfRun[c].pc \in TfNumbered => tfRun[c].at \in 1 .. tfBegun
       /\ tfRun[c].pc \notin TfNumbered => tfRun[c].at = 0
  /\ \A c, d \in TfCallers : c # d /\ tfRun[c].at # 0 => tfRun[c].at # tfRun[d].at

TfRowsWhole ==
  /\ \A c \in TfCallers : tfRun[c].pc \in {"commit", "record", "publish"} =>
       tfRows[tfRun[c].at] = "accounts"
  /\ \A n \in Numbers : tfRows[n] = "run" /\ n \notin tfCut =>
       \E c \in TfCallers : tfRun[c].at = n /\ tfRun[c].pc = "insertAccounts"

TfInv == TfType /\ TfRunsApart /\ TfRowsWhole /\ AuditsWhole

\* Run c becomes r, and the others stay.
TfBecomes(c, r) == tfRun' = [tfRun EXCEPT ![c] = r]

LEMMA TfNoRunType ==
  \A c : TfNoRun(Waiting(c)) \in TfRuns /\ TfNoRun(Ended(c)) \in TfRuns
  BY ScansAssumption DEF TfNoRun, TfRuns, TfSteps, Waiting, Ended

LEMMA TfInvInit == ScansInit => TfInv
<1> SUFFICES ASSUME ScansInit PROVE TfInv
  OBVIOUS
<1>1. \A c \in TfCallers :
        /\ tfRun[c] \in TfRuns /\ tfRun[c].at = 0
        /\ tfRun[c].pc \notin TfNumbered
  BY TfNoRunType DEF ScansInit, TfNoRun, Waiting, TfNumbered
<1>2. TfType
  BY <1>1, ScansAssumption DEF ScansInit, TfType, Rows
<1> QED
  BY <1>1, <1>2
  DEF ScansInit, TfInv, TfRunsApart, TfRowsWhole, AuditsWhole, TfNumbered

LEMMA TfInvSame == TfInv /\ UNCHANGED auditVars => TfInv'
  BY DEF auditVars, TfInv, TfType, TfRunsApart, TfRowsWhole, AuditsWhole

LEMMA TfOneRun ==
  ASSUME TfType, NEW c \in TfCallers, NEW r \in TfRuns, TfBecomes(c, r)
  PROVE  /\ tfRun' \in [TfCallers -> TfRuns]
         /\ tfRun'[c] = r
         /\ \A d \in TfCallers \ {c} : tfRun'[d] = tfRun[d]
  BY DEF TfType, TfBecomes

\* A run that ends leaves its rows; if it has not committed them, it is cut off.
LEMMA TfRunEnds ==
  ASSUME TfInv, NEW c \in TfCallers, TfBecomes(c, TfNoRun(Ended(c))),
         UNCHANGED <<tfBegun, tfRows>>,
         tfStored' \in {tfStored, tfRows},
         tfCut' = tfCut \union (IF tfRun[c].pc \in TfInserting
                                THEN {tfRun[c].at} ELSE {})
  PROVE  TfInv'
<1> DEFINE r == TfNoRun(Ended(c))
<1>1. r \in TfRuns /\ r.at = 0 /\ r.pc \notin TfNumbered
  BY TfNoRunType DEF TfNoRun, Ended, TfNumbered
<1> HIDE DEF r
<1>2. /\ tfRun' \in [TfCallers -> TfRuns]
      /\ tfRun'[c] = r
      /\ \A d \in TfCallers \ {c} : tfRun'[d] = tfRun[d]
  BY <1>1, TfOneRun DEF TfInv, r
<1>3. TfType'
  <2>1. tfRun[c].pc \in TfInserting => tfRun[c].at \in Numbers
    BY ScansAssumption
    DEF TfInv, TfType, TfRunsApart, TfInserting, TfNumbered, Numbers
  <2> QED
    BY <1>2, <2>1 DEF TfInv, TfType
<1>4. TfRunsApart'
  BY <1>1, <1>2 DEF TfInv, TfRunsApart
<1>5. TfRowsWhole'
  BY <1>1, <1>2 DEF TfInv, TfRowsWhole, TfInserting, TfNumbered
<1>6. AuditsWhole'
  BY <1>1, <1>2 DEF TfInv, AuditsWhole, TfRowsWhole, TfInserting, TfNumbered
<1> QED
  BY <1>3, <1>4, <1>5, <1>6 DEF TfInv

LEMMA TfStepKeeps ==
  ASSUME TfInv, NEW c \in TfCallers, TfBegin(c) \/ TfStep(c) \/ TfRaises(c)
  PROVE  TfInv'
<1> DEFINE r == tfRun[c]
<1>0. r \in TfRuns
  BY DEF TfInv, TfType
<1> USE DEF TfNumbered
<1>1. ASSUME NEW pc \in {"inspect", "insertRun"}, NEW s \in SUBSET TfStatuses,
             TfBecomes(c, [r EXCEPT !.statuses = s, !.pc = pc]),
             r.pc \notin TfNumbered,
             UNCHANGED <<tfBegun, tfRows, tfStored, tfCut>>
      PROVE  TfInv'
  <2> DEFINE q == [r EXCEPT !.statuses = s, !.pc = pc]
  <2>1. q \in TfRuns /\ q.at = r.at /\ q.pc = pc
    BY <1>0 DEF TfRuns, TfSteps
  <2> HIDE DEF q
  <2>2. /\ tfRun' \in [TfCallers -> TfRuns]
        /\ tfRun'[c] = q
        /\ \A d \in TfCallers \ {c} : tfRun'[d] = tfRun[d]
    BY <1>1, <2>1, TfOneRun DEF TfInv, q
  <2> QED
    BY <1>1, <2>1, <2>2
    DEF TfInv, TfType, TfRunsApart, TfRowsWhole, AuditsWhole
<1>2. CASE TfBegin(c)
  <2>1. TfBecomes(c, [r EXCEPT !.statuses = r.statuses, !.pc = "inspect"])
    BY <1>0, <1>2 DEF TfBegin, TfGoto, TfBecomes, TfRuns
  <2> QED
    BY <1>0, <1>1, <1>2, <2>1
    DEF TfBegin, TfAt, TfLeaves, Waiting, TfRuns
<1>3. CASE TfInspected(c)
  <2>1. PICK s \in SUBSET TfStatuses :
          tfRun' = [tfRun EXCEPT ![c].statuses = s, ![c].pc = "insertRun"]
    BY <1>3 DEF TfInspected
  <2>2. TfBecomes(c, [r EXCEPT !.statuses = s, !.pc = "insertRun"])
    BY <2>1 DEF TfBecomes, TfInv, TfType
  <2> QED
    BY <1>1, <1>3, <2>2 DEF TfInspected, TfAt, TfLeaves
<1>4. CASE TfRunInserted(c)
  <2> DEFINE n == tfBegun + 1
             q == [r EXCEPT !.at = n, !.pc = "insertAccounts"]
  <2>0. n \in Numbers /\ n # 0 /\ n \in 0 .. ScMaxRuns
    BY <1>4, ScansAssumption DEF TfRunInserted, TfInv, TfType, Numbers
  <2> HIDE DEF n
  <2>1. q \in TfRuns /\ q.at = n /\ q.pc = "insertAccounts"
    BY <1>0, <2>0 DEF TfRuns, TfSteps
  <2> USE DEF n
  <2>2. TfBecomes(c, q)
    BY <1>4 DEF TfRunInserted, TfBecomes, TfInv, TfType
  <2>3. \A d \in TfCallers : r.at = 0 /\ tfRun[d].at # n
    BY <1>4 DEF TfRunInserted, TfAt, TfInv, TfType, TfRunsApart
  <2>4. /\ tfBegun' = n /\ tfStored' = tfStored /\ tfCut' = tfCut
        /\ tfRows' = [tfRows EXCEPT ![n] = "run"]
    BY <1>4 DEF TfRunInserted
  <2> HIDE DEF q
  <2>5. /\ tfRun' \in [TfCallers -> TfRuns]
        /\ tfRun'[c] = q
        /\ \A d \in TfCallers \ {c} : tfRun'[d] = tfRun[d]
    BY <2>1, <2>2, TfOneRun DEF TfInv
  <2>6. TfType'
    BY <2>0, <2>4, <2>5, ScansAssumption DEF TfInv, TfType, Rows, Numbers
  <2>7. TfRunsApart'
    BY <2>0, <2>1, <2>3, <2>4, <2>5 DEF TfInv, TfType, TfRunsApart
  <2>8. TfRowsWhole'
    BY <2>0, <2>1, <2>3, <2>4, <2>5 DEF TfInv, TfType, TfRowsWhole, TfRunsApart
  <2>9. AuditsWhole'
    BY <1>4, <2>0, <2>1, <2>3, <2>4, <2>5
    DEF TfRunInserted, TfAt, TfInv, TfType, AuditsWhole
  <2> QED
    BY <2>6, <2>7, <2>8, <2>9 DEF TfInv
<1>5. CASE TfAccountsInserted(c)
  <2> DEFINE q == [r EXCEPT !.pc = "commit"]
  <2>0. r.pc = "insertAccounts" /\ r.at \in Numbers
    BY <1>5, ScansAssumption
    DEF TfAccountsInserted, TfAt, TfInv, TfType, TfRunsApart, Numbers
  <2>1. q \in TfRuns /\ q.at = r.at /\ q.pc = "commit"
    BY <1>0 DEF TfRuns, TfSteps
  <2>2. TfBecomes(c, q)
    BY <1>5 DEF TfAccountsInserted, TfGoto, TfBecomes
  <2>3. /\ UNCHANGED <<tfBegun, tfStored, tfCut>>
        /\ tfRows' = [tfRows EXCEPT ![r.at] = "accounts"]
    BY <1>5 DEF TfAccountsInserted, TfLeaves
  <2> HIDE DEF q
  <2>4. /\ tfRun' \in [TfCallers -> TfRuns]
        /\ tfRun'[c] = q
        /\ \A d \in TfCallers \ {c} : tfRun'[d] = tfRun[d]
    BY <2>1, <2>2, TfOneRun DEF TfInv
  <2>5. TfType' /\ TfRunsApart'
    BY <2>0, <2>1, <2>3, <2>4 DEF TfInv, TfType, TfRunsApart, Rows
  <2>6. \A d \in TfCallers : tfRun[d].pc \in TfNumbered => tfRun[d].at \in Numbers
    BY ScansAssumption DEF TfInv, TfType, TfRunsApart, Numbers
  <2>7. TfRowsWhole'
    BY <2>0, <2>1, <2>3, <2>4, <2>6 DEF TfInv, TfType, TfRowsWhole, TfRunsApart
  <2>8. AuditsWhole'
    BY <2>0, <2>1, <2>3, <2>4 DEF TfInv, AuditsWhole
  <2> QED
    BY <2>5, <2>7, <2>8 DEF TfInv
<1>6. ASSUME NEW pc \in {"record", "publish"}, r.pc \in {"commit", "record"},
             TfBecomes(c, [r EXCEPT !.pc = pc]), tfStored' = tfRows,
             UNCHANGED <<tfBegun, tfRows, tfCut>>
      PROVE  TfInv'
  <2> DEFINE q == [r EXCEPT !.pc = pc]
  <2>1. q \in TfRuns /\ q.at = r.at /\ q.pc = pc
    BY <1>0 DEF TfRuns, TfSteps
  <2> HIDE DEF q
  <2>2. /\ tfRun' \in [TfCallers -> TfRuns]
        /\ tfRun'[c] = q
        /\ \A d \in TfCallers \ {c} : tfRun'[d] = tfRun[d]
    BY <1>6, <2>1, TfOneRun DEF TfInv, q
  <2>3. TfType' /\ TfRunsApart' /\ TfRowsWhole'
    BY <1>6, <2>1, <2>2 DEF TfInv, TfType, TfRunsApart, TfRowsWhole
  <2>4. AuditsWhole'
    BY <1>6, <2>1, <2>2 DEF TfInv, AuditsWhole, TfRowsWhole
  <2> QED
    BY <2>3, <2>4 DEF TfInv
<1>7. CASE TfCommitted(c)
  BY <1>6, <1>7 DEF TfCommitted, TfAt, TfGoto, TfBecomes, TfLeaves
<1>8. CASE TfRecorded(c)
  <2>1. CASE "fail" \in r.statuses
    BY <1>6, <1>8, <2>1 DEF TfRecorded, TfAt, TfGoto, TfBecomes, TfLeaves
  <2>2. CASE "fail" \notin r.statuses
    BY <1>8, <2>2, TfRunEnds
    DEF TfRecorded, TfAt, TfEnd, TfBecomes, TfLeaves, TfInserting
  <2> QED
    BY <2>1, <2>2
<1>9. CASE TfPublished(c)
  BY <1>9, TfRunEnds
  DEF TfPublished, TfAt, TfEnd, TfBecomes, TfLeaves, TfInserting
<1>10. CASE TfRaises(c)
  <2>1. tfCut' = tfCut \union (IF r.pc \in TfInserting THEN {r.at} ELSE {})
    BY <1>10 DEF TfRaises, TfCuts, TfInserting
  <2> QED
    BY <1>10, <2>1, TfRunEnds DEF TfRaises, TfEnd, TfBecomes
<1> QED
  BY <1>2, <1>3, <1>4, <1>5, <1>7, <1>8, <1>9, <1>10 DEF TfStep

LEMMA TfInvStep == TfInv /\ ScansNext => TfInv'
<1> SUFFICES ASSUME TfInv, ScansNext PROVE TfInv'
  OBVIOUS
<1>1. CASE DbCommit
  BY <1>1 DEF DbCommit, TfInv, TfType, TfRunsApart, TfRowsWhole, AuditsWhole
<1>2. CASE \E c \in VsCallers : VsBegin(c) \/ VsStep(c) \/ VsRaises(c)
  BY <1>2, TfInvSame
  DEF VsBegin, VsStep, VsRaises, VsScanned, VsReadReport, VsQueried, VsInserted,
      VsRecorded, VsCompared, VsDropTold, VsLeaves, VsOthers
<1>3. CASE \E c \in StCallers : StStep(c)
  BY <1>3, TfInvSame DEF StStep, StOthers
<1> QED
  BY <1>1, <1>2, <1>3, TfStepKeeps DEF ScansNext

\* What was not committed is gone, and the audits it was of are cut off.
LEMMA TfInvForget == TfInv /\ ScForget => TfInv'
<1> SUFFICES ASSUME TfInv, ScForget PROVE TfInv'
  OBVIOUS
<1>1. \A c \in TfCallers :
        /\ tfRun'[c] \in TfRuns /\ tfRun'[c].at = 0
        /\ tfRun'[c].pc \notin TfNumbered
  BY TfNoRunType DEF ScForget, TfNoRun, Waiting, TfNumbered
<1>2. \A c \in TfCallers : tfRun[c].pc \in TfInserting =>
        tfRun[c].at \in tfCut' /\ tfRun[c].at \in Numbers
  BY ScansAssumption
  DEF ScForget, TfCuts, TfInserting, TfInv, TfType, TfRunsApart, TfNumbered,
      Numbers
<1>3. TfType'
  BY <1>1, <1>2 DEF ScForget, TfCuts, TfInserting, TfInv, TfType
<1>4. TfRunsApart'
  BY <1>1 DEF TfRunsApart
<1>5. \A n \in Numbers : tfStored[n] = "run" => n \in tfCut'
  BY <1>2 DEF TfInv, AuditsWhole, TfInserting, ScForget, TfCuts
<1> QED
  BY <1>1, <1>3, <1>4, <1>5
  DEF TfInv, TfRowsWhole, AuditsWhole, ScForget, TfNumbered

\* The vulnerability scan: each run has a number of its own, and a row once it
\* has inserted it.
VsActive ==
  {"lynis", "read", "query", "insert", "record", "publish", "drop"}
VsAfterQuery == {"insert", "record", "publish", "drop"}
VsAfterInsert == {"record", "publish", "drop"}
VsIdle == {"idle", "due", "done"}

VsType ==
  /\ vsFile \in VsScores \union {NoScore}
  /\ vsBegun \in 0 .. ScMaxRuns
  /\ \A n \in DOMAIN vsStored : vsStored[n] \in VsScores \union {NoScore}
  /\ vsRun \in [VsCallers -> VsRuns]
  /\ vsBefore \in [Numbers -> SUBSET Numbers]
  /\ vsCut \subseteq Numbers

VsNumbered ==
  /\ DOMAIN vsStored \subseteq 1 .. vsBegun /\ vsTold \subseteq 1 .. vsBegun
  /\ \A n \in 1 .. vsBegun : vsBefore[n] \subseteq {m \in DOMAIN vsStored : m < n}
  /\ \A c \in VsCallers :
       /\ vsRun[c].at \in (0 .. vsBegun) \ vsTold
       /\ vsRun[c].pc \in VsActive => vsRun[c].at # 0
       /\ vsRun[c].pc \in VsIdle => vsRun[c].at = 0
  /\ \A c, d \in VsCallers : c # d /\ vsRun[c].at # 0 => vsRun[c].at # vsRun[d].at

\* What a run knows is what is stored, and it compares with a scan before it.
VsKnows(r) ==
  /\ r.pc \in VsAfterInsert =>
       r.at \in DOMAIN vsStored /\ vsStored[r.at] = r.score
  /\ r.pc \notin VsAfterInsert => r.at \notin DOMAIN vsStored
  /\ r.pc \in VsAfterQuery =>
       IF r.previous = NoScan THEN vsBefore[r.at] = {}
       ELSE r.previous \in Comparable(r.at)
  /\ r.pc = "drop" =>
       r.previous # NoScan /\ IsDrop(vsStored[r.previous], r.score)

VsInv ==
  VsType /\ VsNumbered /\ (\A c \in VsCallers : VsKnows(vsRun[c])) /\ DropsTold

VsBecomes(c, r) == vsRun' = [vsRun EXCEPT ![c] = r]

\* A run that goes to a step is the one it was but for its pc.
LEMMA VsGoesTo ==
  ASSUME NEW c, NEW q \in VsRuns, NEW step \in VsSteps, VsGoto(c, q, step)
  PROVE  \E p \in VsRuns : VsBecomes(c, p) /\ p.at = q.at /\ p.pc = step
<1> DEFINE p == [q EXCEPT !.pc = step]
<1>1. p \in VsRuns /\ p.at = q.at /\ p.pc = step
  BY DEF VsRuns
<1> QED
  BY <1>1 DEF VsGoto, VsBecomes

LEMMA VsScoredType ==
  ASSUME NEW c, vsRun[c] \in VsRuns, NEW score \in VsScores \union {NoScore}
  PROVE  VsScored(c, score) \in VsRuns /\ VsScored(c, score).at = vsRun[c].at
  BY DEF VsScored, VsRuns

LEMMA VsNoRunIs ==
  \A c : \A r \in {VsNoRun(Waiting(c)), VsNoRun(Ended(c))} :
    /\ r \in VsRuns /\ r.at = 0 /\ r.pc \in VsIdle
    /\ r.pc \notin VsActive /\ r.pc \notin VsAfterInsert
    /\ r.pc \notin VsAfterQuery /\ r.pc # "drop"
  BY ScansAssumption
  DEF VsNoRun, VsRuns, VsSteps, Waiting, Ended, VsIdle, VsActive,
      VsAfterInsert, VsAfterQuery, NoScan

LEMMA VsOneRun ==
  ASSUME VsType, NEW c \in VsCallers, NEW r \in VsRuns, VsBecomes(c, r)
  PROVE  /\ vsRun' \in [VsCallers -> VsRuns]
         /\ vsRun'[c] = r
         /\ \A d \in VsCallers \ {c} : vsRun'[d] = vsRun[d]
  BY DEF VsType, VsBecomes

LEMMA VsInvInit == ScansInit => VsInv
<1> SUFFICES ASSUME ScansInit PROVE VsInv
  OBVIOUS
<1>1. \A c \in VsCallers :
        /\ vsRun[c] \in VsRuns /\ vsRun[c].at = 0 /\ vsRun[c].pc \in VsIdle
        /\ vsRun[c].pc \notin VsActive /\ vsRun[c].pc \notin VsAfterInsert
        /\ vsRun[c].pc \notin VsAfterQuery /\ vsRun[c].pc # "drop"
  BY VsNoRunIs DEF ScansInit
<1>2. vsStored = [n \in {} |-> NoScore] /\ DOMAIN vsStored = {}
  BY DEF ScansInit
<1>3. VsType
  BY <1>1, <1>2, ScansAssumption DEF ScansInit, VsType
<1>4. VsNumbered /\ \A c \in VsCallers : VsKnows(vsRun[c])
  BY <1>1, <1>2 DEF ScansInit, VsNumbered, VsKnows
<1> QED
  BY <1>2, <1>3, <1>4 DEF VsInv, DropsTold, VsEnded

LEMMA VsInvSame == VsInv /\ UNCHANGED scanVars => VsInv'
  BY DEF scanVars, VsInv, VsType, VsNumbered, VsKnows, Comparable, DropsTold, VsEnded,
         ToldRightly, DropsFrom

LEMMA VsComparableStored == \A n : Comparable(n) \subseteq DOMAIN vsStored
  BY DEF Comparable

\* Scans that ended before this step are as told as they were: rows do not
\* change, and a scan stored later is only one more they may be compared with.
LEMMA VsToldStays ==
  ASSUME VsInv, NEW n \in Numbers, VsEnded(n),
         DOMAIN vsStored \subseteq DOMAIN vsStored',
         \A m \in DOMAIN vsStored : vsStored'[m] = vsStored[m],
         vsBefore'[n] = vsBefore[n], n \in vsTold' <=> n \in vsTold
  PROVE  ToldRightly(n)'
<1>1. n \in DOMAIN vsStored
  BY DEF VsEnded
<1>2. Comparable(n) \subseteq Comparable(n)' /\ Comparable(n) \subseteq DOMAIN vsStored
  BY DEF Comparable
<1>3. \A m \in Comparable(n) : DropsFrom(m, n)' <=> DropsFrom(m, n)
  BY <1>1, <1>2 DEF DropsFrom
<1>4. ToldRightly(n)
  BY DEF VsInv, DropsTold
<1> QED
  BY <1>2, <1>3, <1>4 DEF ToldRightly

\* A run goes on with its scan, or skips one, and stores and tells nothing.
LEMMA VsRunGoesOn ==
  ASSUME VsInv, NEW c \in VsCallers, NEW r \in VsRuns, VsBecomes(c, r),
         r.at = vsRun[c].at, VsKnows(r),
         r.pc \in VsActive => r.at # 0, r.pc \notin VsIdle,
         vsFile' \in VsScores \union {NoScore},
         UNCHANGED <<vsBegun, vsStored, vsBefore, vsTold, vsCut>>
  PROVE  VsInv'
<1> USE DEF VsInv
<1>1. /\ vsRun' \in [VsCallers -> VsRuns]
      /\ vsRun'[c] = r
      /\ \A d \in VsCallers \ {c} : vsRun'[d] = vsRun[d]
  BY VsOneRun
<1>2. VsType'
  BY <1>1 DEF VsType
<1>3. VsNumbered'
  BY <1>1 DEF VsNumbered
<1>5. \A d \in VsCallers : VsKnows(vsRun[d])'
  <2> SUFFICES ASSUME NEW d \in VsCallers PROVE VsKnows(vsRun[d])'
    OBVIOUS
  <2>1. CASE d = c
    BY <1>1, <2>1 DEF VsKnows, Comparable
  <2>2. CASE d # c
    BY <1>1, <2>2 DEF VsKnows, Comparable
  <2> QED
    BY <2>1, <2>2
<1>6. DropsTold'
  BY <1>1 DEF DropsTold, VsEnded, ToldRightly, Comparable, DropsFrom
<1> QED
  BY <1>2, <1>3, <1>5, <1>6

\* A run that ends has told what it should, or has been cut off.
LEMMA VsRunEnds ==
  ASSUME VsInv, NEW c \in VsCallers, VsBecomes(c, VsNoRun(Ended(c))),
         NEW n, n = vsRun[c].at,
         vsTold' \in {vsTold, vsTold \union ({vsRun[c].at} \ {0})},
         vsCut' \in {vsCut, vsCut \union ({vsRun[c].at} \ {0})},
         \/ vsRun[c].at \notin DOMAIN vsStored
         \/ vsRun[c].at \in vsCut'
         \/ ToldRightly(n)',
         UNCHANGED <<vsFile, vsBegun, vsStored, vsBefore>>
  PROVE  VsInv'
<1> USE DEF VsInv
<1> DEFINE r == VsNoRun(Ended(c))
<1>0. /\ r \in VsRuns /\ r.at = 0 /\ r.pc \in VsIdle
      /\ r.pc \notin VsActive /\ r.pc \notin VsAfterInsert
      /\ r.pc \notin VsAfterQuery /\ r.pc # "drop"
  BY VsNoRunIs
<1>1. /\ vsRun' \in [VsCallers -> VsRuns]
      /\ vsRun'[c] = r
      /\ \A d \in VsCallers \ {c} : vsRun'[d] = vsRun[d]
  BY <1>0, VsOneRun
<1> HIDE DEF r
<1>2. vsRun[c].at \in (0 .. vsBegun) \ vsTold /\ 1 .. vsBegun \subseteq Numbers
  BY ScansAssumption DEF VsNumbered, VsType, Numbers
<1>3. VsType'
  BY <1>1, <1>2 DEF VsType
<1>4. VsNumbered'
  BY <1>0, <1>1, <1>2 DEF VsNumbered, VsType
<1>6. VsKnows(r)
  BY <1>0 DEF VsKnows, VsNumbered
<1>7. \A d \in VsCallers : VsKnows(vsRun[d])'
  <2> SUFFICES ASSUME NEW d \in VsCallers PROVE VsKnows(vsRun[d])'
    OBVIOUS
  <2>1. CASE d = c
    BY <1>1, <1>6, <2>1 DEF VsKnows, Comparable
  <2>2. CASE d # c
    BY <1>1, <2>2 DEF VsKnows, Comparable
  <2> QED
    BY <2>1, <2>2
<1>8. DropsTold'
  <2> SUFFICES ASSUME NEW m \in Numbers, VsEnded(m)' PROVE ToldRightly(m)'
    BY DEF DropsTold
  <2>1. CASE m = n
    BY <2>1 DEF VsEnded
  <2>2. CASE m # n
    <3>1. VsEnded(m)
      BY <1>1, <2>2 DEF VsEnded
    <3> QED
      BY <2>2, <3>1, VsToldStays
  <2> QED
    BY <2>1, <2>2
<1> QED
  BY <1>3, <1>4, <1>7, <1>8

\* A scan that begins has a number no other has had.
LEMMA VsBeginKeeps ==
  ASSUME VsInv, NEW c \in VsCallers, VsBegin(c), vsInstalled
  PROVE  VsInv'
<1> USE DEF VsInv
<1> DEFINE n == vsBegun + 1
           r == [[VsNoRun("lynis") EXCEPT !.at = n] EXCEPT !.pc = "lynis"]
<1>0. n \in Numbers /\ n \in 0 .. ScMaxRuns /\ n # 0 /\ n \notin 1 .. vsBegun
  BY ScansAssumption DEF VsBegin, VsType, Numbers
<1>1. /\ vsBegun' = n /\ VsBecomes(c, r)
      /\ vsBefore' = [vsBefore EXCEPT ![n] = DOMAIN vsStored]
      /\ UNCHANGED <<vsFile, vsStored, vsTold, vsCut>>
  <2>1. VsGoto(c, [VsNoRun("lynis") EXCEPT !.at = n], "lynis")
    BY DEF VsBegin
  <2>2. VsBecomes(c, r)
    BY <2>1 DEF VsGoto, VsBecomes, VsNoRun
  <2> QED
    BY <2>2 DEF VsBegin
<1>2. r \in VsRuns /\ r.at = n /\ r.pc = "lynis"
  <2> DEFINE p == VsNoRun("lynis")
             q == [p EXCEPT !.at = n]
  <2>1. p \in VsRuns
    BY ScansAssumption DEF VsNoRun, VsRuns, VsSteps, NoScan
  <2> HIDE DEF p, n
  <2>2. q \in VsRuns /\ q.at = n
    BY <1>0, <2>1 DEF VsRuns
  <2> HIDE DEF q
  <2>3. [q EXCEPT !.pc = "lynis"] \in VsRuns /\ [q EXCEPT !.pc = "lynis"].at = n
    BY <2>2 DEF VsRuns, VsSteps
  <2> QED
    BY <2>2, <2>3 DEF q, p, VsRuns
<1> HIDE DEF r
<1>3. /\ vsRun' \in [VsCallers -> VsRuns]
      /\ vsRun'[c] = r
      /\ \A d \in VsCallers \ {c} : vsRun'[d] = vsRun[d]
  BY <1>1, <1>2, VsOneRun
<1>4. VsType'
  <2>1. DOMAIN vsStored \in SUBSET Numbers
    BY ScansAssumption DEF VsNumbered, VsType, Numbers
  <2> QED
    BY <1>0, <1>1, <1>3, <2>1 DEF VsType
<1>5. VsNumbered'
  <2>1. \A m \in 1 .. n : m = n \/ m \in 1 .. vsBegun
    BY DEF VsType
  <2>2. \A m \in 1 .. vsBegun : vsBefore'[m] = vsBefore[m]
    BY <1>0, <1>1, ScansAssumption DEF VsType, Numbers
  <2>3. vsBefore'[n] = DOMAIN vsStored
    BY <1>0, <1>1 DEF VsType
  <2>4. 1 .. vsBegun \subseteq 1 .. n /\ 0 .. vsBegun \subseteq 0 .. n /\ n \in 0 .. n
    BY DEF VsType
  <2>5. n \notin vsTold /\ \A d \in VsCallers : vsRun[d].at # n
    BY DEF VsNumbered, VsType
  <2> QED
    BY <1>0, <1>1, <1>2, <1>3, <2>1, <2>2, <2>3, <2>4, <2>5
    DEF VsNumbered, VsActive, VsIdle
<1>6. \A d \in VsCallers : VsKnows(vsRun[d])'
  <2> SUFFICES ASSUME NEW d \in VsCallers PROVE VsKnows(vsRun[d])'
    OBVIOUS
  <2>1. CASE d = c
    <3>1. n \notin DOMAIN vsStored
      BY <1>0 DEF VsNumbered
    <3> QED
      BY <1>1, <1>2, <1>3, <2>1, <3>1
      DEF VsKnows, VsAfterInsert, VsAfterQuery
  <2>2. CASE d # c
    <3>1. vsRun[d].pc \in VsAfterQuery =>
            vsRun[d].at \in Numbers /\ vsRun[d].at # n
      BY ScansAssumption
      DEF VsNumbered, VsType, VsAfterQuery, VsActive, Numbers
    <3>2. vsRun[d].pc \in VsAfterQuery => vsBefore'[vsRun[d].at] = vsBefore[vsRun[d].at]
      BY <1>1, <3>1 DEF VsType
    <3> QED
      BY <1>1, <1>3, <2>2, <3>2 DEF VsKnows, Comparable
  <2> QED
    BY <2>1, <2>2
<1>7. DropsTold'
  <2> SUFFICES ASSUME NEW m \in Numbers, VsEnded(m)' PROVE ToldRightly(m)'
    BY DEF DropsTold
  <2>1. m # n
    BY <1>0, <1>1 DEF VsEnded, VsNumbered
  <2>2. vsRun[c].at = 0 /\ m # 0
    BY ScansAssumption
    DEF VsBegin, VsAt, Waiting, VsNumbered, VsIdle, Numbers
  <2>3. VsEnded(m)
    BY <1>1, <1>3, <2>2 DEF VsEnded
  <2>4. vsBefore'[m] = vsBefore[m]
    BY <1>1, <2>1 DEF VsType
  <2> QED
    BY <1>1, <2>3, <2>4, VsToldStays
<1> QED
  BY <1>4, <1>5, <1>6, <1>7

\* The row of a scan is new, and other rows stay.
LEMMA VsInsertKeeps ==
  ASSUME VsInv, NEW c \in VsCallers, VsInserted(c)
  PROVE  VsInv'
<1> USE DEF VsInv
<1> DEFINE n == vsRun[c].at
           r == [vsRun[c] EXCEPT !.pc = "record"]
<1>0. vsRun[c] \in VsRuns /\ vsRun[c].pc = "insert" /\ n \in 1 .. vsBegun
  BY DEF VsInserted, VsAt, VsType, VsNumbered, VsActive
<1>1. /\ DOMAIN vsStored' = DOMAIN vsStored \union {n}
      /\ vsStored'[n] = vsRun[c].score
      /\ \A m \in DOMAIN vsStored \ {n} : vsStored'[m] = vsStored[m]
  BY DEF VsInserted
<1>2. VsBecomes(c, r) /\ UNCHANGED <<vsFile, vsBegun, vsBefore, vsTold, vsCut>>
  BY DEF VsInserted, VsGoto, VsBecomes, VsLeaves
<1>3. r \in VsRuns /\ r.at = n /\ r.pc = "record" /\ r.score = vsRun[c].score
         /\ r.previous = vsRun[c].previous
  BY <1>0 DEF VsRuns, VsSteps
<1>4. n \notin DOMAIN vsStored
  BY <1>0 DEF VsKnows, VsAfterInsert
<1> HIDE DEF r, n
<1>5. /\ vsRun' \in [VsCallers -> VsRuns]
      /\ vsRun'[c] = r
      /\ \A d \in VsCallers \ {c} : vsRun'[d] = vsRun[d]
  BY <1>2, <1>3, VsOneRun
<1>6. VsType'
  <2>1. vsRun[c].score \in VsScores \union {NoScore}
    BY <1>0 DEF VsRuns
  <2> QED
    BY <1>1, <1>2, <1>5, <2>1 DEF VsType
<1>7. VsNumbered'
  BY <1>0, <1>1, <1>2, <1>3, <1>5 DEF VsNumbered, VsActive, VsIdle, n
<1>8. \A m : Comparable(m) \subseteq Comparable(m)'
  BY <1>1, <1>2 DEF Comparable
<1>9. \A d \in VsCallers : VsKnows(vsRun[d])'
  <2> SUFFICES ASSUME NEW d \in VsCallers PROVE VsKnows(vsRun[d])'
    OBVIOUS
  <2>1. vsRun[d].pc \in VsAfterQuery => vsRun[d].at \in 1 .. vsBegun
    BY DEF VsNumbered, VsAfterQuery, VsActive
  <2>3. CASE d = c
    <3>1. n \in 1 .. vsBegun /\ vsRun[c].pc \in VsAfterQuery
      BY <1>0 DEF VsAfterQuery
    <3> QED
      BY <1>1, <1>2, <1>3, <1>5, <1>8, <2>3, <3>1
      DEF VsKnows, VsAfterInsert, VsAfterQuery, n
  <2>4. CASE d # c
    <3>1. vsRun[d].at # n
      BY <1>0, <2>4 DEF VsNumbered, n
    <3>2. VsKnows(vsRun[d]) /\ vsRun'[d] = vsRun[d]
      BY <1>5, <2>4
    <3> QED
      BY <1>1, <1>2, <1>4, <1>8, <3>1, <3>2, VsComparableStored
      DEF VsKnows, VsAfterQuery
  <2> QED
    BY <2>3, <2>4
<1>10. DropsTold'
  <2> SUFFICES ASSUME NEW m \in Numbers, VsEnded(m)' PROVE ToldRightly(m)'
    BY DEF DropsTold
  <2>1. m # n
    BY <1>3, <1>5 DEF VsEnded
  <2>2. VsEnded(m)
    BY <1>1, <1>2, <1>5, <2>1 DEF VsEnded, n
  <2> QED
    BY <1>1, <1>2, <1>4, <2>2, VsToldStays
<1> QED
  BY <1>6, <1>7, <1>9, <1>10

LEMMA VsStepKeeps ==
  ASSUME VsInv, NEW c \in VsCallers, VsBegin(c) \/ VsStep(c) \/ VsRaises(c)
  PROVE  VsInv'
<1> USE DEF VsInv
<1> DEFINE r == vsRun[c]
<1>0. r \in VsRuns /\ VsKnows(r)
  BY DEF VsType
<1>1. /\ r.pc \in VsActive => r.at \in 1 .. vsBegun
      /\ r.pc \in VsIdle => r.at = 0
  BY DEF VsNumbered
<1> PICK n : n = r.at
  OBVIOUS
<1> USE DEF VsLeaves
<1>2. CASE VsBegin(c) /\ ~vsInstalled
  <2> DEFINE q == [r EXCEPT !.pc = "recordOther"]
  <2>1. q \in VsRuns /\ q.at = r.at /\ q.pc = "recordOther"
    BY <1>0 DEF VsRuns, VsSteps
  <2>2. VsBecomes(c, q) /\ r.pc \in VsIdle
    BY <1>2 DEF VsBegin, VsGoto, VsBecomes, VsAt, Waiting, VsIdle
  <2>3. VsKnows(q)
    BY <1>0, <2>1, <2>2 DEF VsKnows, VsIdle, VsAfterInsert, VsAfterQuery
  <2> HIDE DEF q
  <2> QED
    BY <1>2, <2>1, <2>2, <2>3, VsRunGoesOn
    DEF VsBegin, VsActive, VsIdle, VsType
<1>3. CASE VsScanned(c)
  <2>1. PICK q \in VsRuns :
          /\ VsBecomes(c, q) /\ q.at = r.at /\ q.pc \in {"read", "recordOther"}
    <3>1. CASE VsGoto(c, r, "recordOther")
      BY <1>0, <3>1, VsGoesTo DEF VsSteps
    <3>2. ASSUME NEW printed \in VsScores \union {NoScore},
                 VsGoto(c, VsScored(c, printed), "read")
          PROVE  \E q \in VsRuns :
                   /\ VsBecomes(c, q) /\ q.at = r.at
                   /\ q.pc \in {"read", "recordOther"}
      BY <1>0, <3>2, VsGoesTo, VsScoredType DEF VsSteps
    <3> QED
      BY <1>3, <3>1, <3>2 DEF VsScanned
  <2>2. r.pc = "lynis"
    BY <1>3 DEF VsScanned, VsAt
  <2>3. VsKnows(q)
    BY <1>0, <2>1, <2>2 DEF VsKnows, VsAfterInsert, VsAfterQuery
  <2> QED
    BY <1>1, <1>3, <2>1, <2>2, <2>3, VsRunGoesOn
    DEF VsScanned, VsActive, VsIdle, VsType
<1>4. CASE VsReadReport(c)
  <2>1. PICK q \in VsRuns :
          /\ VsBecomes(c, q) /\ q.at = r.at /\ q.pc \in {"query", "recordOther"}
    <3>1. CASE VsGoto(c, VsScored(c, vsFile), "query")
      BY <1>0, <3>1, VsGoesTo, VsScoredType DEF VsSteps, VsType
    <3>2. CASE VsGoto(c, r, "query") \/ VsGoto(c, r, "recordOther")
      BY <1>0, <3>2, VsGoesTo DEF VsSteps
    <3> QED
      BY <1>4, <3>1, <3>2 DEF VsReadReport
  <2>2. r.pc = "read"
    BY <1>4 DEF VsReadReport, VsAt
  <2>3. VsKnows(q)
    BY <1>0, <2>1, <2>2 DEF VsKnows, VsAfterInsert, VsAfterQuery
  <2> QED
    BY <1>1, <1>4, <2>1, <2>2, <2>3, VsRunGoesOn
    DEF VsReadReport, VsActive, VsIdle, VsType
<1>5. CASE VsQueried(c)
  <2> DEFINE older == {k \in DOMAIN vsStored : k < r.at}
             before == Newest(older)
             p == [r EXCEPT !.previous = before]
             q == [p EXCEPT !.pc = "insert"]
  <2>1. /\ before \in 0 .. ScMaxRuns
        /\ IF before = NoScan THEN vsBefore[r.at] = {}
           ELSE before \in Comparable(r.at)
    <3>1. older \in SUBSET Numbers /\ Numbers \subseteq 0 .. ScMaxRuns
      BY ScansAssumption DEF VsNumbered, VsType, Numbers
    <3>2. vsBefore[r.at] \subseteq older
      BY <1>1, <1>5 DEF VsQueried, VsAt, VsActive, VsNumbered
    <3>3. CASE older = {}
      BY <3>2, <3>3, ScansAssumption DEF Newest, NoScan
    <3>4. CASE older # {}
      <4>1. before \in older /\ \A m \in older : m <= before
        <5> HIDE DEF older
        <5> QED
          BY <3>1, <3>4, NewestOf
      <4>2. before \in Comparable(r.at)
        BY <3>2, <4>1 DEF Comparable
      <4>3. before # NoScan /\ before \in 0 .. ScMaxRuns
        BY <3>1, <4>1 DEF Numbers, NoScan
      <4> QED
        BY <4>2, <4>3
    <3> QED
      BY <3>3, <3>4
  <2>2. VsBecomes(c, q) /\ r.pc = "query"
    BY <1>5 DEF VsQueried, VsGoto, VsBecomes, VsAt, LatestScanBefore
  <2> HIDE DEF before
  <2>3. p \in VsRuns /\ p.at = r.at /\ p.previous = before
    BY <1>0, <2>1 DEF VsRuns
  <2> HIDE DEF p
  <2>4. q \in VsRuns /\ q.at = r.at /\ q.previous = before /\ q.pc = "insert"
    BY <2>3 DEF VsRuns, VsSteps
  <2> HIDE DEF q
  <2>5. VsKnows(q)
    BY <1>0, <2>1, <2>2, <2>4 DEF VsKnows, VsAfterInsert, VsAfterQuery
  <2> QED
    BY <1>1, <1>5, <2>2, <2>4, <2>5, VsRunGoesOn
    DEF VsQueried, VsActive, VsIdle, VsType
<1>6. ASSUME NEW pc \in {"publish", "drop"}, VsGoto(c, r, pc),
             r.pc \in {"record", "publish"},
             pc = "drop" =>
               r.previous # NoScan /\ IsDrop(vsStored[r.previous], r.score),
             UNCHANGED <<vsFile, vsBegun, vsStored, vsBefore, vsTold, vsCut>>
      PROVE  VsInv'
  <2> DEFINE q == [r EXCEPT !.pc = pc]
  <2>1. /\ q \in VsRuns /\ q.at = r.at /\ q.pc = pc
        /\ q.score = r.score /\ q.previous = r.previous
    BY <1>0 DEF VsRuns, VsSteps
  <2>2. VsBecomes(c, q)
    BY <1>6 DEF VsGoto, VsBecomes
  <2> HIDE DEF q
  <2>3. VsKnows(q)
    BY <1>0, <1>6, <2>1 DEF VsKnows, VsAfterInsert, VsAfterQuery
  <2> QED
    BY <1>1, <1>6, <2>1, <2>2, <2>3, VsRunGoesOn DEF VsActive, VsIdle, VsType
<1>7. CASE VsRecorded(c)
  <2>1. CASE r.pc = "record"
    BY <1>6, <1>7, <2>1 DEF VsRecorded, VsAt
  <2>2. CASE r.pc # "record"
    <3>1. r.pc = "recordOther" /\ VsEnd(c)
      BY <1>7, <2>2 DEF VsRecorded, VsAt
    <3>2. r.at \notin DOMAIN vsStored
      BY <1>0, <3>1 DEF VsKnows, VsAfterInsert
    <3> QED
      BY <1>7, <3>1, <3>2, VsRunEnds DEF VsRecorded, VsEnd, VsBecomes
  <2> QED
    BY <2>1, <2>2
<1>8. r.pc \in {"publish", "drop"} =>
        /\ vsStored[r.at] = r.score /\ r.at \notin vsTold
        /\ IF r.previous = NoScan THEN vsBefore[r.at] = {}
           ELSE r.previous \in Comparable(r.at)
  BY <1>0 DEF VsKnows, VsAfterInsert, VsAfterQuery, VsNumbered
<1>9. CASE VsCompared(c)
  <2> DEFINE drops == r.previous # NoScan /\ IsDrop(vsStored[r.previous], r.score)
  <2>1. CASE drops
    BY <1>6, <1>9, <2>1 DEF VsCompared, VsAt
  <2>2. CASE ~drops
    <3>1. ToldRightly(n)'
      BY <1>8, <1>9, <2>2
      DEF VsCompared, VsAt, ToldRightly, Comparable, DropsFrom
    <3> QED
      BY <1>9, <2>2, <3>1, VsRunEnds DEF VsCompared, VsAt, VsEnd, VsBecomes
  <2> QED
    BY <2>1, <2>2
<1>10. CASE VsDropTold(c)
  <2>1. r.pc = "drop" /\ r.at # 0
    BY <1>1, <1>10 DEF VsDropTold, VsAt, VsActive
  <2>2. r.previous # NoScan /\ IsDrop(vsStored[r.previous], r.score)
    BY <1>0, <2>1 DEF VsKnows
  <2>3. ToldRightly(n)'
    BY <1>8, <1>10, <2>1, <2>2
    DEF VsDropTold, ToldRightly, Comparable, DropsFrom
  <2> QED
    BY <1>10, <2>1, <2>3, VsRunEnds DEF VsDropTold, VsEnd, VsBecomes
<1>11. CASE VsRaises(c)
  <2>1. r.at \in vsCut' \/ r.at \notin DOMAIN vsStored
    BY <1>11 DEF VsRaises, VsNumbered
  <2> QED
    BY <1>11, <2>1, VsRunEnds DEF VsRaises, VsEnd, VsBecomes
<1> QED
  BY <1>2, <1>3, <1>4, <1>5, <1>7, <1>9, <1>10, <1>11, VsBeginKeeps,
     VsInsertKeeps DEF VsStep

LEMMA VsInvStep == VsInv /\ ScansNext => VsInv'
<1>1. ASSUME (\E c \in TfCallers : TfBegin(c) \/ TfStep(c) \/ TfRaises(c))
               \/ (\E c \in StCallers : StStep(c)) \/ DbCommit
      PROVE  UNCHANGED scanVars
  BY <1>1
  DEF TfBegin, TfStep, TfRaises, TfInspected, TfRunInserted, TfAccountsInserted,
      TfCommitted, TfRecorded, TfPublished, TfLeaves, TfOthers, StStep, StOthers,
      DbCommit
<1> QED
  BY <1>1, VsInvSame, VsStepKeeps DEF ScansNext

\* A scan that was under way when the daemon went down is cut off.
LEMMA VsInvForget == VsInv /\ ScForget => VsInv'
<1> SUFFICES ASSUME VsInv, ScForget PROVE VsInv'
  OBVIOUS
<1> USE DEF VsInv
<1>1. \A c \in VsCallers :
        /\ vsRun'[c] \in VsRuns /\ vsRun'[c].at = 0 /\ vsRun'[c].pc \in VsIdle
        /\ vsRun'[c].pc \notin VsActive /\ vsRun'[c].pc \notin VsAfterInsert
        /\ vsRun'[c].pc \notin VsAfterQuery /\ vsRun'[c].pc # "drop"
  BY VsNoRunIs DEF ScForget
<1>2. /\ UNCHANGED <<vsFile, vsBegun, vsStored, vsBefore, vsTold>>
      /\ vsCut' = vsCut \union ({vsRun[c].at : c \in VsCallers} \ {0})
  BY DEF ScForget
<1>3. VsType'
  <2>1. \A c \in VsCallers : vsRun[c].at # 0 => vsRun[c].at \in Numbers
    BY ScansAssumption DEF VsType, VsNumbered, Numbers
  <2>2. vsRun' \in [VsCallers -> VsRuns]
    BY <1>1 DEF ScForget
  <2> QED
    BY <1>2, <2>1, <2>2 DEF VsType
<1>4. VsNumbered' /\ \A c \in VsCallers : VsKnows(vsRun[c])'
  <2>1. 0 \in 0 .. vsBegun /\ 0 \notin vsTold /\ 0 \notin DOMAIN vsStored
    BY DEF VsType, VsNumbered
  <2> QED
    BY <1>1, <1>2, <2>1 DEF VsNumbered, VsKnows
<1>5. DropsTold'
  <2> SUFFICES ASSUME NEW n \in Numbers, VsEnded(n)' PROVE ToldRightly(n)'
    BY DEF DropsTold
  <2>1. VsEnded(n)
    BY <1>2 DEF VsEnded, Numbers
  <2> QED
    BY <1>2, <2>1, VsToldStays
<1> QED
  BY <1>3, <1>4, <1>5

-----------------------------------------------------------------------------
(* The tools in one daemon *)

ToolsInv == FwInv /\ HdInv /\ PkInv /\ TfInv /\ VsInv

LEMMA ToolsInvInit == ToolsInit => ToolsInv
  BY FwInvInit, HdInvInit, PkInvInit, TfInvInit, VsInvInit
  DEF ToolsInit, ToolsInv

LEMMA ToolsInvStep == ToolsInv /\ [ToolsNext]_toolVars => ToolsInv'
<1> SUFFICES ASSUME ToolsInv, [ToolsNext]_toolVars PROVE ToolsInv'
  OBVIOUS
<1> USE DEF ToolsInv
<1>1. UNCHANGED packagesState => PkInv'
  BY PkInvSame DEF packagesState, pkChecks
<1>2. UNCHANGED scansState => TfInv' /\ VsInv'
  BY TfInvSame, VsInvSame DEF scansState
<1>3. CASE FirewallNext /\ UNCHANGED notFirewall
  BY <1>1, <1>2, <1>3, FwInvStep, HdInvSame DEF notFirewall
<1>4. CASE HardeningNext /\ UNCHANGED notHardening
  BY <1>1, <1>2, <1>4, HdInvStep, FwInvSame DEF notHardening
<1>5. CASE PackagesNext /\ UNCHANGED notPackages
  BY <1>2, <1>5, PkInvStep, FwInvSame, HdInvSame DEF notPackages
<1>6. CASE ScansNext /\ UNCHANGED notScans
  BY <1>1, <1>6, TfInvStep, VsInvStep, FwInvSame, HdInvSame DEF notScans
<1>7. CASE Down
  BY <1>1, <1>2, <1>7, FwInvSame, HdInvSame DEF Down
<1>8. CASE Up
  BY <1>8, FwInvForget, HdInvForget, PkInvForget, TfInvForget, VsInvForget
  DEF Up
<1>9. CASE UNCHANGED toolVars
  BY <1>1, <1>2, <1>9, FwInvSame, HdInvSame DEF toolVars
<1> QED
  BY <1>3, <1>4, <1>5, <1>6, <1>7, <1>8, <1>9 DEF ToolsNext

-----------------------------------------------------------------------------
(* The types *)

\* What a step does to the state of the runner.
RunnerStep ==
  NoFault \/ Fault \/ (\E c \in Callers : Raise(c)) \/ StopDaemon \/ StartDaemon

\* The counters of faults and stops stay within their bounds.
LEMMA RunnerTypeInit == RunnerInit => RunnerTypeOK
<1> SUFFICES ASSUME RunnerInit PROVE RunnerTypeOK
  OBVIOUS
<1>1. enabled \in ToolConfigs /\ ToolConfigs \subseteq SUBSET Tools
  BY RunnerAssumption DEF RunnerInit
<1>2. enabled \subseteq Tools
  BY <1>1
<1>3. up \in BOOLEAN
  BY DEF RunnerInit
<1>4. faults \in 0 .. MaxFaults /\ stops \in 0 .. MaxStops
  BY RunnerAssumption DEF RunnerInit
<1> QED
  BY <1>2, <1>3, <1>4 DEF RunnerTypeOK

LEMMA RunnerTypeStep == RunnerTypeOK /\ RunnerStep => RunnerTypeOK'
<1> SUFFICES ASSUME RunnerTypeOK, RunnerStep PROVE RunnerTypeOK'
  OBVIOUS
<1>0. /\ faults \in 0 .. MaxFaults /\ MaxFaults \in Nat
      /\ stops \in 0 .. MaxStops /\ MaxStops \in Nat
  BY RunnerAssumption DEF RunnerTypeOK
<1>1. UNCHANGED enabled
  BY DEF RunnerStep, NoFault, Fault, Raise, StopDaemon, StartDaemon, runnerVars
<1>2. up' \in BOOLEAN
  BY DEF RunnerTypeOK, RunnerStep, NoFault, Fault, Raise, StopDaemon,
         StartDaemon, runnerVars
<1>3. \/ faults' = faults
      \/ faults < MaxFaults /\ faults' = faults + 1
  BY DEF RunnerStep, NoFault, Fault, Raise, StopDaemon, StartDaemon, runnerVars
<1>4. \/ stops' = stops
      \/ stops < MaxStops /\ stops' = stops + 1
  BY DEF RunnerStep, NoFault, Fault, Raise, StopDaemon, StartDaemon, runnerVars
<1>5. faults' \in 0 .. MaxFaults /\ stops' \in 0 .. MaxStops
  BY <1>0, <1>3, <1>4
<1> QED
  BY <1>1, <1>2, <1>5 DEF RunnerTypeOK

\* A run sets the policy only when it has seen one that drifts, and there is a
\* policy to drift from.
FwDrifts(r) ==
  /\ r.pc = "policy" => r.policyDrift
  /\ r.policyDrift => FwDesiredPolicy # "unset"

FwTyped == FirewallTypeOK /\ \A c \in FwCallers : FwDrifts(fwRun[c])

LEMMA FwNoRunDrifts == \A pc \in FwSteps \ {"policy"} : FwDrifts(FwNoRun(pc))
  BY DEF FwDrifts, FwNoRun

LEMMA FwTypedInit == FirewallInit => FwTyped
<1> SUFFICES ASSUME FirewallInit PROVE FwTyped
  OBVIOUS
<1>1. \A c \in FwCallers :
        Waiting(c) \in FwSteps \ {"policy"} /\ fwRun[c] = FwNoRun(Waiting(c))
  BY DEF FirewallInit, Waiting, FwSteps, FwCommands
<1>2. fwRun \in [FwCallers -> FwRuns]
  BY <1>1 DEF FirewallInit, FwRuns, FwNoRun
<1> QED
  BY <1>1, <1>2, FwNoRunDrifts, FirewallAssumption
  DEF FirewallInit, FwTyped, FirewallTypeOK

LEMMA FwTypedSame == FwTyped /\ UNCHANGED firewallState => FwTyped'
  BY DEF firewallState, FwTyped, FirewallTypeOK, FwDrifts

\* One run becomes r, and the policy is one there is.
LEMMA FwTypedRun ==
  ASSUME FwTyped, FwRunType', NEW c \in FwCallers, NEW r,
         fwRun' = [fwRun EXCEPT ![c] = r], FwDrifts(r),
         UNCHANGED fwWorld, fwPolicy' \in {"allow", "deny", "none"},
         fwMeddled' \subseteq FwCallers
  PROVE  FwTyped'
<1>1. fwRun'[c] = r /\ \A d \in FwCallers \ {c} : fwRun'[d] = fwRun[d]
  BY DEF FwTyped, FirewallTypeOK
<1>2. \A d \in FwCallers : FwDrifts(fwRun[d])'
  BY <1>1 DEF FwTyped, FwDrifts
<1> QED
  BY <1>2 DEF FwTyped, FirewallTypeOK, FwRunType, fwWorld

LEMMA FwGoOnTyped ==
  ASSUME FwTyped, FwRunType', NEW c \in FwCallers, NEW q \in FwRuns,
         q.policyDrift => FwDesiredPolicy # "unset", FwGoOn(c, q),
         UNCHANGED fwWorld, fwPolicy' \in {"allow", "deny", "none"},
         fwMeddled' \subseteq FwCallers
  PROVE  FwTyped'
<1> DEFINE r == [q EXCEPT !.pc = FwNextStep(q)]
<1>1. r.pc = FwNextStep(q) /\ r.policyDrift = q.policyDrift
  BY DEF FwRuns
<1>2. FwDrifts(r)
  BY <1>1 DEF FwDrifts, FwNextStep, FwRuns
<1>3. fwRun' = [fwRun EXCEPT ![c] = r]
  BY DEF FwGoOn
<1> HIDE DEF r
<1> QED
  BY <1>2, <1>3, FwTypedRun

LEMMA FwGotoTyped ==
  ASSUME FwTyped, FwRunType', NEW c \in FwCallers,
         NEW step \in FwSteps \ {"policy"},
         FwGoto(c, step), UNCHANGED fwWorld, fwPolicy' \in {"allow", "deny", "none"},
         fwMeddled' \subseteq FwCallers
  PROVE  FwTyped'
<1> DEFINE r == [fwRun[c] EXCEPT !.pc = step]
<1>1. fwRun[c] \in FwRuns
  BY DEF FwTyped, FirewallTypeOK
<1>2. FwDrifts(r)
  BY <1>1 DEF FwDrifts, FwTyped, FwRuns
<1>3. fwRun' = [fwRun EXCEPT ![c] = r]
  BY DEF FwGoto
<1> HIDE DEF r
<1> QED
  BY <1>2, <1>3, FwTypedRun

LEMMA FwEndTyped ==
  ASSUME FwTyped, FwRunType', NEW c \in FwCallers, FwEnd(c),
         UNCHANGED <<fwWorld, fwPolicy>>
  PROVE  FwTyped'
<1>1. FwDrifts(FwNoRun(Ended(c)))
  BY FwNoRunDrifts DEF Ended, FwSteps
<1> QED
  BY <1>1, FwTypedRun DEF FwEnd, FwTyped, FirewallTypeOK

\* Every step of the firewall tool, and of its host.
LEMMA FwTypedStep ==
  ASSUME FwTyped, FwRunType', FirewallNext
  PROVE  FwTyped' /\ RunnerStep
<1>1. CASE FwMeddle
  BY <1>1, FirewallAssumption
  DEF FwTyped, FwMeddle, FirewallTypeOK, FwRunType, FwBusy, FwDrifts, RunnerStep
<1>2. CASE \E c \in FwCallers : FwBegin(c) \/ FwStep(c) \/ FwFails(c) \/ FwRaises(c)
  <2>1. PICK c \in FwCallers : FwBegin(c) \/ FwStep(c) \/ FwFails(c) \/ FwRaises(c)
    BY <1>2
  <2>2. /\ fwRun[c] \in FwRuns /\ FwDrifts(fwRun[c])
        /\ fwPolicy \in {"allow", "deny", "none"} /\ fwMeddled \subseteq FwCallers
    BY DEF FwTyped, FirewallTypeOK
  <2>3. RunnerStep
    BY <2>1
    DEF FwBegin, FwStep, FwFails, FwRaises, FwCaptured, FwAlerted,
        FwPolicyApplied, FwFlushed, FwRemoved, FwChained, FwAdded,
        FwCapturedAfter, FwRecorded, RunnerStep, FwCallers, CallersOf
  <2> SUFFICES FwTyped'
    BY <2>3
  <2>4. CASE FwBegin(c)
    BY <2>2, <2>4, FwGotoTyped DEF FwBegin, FwSteps, FwCommands, fwRules
  <2>5. CASE FwCaptured(c)
    <3> DEFINE r == [pc |-> IF fwLive # FwDesired \/ PolicyDrift THEN "alert"
                            ELSE "recordSuccess",
                     missing |-> FwDesired \ fwLive,
                     unexpected |-> fwLive \ FwDesired,
                     policyDrift |-> PolicyDrift]
    <3>1. fwRun' = [fwRun EXCEPT ![c] = r]
      BY <2>5 DEF FwCaptured
    <3>2. FwDrifts(r)
      BY DEF FwDrifts, PolicyDrift
    <3> HIDE DEF r
    <3> QED
      BY <2>2, <2>5, <3>1, <3>2, FwTypedRun DEF FwCaptured, fwRules
  <2>6. CASE FwAlerted(c)
    BY <2>2, <2>6, FwGotoTyped, FwGoOnTyped
    DEF FwAlerted, FwSteps, fwRules, FwDrifts
  <2>7. CASE FwPolicyApplied(c)
    <3> DEFINE q == [fwRun[c] EXCEPT !.policyDrift = FALSE]
    <3>1. q \in FwRuns /\ ~q.policyDrift
      BY <2>2 DEF FwRuns
    <3>2. FwDesiredPolicy \in {"allow", "deny"}
      BY <2>2, <2>7, FirewallAssumption DEF FwPolicyApplied, FwAt, FwDrifts
    <3>3. fwPolicy' \in {"allow", "deny", "none"}
      BY <2>2, <2>7, <3>2 DEF FwPolicyApplied, EnsuredChain
    <3>4. /\ UNCHANGED <<fwWorld, fwMeddled>>
          /\ FwGoOn(c, q) \/ FwGoto(c, "flush")
      BY <2>7 DEF FwPolicyApplied
    <3> HIDE DEF q
    <3> QED
      BY <2>2, <3>1, <3>3, <3>4, FwGotoTyped, FwGoOnTyped DEF FwSteps, FwCommands
  <2>8. CASE FwFlushed(c)
    <3> DEFINE q == [fwRun[c] EXCEPT !.policyDrift = FALSE]
    <3>1. q \in FwRuns /\ ~q.policyDrift
      BY <2>2 DEF FwRuns
    <3>2. UNCHANGED <<fwWorld, fwPolicy, fwMeddled>> /\ FwGoOn(c, q)
      BY <2>8 DEF FwFlushed
    <3> HIDE DEF q
    <3> QED
      BY <2>2, <3>1, <3>2, FwGoOnTyped
  <2>9. CASE FwRemoved(c)
    <3>1. PICK rule \in fwRun[c].unexpected :
            FwGoOn(c, [fwRun[c] EXCEPT !.unexpected = @ \ {rule}])
      BY <2>9 DEF FwRemoved
    <3> DEFINE q == [fwRun[c] EXCEPT !.unexpected = @ \ {rule}]
    <3>2. q \in FwRuns /\ q.policyDrift = fwRun[c].policyDrift
      BY <2>2 DEF FwRuns
    <3>3. UNCHANGED <<fwWorld, fwPolicy, fwMeddled>> /\ FwGoOn(c, q)
      BY <2>9, <3>1 DEF FwRemoved
    <3> HIDE DEF q
    <3> QED
      BY <2>2, <3>2, <3>3, FwGoOnTyped DEF FwDrifts
  <2>10. CASE FwChained(c)
    BY <2>2, <2>10, FwGotoTyped
    DEF FwChained, EnsuredChain, FwSteps, FwCommands, fwRules
  <2>11. CASE FwAdded(c)
    <3>1. PICK rule \in fwRun[c].missing :
            FwGoOn(c, [fwRun[c] EXCEPT !.missing = @ \ {rule}])
      BY <2>11 DEF FwAdded
    <3> DEFINE q == [fwRun[c] EXCEPT !.missing = @ \ {rule}]
    <3>2. q \in FwRuns /\ q.policyDrift = fwRun[c].policyDrift
      BY <2>2 DEF FwRuns
    <3>3. UNCHANGED <<fwWorld, fwPolicy, fwMeddled>> /\ FwGoOn(c, q)
      BY <2>11, <3>1 DEF FwAdded
    <3> HIDE DEF q
    <3> QED
      BY <2>2, <3>2, <3>3, FwGoOnTyped DEF FwDrifts
  <2>12. CASE FwCapturedAfter(c)
    BY <2>2, <2>12, FwGotoTyped DEF FwCapturedAfter, FwSteps, fwRules
  <2>13. CASE FwFails(c)
    <3>1. FwDrifts(FwNoRun("recordFailure"))
      BY FwNoRunDrifts DEF FwSteps
    <3> QED
      BY <2>2, <2>13, <3>1, FwTypedRun DEF FwFails, fwRules
  <2>14. CASE FwRecorded(c) \/ FwRaises(c)
    BY <2>14, FwEndTyped DEF FwRecorded, FwRaises, fwRules
  <2> QED
    BY <2>1, <2>4, <2>5, <2>6, <2>7, <2>8, <2>9, <2>10, <2>11, <2>12,
       <2>13, <2>14
    DEF FwStep
<1> QED
  BY <1>1, <1>2 DEF FirewallNext

LEMMA FwTypedForget == FwTyped /\ FwForget => FwTyped'
<1> SUFFICES ASSUME FwTyped, FwForget PROVE FwTyped'
  OBVIOUS
<1>1. \A c \in FwCallers :
        Waiting(c) \in FwSteps \ {"policy"} /\ fwRun'[c] = FwNoRun(Waiting(c))
  BY DEF FwForget, Waiting, FwSteps, FwCommands
<1>2. fwRun' \in [FwCallers -> FwRuns]
  BY <1>1 DEF FwForget, FwRuns, FwNoRun
<1> QED
  BY <1>1, <1>2, FwNoRunDrifts
  DEF FwForget, FwTyped, FirewallTypeOK, fwWorld, fwRules, FwDrifts

\* Where a check is due there is one.
HdDue(r) == r.pc = "check" => r.todo # <<>>

HdTyped == HardeningTypeOK /\ \A c \in HdCallers : HdDue(hdRun[c])

\* The enabled checks are checks.
LEMMA HdEnabledChecksType ==
  ASSUME hdOn \subseteq HdChecks
  PROVE  HdEnabledChecks \in Seq(HdChecks)
<1>1. \A k \in HdChecks : HdIfOn(k) \in Seq(HdChecks)
  BY DEF HdIfOn
<1>2. \A i \in 1 .. 5 : HdOrder[i] \in HdChecks
  BY DEF HdOrder, HdChecks
<1>3. \A i \in 1 .. 5 : HdIfOn(HdOrder[i]) \in Seq(HdChecks)
  BY <1>1, <1>2
<1>4. \A s, t \in Seq(HdChecks) : s \o t \in Seq(HdChecks)
  OBVIOUS
<1> QED
  BY <1>3, <1>4 DEF HdEnabledChecks

LEMMA HdNoRunType ==
  \A pc \in HdSteps \ {"check"} : HdNoRun(pc) \in HdRuns /\ HdDue(HdNoRun(pc))
<1>1. [k \in HdChecks |-> "none"] \in [HdChecks -> HdResults]
  BY DEF HdResults
<1>2. <<>> \in Seq(HdChecks)
  OBVIOUS
<1> QED
  BY <1>1, <1>2 DEF HdNoRun, HdRuns, HdDue

LEMMA HdTypedInit == HardeningInit => HdTyped
<1> SUFFICES ASSUME HardeningInit PROVE HdTyped
  OBVIOUS
<1>1. \A c \in HdCallers : Waiting(c) \in HdSteps \ {"check"}
  BY DEF Waiting, HdSteps
<1>2. \A c \in HdCallers : hdRun[c] \in HdRuns /\ HdDue(hdRun[c])
  BY <1>1, HdNoRunType DEF HardeningInit
<1>3. hdRun \in [HdCallers -> HdRuns]
  BY <1>2 DEF HardeningInit
<1>4. /\ hdOn \subseteq HdChecks /\ hdAuto \in BOOLEAN
      /\ hdEarlier \subseteq FileChecks /\ hdLater \subseteq FileChecks
  BY HardeningAssumption DEF HardeningInit
<1>5. /\ hdMain \subseteq FileChecks /\ hdManaged \subseteq FileChecks
      /\ hdInForce \subseteq SshChecks
  BY DEF HardeningInit, SshdLoads
<1>6. hdSysctl \in BOOLEAN /\ hdEnabled \subseteq HdServices
  BY DEF HardeningInit
<1>7. hdMeddles \in 0 .. HdMaxMeddles /\ hdMeddled \subseteq HdCallers
  BY HardeningAssumption DEF HardeningInit
<1> QED
  BY <1>2, <1>3, <1>4, <1>5, <1>6, <1>7 DEF HdTyped, HardeningTypeOK

LEMMA HdTypedSame == HdTyped /\ UNCHANGED hardeningState => HdTyped'
  BY DEF hardeningState, hdConfig, hdHost, hdFiles, HdTyped, HardeningTypeOK, HdDue

\* The host as the types have it.
HdHostTyped ==
  /\ hdMain \subseteq FileChecks /\ hdManaged \subseteq FileChecks
  /\ hdInForce \subseteq SshChecks
  /\ hdSysctl \in BOOLEAN
  /\ hdEnabled \subseteq HdServices

\* One run becomes r, on a host that has its types.
LEMMA HdTypedRun ==
  ASSUME HdTyped, NEW c \in HdCallers, NEW r \in HdRuns,
         hdRun' = [hdRun EXCEPT ![c] = r], HdDue(r),
         UNCHANGED <<hdConfig, hdMeddles>>, HdHostTyped',
         hdMeddled' \subseteq HdCallers
  PROVE  HdTyped'
<1>1. hdRun \in [HdCallers -> HdRuns] /\ \A d \in HdCallers : HdDue(hdRun[d])
  BY DEF HdTyped, HardeningTypeOK
<1>2. hdRun' \in [HdCallers -> HdRuns]
  BY <1>1
<1>3. \A d \in HdCallers : HdDue(hdRun'[d])
  BY <1>1
<1>4. \A d \in HdCallers : HdDue(hdRun[d])'
  BY <1>3 DEF HdDue
<1> QED
  BY <1>2, <1>4 DEF HdTyped, HardeningTypeOK, hdConfig, HdHostTyped

LEMMA HdEndTyped ==
  ASSUME HdTyped, NEW c \in HdCallers, HdEnd(c),
         UNCHANGED <<hdConfig, hdHost, hdMeddles>>
  PROVE  HdTyped'
<1>1. Ended(c) \in HdSteps \ {"check"}
  BY DEF Ended, HdSteps
<1>2. HdHostTyped' /\ hdMeddled' \subseteq HdCallers
  BY DEF HdTyped, HardeningTypeOK, HdHostTyped, hdHost, hdFiles, HdEnd
<1> QED
  BY <1>1, <1>2, HdNoRunType, HdTypedRun DEF HdEnd

\* After a check with its result the next one is due, or the record.
LEMMA HdResultTyped ==
  ASSUME HdTyped, NEW c \in HdCallers, NEW result \in HdResults,
         HdResult(c, result), HdHostTyped'
  PROVE  HdTyped'
<1> DEFINE q == hdRun[c]
           pc == IF Tail(q.todo) = <<>> THEN "record" ELSE "check"
           k == HdCheck(c)
           r == [q EXCEPT !.result[k] = result, !.todo = Tail(@), !.pc = pc]
<1>1. q \in HdRuns /\ HdDue(q) /\ q.pc = "check"
  BY DEF HdTyped, HardeningTypeOK, HdResult, HdAt
<1>2. q.todo \in Seq(HdChecks) /\ q.todo # <<>>
  BY <1>1 DEF HdDue, HdRuns
<1>3. k \in HdChecks /\ Tail(q.todo) \in Seq(HdChecks)
  BY <1>2 DEF HdCheck
<1>4. hdRun' = [hdRun EXCEPT ![c] = r]
  BY DEF HdResult, HdTyped, HardeningTypeOK
<1>5. r \in HdRuns /\ r.pc = pc /\ r.todo = Tail(q.todo)
  <2>1. /\ q.result \in [HdChecks -> HdResults]
        /\ [q.result EXCEPT ![k] = result] \in [HdChecks -> HdResults]
    BY <1>1, <1>3 DEF HdRuns
  <2> DEFINE new == [q.result EXCEPT ![k] = result]
             left == Tail(q.todo)
             s1 == [q EXCEPT !.result = new]
             s2 == [s1 EXCEPT !.todo = left]
  <2>2. r = [s2 EXCEPT !.pc = pc]
    OBVIOUS
  <2>3. new \in [HdChecks -> HdResults] /\ left \in Seq(HdChecks)
        /\ pc \in HdSteps
    BY <1>3, <2>1 DEF HdSteps
  <2> HIDE DEF new, left, pc, r
  <2>4. s1 \in HdRuns
    BY <1>1, <2>3 DEF HdRuns
  <2> HIDE DEF s1
  <2>5. s2 \in HdRuns /\ s2.todo = left
    BY <2>3, <2>4 DEF HdRuns
  <2> HIDE DEF s2
  <2>6. r \in HdRuns /\ r.pc = pc /\ r.todo = left
    BY <2>2, <2>3, <2>5 DEF HdRuns
  <2> QED
    BY <2>6 DEF left
<1>6. HdDue(r)
  BY <1>5 DEF HdDue
<1>7. UNCHANGED <<hdConfig, hdMeddles>> /\ hdMeddled' \subseteq HdCallers
  BY DEF HdResult, HdTyped, HardeningTypeOK
<1> HIDE DEF r
<1> QED
  BY <1>4, <1>5, <1>6, <1>7, HdTypedRun

\* Every step of the hardening tool, and of its host.
LEMMA HdTypedStep ==
  ASSUME HdTyped, HardeningNext
  PROVE  HdTyped' /\ RunnerStep
<1>0. HdHostTyped /\ hdMeddled \subseteq HdCallers
  BY DEF HdTyped, HardeningTypeOK, HdHostTyped
<1>1. CASE HdMeddle
  <2>1. HdHostTyped' /\ hdMeddled' \subseteq HdCallers
    BY <1>0, <1>1 DEF HdMeddle, HdHostTyped, HdBusy, hdFiles, SshdLoads
  <2>2. hdMeddles' \in 0 .. HdMaxMeddles
    BY <1>1, HardeningAssumption DEF HdMeddle, HdTyped, HardeningTypeOK
  <2>3. UNCHANGED <<hdConfig, hdRun>> /\ RunnerStep
    BY <1>1 DEF HdMeddle, RunnerStep
  <2> QED
    BY <2>1, <2>2, <2>3
    DEF HdTyped, HardeningTypeOK, HdHostTyped, HdDue, hdConfig
<1>2. CASE \E c \in HdCallers : HdBegin(c) \/ HdStep(c) \/ HdRaises(c)
  <2>1. PICK c \in HdCallers : HdBegin(c) \/ HdStep(c) \/ HdRaises(c)
    BY <1>2
  <2>2. RunnerStep
    BY <2>1
    DEF HdBegin, HdStep, HdRaises, HdAudited, HdFixSsh, HdFixPassword,
        HdFixSysctl, HdFixServices, HdRecorded, HdPublished, RunnerStep,
        HdCallers, CallersOf
  <2> SUFFICES HdTyped'
    BY <2>2
  <2>3. hdRun[c] \in HdRuns /\ HdDue(hdRun[c])
    BY DEF HdTyped, HardeningTypeOK
  <2>4. CASE HdBegin(c)
    <3> DEFINE pc == IF HdEnabledChecks = <<>> THEN "record" ELSE "check"
               s1 == [hdRun[c] EXCEPT !.pc = pc]
               r == [s1 EXCEPT !.todo = HdEnabledChecks]
    <3>1. /\ hdRun' = [hdRun EXCEPT ![c] = r]
          /\ UNCHANGED <<hdConfig, hdHost, hdMeddles, hdMeddled>>
      BY <2>4 DEF HdBegin, HdTyped, HardeningTypeOK
    <3>2. HdEnabledChecks \in Seq(HdChecks)
      BY HdEnabledChecksType DEF HdTyped, HardeningTypeOK
    <3>3. pc \in HdSteps /\ (pc = "check" => HdEnabledChecks # <<>>)
      BY DEF HdSteps
    <3> HIDE DEF pc
    <3>4. s1 \in HdRuns /\ s1.pc = pc
      BY <2>3, <3>3 DEF HdRuns
    <3> HIDE DEF s1
    <3>5. r \in HdRuns /\ r.pc = pc /\ r.todo = HdEnabledChecks
      BY <3>2, <3>4 DEF HdRuns
    <3>6. HdDue(r)
      BY <3>3, <3>5 DEF HdDue
    <3>7. HdHostTyped' /\ hdMeddled' \subseteq HdCallers
      BY <1>0, <3>1 DEF HdHostTyped, hdHost, hdFiles
    <3> HIDE DEF r
    <3> QED
      BY <3>1, <3>5, <3>6, <3>7, HdTypedRun
  <2>5. CASE HdAudited(c)
    <3>1. HdHostTyped'
      BY <1>0, <2>5 DEF HdAudited, HdHostTyped, hdHost, hdFiles
    <3> QED
      BY <2>5, <3>1, HdResultTyped DEF HdAudited, HdResults
  <2>6. CASE HdFixSsh(c)
    <3>1. HdCheck(c) \in SshChecks
      BY <2>6 DEF HdFixSsh, HdToFix
    <3>2. HdHostTyped'
      BY <1>0, <2>6, <3>1 DEF HdFixSsh, HdHostTyped, HdWritesFile, SshdLoads,
         FileChecks
    <3> QED
      BY <2>6, <3>2, HdResultTyped DEF HdFixSsh, HdResults
  <2>7. CASE HdFixPassword(c)
    <3>1. HdCheck(c) = "strong_password_policy"
      BY <2>7 DEF HdFixPassword, HdToFix
    <3>2. HdHostTyped'
      BY <1>0, <2>7, <3>1 DEF HdFixPassword, HdHostTyped, HdWritesFile, FileChecks
    <3> QED
      BY <2>7, <3>2, HdResultTyped DEF HdFixPassword, HdResults
  <2>8. CASE HdFixSysctl(c)
    <3>1. HdHostTyped'
      BY <1>0, <2>8 DEF HdFixSysctl, HdHostTyped, hdFiles
    <3> QED
      BY <2>8, <3>1, HdResultTyped DEF HdFixSysctl, HdResults
  <2>9. CASE HdFixServices(c)
    <3>1. HdHostTyped'
      BY <1>0, <2>9 DEF HdFixServices, HdHostTyped, hdFiles
    <3> QED
      BY <2>9, <3>1, HdResultTyped DEF HdFixServices, HdResults
  <2>10. CASE HdRecorded(c)
    <3>1. CASE HdFixed(c) = {}
      BY <2>10, <3>1, HdEndTyped DEF HdRecorded
    <3>2. CASE HdFixed(c) # {}
      <4> DEFINE s1 == [hdRun[c] EXCEPT !.pc = "publish"]
                 r == [s1 EXCEPT !.announce = HdFixed(c)]
      <4>1. /\ hdRun' = [hdRun EXCEPT ![c] = r]
            /\ UNCHANGED <<hdConfig, hdHost, hdMeddles, hdMeddled>>
        BY <2>10, <3>2 DEF HdRecorded, HdTyped, HardeningTypeOK
      <4>2. s1 \in HdRuns /\ s1.pc = "publish"
        BY <2>3 DEF HdRuns, HdSteps
      <4>3. HdFixed(c) \subseteq HdChecks
        BY DEF HdFixed
      <4> HIDE DEF s1
      <4>4. r \in HdRuns /\ r.pc = "publish"
        BY <4>2, <4>3 DEF HdRuns
      <4>5. HdDue(r)
        BY <4>4 DEF HdDue
      <4>6. HdHostTyped' /\ hdMeddled' \subseteq HdCallers
        BY <1>0, <4>1 DEF HdHostTyped, hdHost, hdFiles
      <4> HIDE DEF r
      <4> QED
        BY <4>1, <4>4, <4>5, <4>6, HdTypedRun
    <3> QED
      BY <3>1, <3>2
  <2>11. CASE HdPublished(c)
    <3>1. PICK k \in hdRun[c].announce :
            IF hdRun[c].announce = {k}
            THEN HdEnd(c)
            ELSE /\ hdRun' = [hdRun EXCEPT ![c].announce = @ \ {k}]
                 /\ UNCHANGED hdMeddled
      BY <2>11 DEF HdPublished
    <3>2. CASE HdEnd(c)
      BY <2>11, <3>2, HdEndTyped DEF HdPublished
    <3>3. CASE hdRun' = [hdRun EXCEPT ![c].announce = @ \ {k}] /\ UNCHANGED hdMeddled
      <4> DEFINE r == [hdRun[c] EXCEPT !.announce = @ \ {k}]
      <4>1. hdRun' = [hdRun EXCEPT ![c] = r]
        BY <3>3
      <4>2. r \in HdRuns /\ r.pc = "publish"
        BY <2>3, <2>11 DEF HdRuns, HdPublished, HdAt
      <4>3. HdDue(r)
        BY <4>2 DEF HdDue
      <4>4. HdHostTyped' /\ hdMeddled' \subseteq HdCallers
        BY <1>0, <2>11, <3>3 DEF HdPublished, HdHostTyped, hdHost, hdFiles
      <4> HIDE DEF r
      <4> QED
        BY <2>11, <4>1, <4>2, <4>3, <4>4, HdTypedRun DEF HdPublished
    <3> QED
      BY <3>1, <3>2, <3>3
  <2>12. CASE HdRaises(c)
    BY <2>12, HdEndTyped DEF HdRaises
  <2> QED
    BY <2>1, <2>4, <2>5, <2>6, <2>7, <2>8, <2>9, <2>10, <2>11, <2>12 DEF HdStep
<1> QED
  BY <1>1, <1>2 DEF HardeningNext

LEMMA HdTypedForget == HdTyped /\ HdForget => HdTyped'
<1> SUFFICES ASSUME HdTyped, HdForget PROVE HdTyped'
  OBVIOUS
<1>1. \A c \in HdCallers : Waiting(c) \in HdSteps \ {"check"}
  BY DEF Waiting, HdSteps
<1>2. \A c \in HdCallers : hdRun'[c] \in HdRuns /\ HdDue(hdRun'[c])
  BY <1>1, HdNoRunType DEF HdForget
<1>3. hdRun' \in [HdCallers -> HdRuns]
  BY <1>2 DEF HdForget
<1>4. \A c \in HdCallers : HdDue(hdRun[c])'
  BY <1>2 DEF HdDue
<1> QED
  BY <1>3, <1>4
  DEF HdForget, HdTyped, HardeningTypeOK, hdConfig, hdHost, hdFiles

LEMMA PkTypedInit == PackagesInit => PackagesTypeOK
<1> SUFFICES ASSUME PackagesInit PROVE PackagesTypeOK
  OBVIOUS
<1>1. pkUpdate \in [UpCallers -> UpSteps]
  BY DEF PackagesInit, UpSteps, Waiting
<1>2. pkCheck \in [PqCallers -> PqRuns]
  BY PkInvInit DEF PkInv, PkRunType
<1>3. pkPresent \subseteq PkRequired
  BY DEF PackagesInit
<1>4. /\ pkDry \in BOOLEAN /\ pkPolicy \in {"notify", "never"}
      /\ pkSeesReboot \in BOOLEAN /\ pkPending \in BOOLEAN
  BY DEF PackagesInit
<1>5. pkReboot \in BOOLEAN /\ pkTold \in BOOLEAN
  BY DEF PackagesInit
<1>6. pkMeddles \in 0 .. PkMaxMeddles /\ pkMeddled \subseteq PqCallers
  BY PackagesAssumption DEF PackagesInit
<1>7. pkDistro \in PkDistros
  BY DEF PackagesInit
<1> QED
  BY <1>1, <1>2, <1>3, <1>4, <1>5, <1>6, <1>7 DEF PackagesTypeOK

LEMMA PkTypedSame == PackagesTypeOK /\ UNCHANGED packagesState => PackagesTypeOK'
  BY DEF packagesState, pkConfig, pkUpdates, pkChecks, PackagesTypeOK

\* Every step of a run of the security updates, then of a package check.
LEMMA UpTypedStep ==
  ASSUME PackagesTypeOK, NEW c \in UpCallers,
         UpBegin(c) \/ UpStep(c) \/ UpRaises(c)
  PROVE  PackagesTypeOK' /\ RunnerStep
<1>1. RunnerStep
  BY DEF UpBegin, UpStep, UpRaises, UpUpgraded, UpRecorded, UpAnnounced,
         UpRebootAsked, UpRebootTold, RunnerStep, UpCallers, CallersOf
<1>2. UNCHANGED <<pkConfig, pkMeddles, pkChecks>>
  BY DEF UpBegin, UpStep, UpRaises, UpUpgraded, UpRecorded, UpAnnounced,
         UpRebootAsked, UpRebootTold, UpHost, pkRest
<1>3. pkTold' \in {pkTold, pkReboot}
  BY DEF UpBegin, UpStep, UpRaises, UpUpgraded, UpRecorded, UpAnnounced,
         UpRebootAsked, UpRebootTold
<1>4. pkPending' \in {pkPending, FALSE}
      /\ pkReboot' \in {pkReboot, pkReboot \/ pkPending}
  BY DEF UpBegin, UpStep, UpRaises, UpUpgraded, UpRecorded, UpAnnounced,
         UpRebootAsked, UpRebootTold, UpHost
<1>5. PICK step \in UpSteps : UpGoto(c, step)
  BY DEF UpBegin, UpStep, UpRaises, UpUpgraded, UpRecorded, UpNext,
         UpAnnounced, UpRebootAsked, UpRebootTold, UpEnd, Ended, UpSteps
<1>6. pkUpdate' \in [UpCallers -> UpSteps]
  BY <1>5 DEF UpGoto, PackagesTypeOK
<1>7. pkPending' \in BOOLEAN /\ pkReboot' \in BOOLEAN /\ pkTold' \in BOOLEAN
  BY <1>3, <1>4 DEF PackagesTypeOK
<1> QED
  BY <1>1, <1>2, <1>6, <1>7 DEF PackagesTypeOK, pkConfig, pkChecks

LEMMA PqTypedStep ==
  ASSUME PackagesTypeOK, PkRunType', NEW c \in PqCallers,
         PqBegin(c) \/ PqStep(c) \/ PqRaises(c)
  PROVE  PackagesTypeOK' /\ RunnerStep
<1>1. RunnerStep
  BY DEF PqBegin, PqStep, PqRaises, PqQueried, PqAnnounced, PqInstalled,
         PqPublished, PqRecorded, RunnerStep, PqCallers, CallersOf
<1>2. UNCHANGED <<pkConfig, pkMeddles, pkUpdates>>
  BY DEF PqBegin, PqStep, PqRaises, PqQueried, PqAnnounced, PqInstalled,
         PqPublished, PqRecorded, PqOthers, pkRest
<1>3. pkMeddled' \subseteq PqCallers
  BY DEF PqBegin, PqStep, PqRaises, PqQueried, PqAnnounced, PqInstalled,
         PqPublished, PqRecorded, PqEnd, PackagesTypeOK
<1>4. pkPresent' \subseteq PkRequired
  <2>1. CASE PqInstalled(c)
    <3>1. pkCheck[c].todo \subseteq PkRequired
      BY DEF PackagesTypeOK, PqRuns
    <3> QED
      BY <2>1, <3>1 DEF PqInstalled, PackagesTypeOK
  <2>2. CASE ~PqInstalled(c)
    BY <2>2
    DEF PqBegin, PqStep, PqRaises, PqQueried, PqAnnounced, PqPublished,
        PqRecorded, PackagesTypeOK
  <2> QED
    BY <2>1, <2>2
<1> QED
  BY <1>1, <1>2, <1>3, <1>4
  DEF PackagesTypeOK, PkRunType, pkConfig, pkUpdates

LEMMA PkTypedStep ==
  ASSUME PackagesTypeOK, PkRunType', PackagesNext
  PROVE  PackagesTypeOK' /\ RunnerStep
<1>1. CASE PkRemoved
  BY <1>1, PackagesAssumption
  DEF PkRemoved, PkMeddles, PackagesTypeOK, RunnerStep, pkConfig
<1>2. CASE PkUpdateOut
  BY <1>2, PackagesAssumption
  DEF PkUpdateOut, PkMeddles, PackagesTypeOK, RunnerStep, pkConfig
<1>3. CASE PkRebooted
  BY <1>3
  DEF PkRebooted, PackagesTypeOK, RunnerStep, pkRest, pkConfig, pkChecks
<1> QED
  BY <1>1, <1>2, <1>3, UpTypedStep, PqTypedStep DEF PackagesNext

LEMMA PkTypedForget ==
  ASSUME PackagesTypeOK, PkRunType', PkForget
  PROVE  PackagesTypeOK'
<1>1. pkUpdate' \in [UpCallers -> UpSteps]
  BY DEF PkForget, UpSteps, Waiting
<1> QED
  BY <1>1 DEF PkForget, PackagesTypeOK, PkRunType, pkRest, pkConfig

\* What the invariants of the scans and audits do not say of their types.
ScTyped == vsInstalled \in BOOLEAN /\ stRun \in [StCallers -> StSteps]

LEMMA ScTypesAre == TfInv /\ VsInv /\ ScTyped => ScansTypeOK
<1> SUFFICES ASSUME TfInv, VsInv, ScTyped PROVE ScansTypeOK
  OBVIOUS
<1>1. 1 .. vsBegun \subseteq Numbers
  BY ScansAssumption DEF VsInv, VsType, Numbers
<1>2. DOMAIN vsStored \subseteq Numbers /\ vsTold \subseteq Numbers
  BY <1>1 DEF VsInv, VsNumbered
<1> QED
  BY <1>2 DEF TfInv, TfType, VsInv, VsType, ScTyped, ScansTypeOK

LEMMA ScTypedInit == ScansInit => ScTyped
<1> SUFFICES ASSUME ScansInit PROVE ScTyped
  OBVIOUS
<1>1. vsInstalled \in BOOLEAN
  BY DEF ScansInit
<1>2. stRun \in [StCallers -> StSteps]
  BY DEF ScansInit, StSteps, Waiting
<1> QED
  BY <1>1, <1>2 DEF ScTyped

LEMMA ScTypedSame == ScTyped /\ UNCHANGED <<vsInstalled, stRun>> => ScTyped'
  BY DEF ScTyped

LEMMA ScTypedStep == ScTyped /\ ScansNext => ScTyped' /\ RunnerStep
<1> SUFFICES ASSUME ScTyped, ScansNext PROVE ScTyped' /\ RunnerStep
  OBVIOUS
<1>1. CASE \E c \in VsCallers : VsBegin(c) \/ VsStep(c) \/ VsRaises(c)
  <2>1. UNCHANGED <<vsInstalled, stRun>>
    BY <1>1
    DEF VsBegin, VsStep, VsRaises, VsScanned, VsReadReport, VsQueried,
        VsInserted, VsRecorded, VsCompared, VsDropTold, VsLeaves, VsOthers
  <2>2. RunnerStep
    BY <1>1
    DEF VsBegin, VsStep, VsRaises, VsScanned, VsReadReport, VsQueried,
        VsInserted, VsRecorded, VsCompared, VsDropTold, VsLeaves, RunnerStep,
        VsCallers, CallersOf
  <2> QED
    BY <2>1, <2>2, ScTypedSame
<1>2. CASE \/ \E c \in TfCallers : TfBegin(c) \/ TfStep(c) \/ TfRaises(c)
           \/ DbCommit
  <2>1. UNCHANGED <<vsInstalled, stRun>>
    BY <1>2
    DEF TfBegin, TfStep, TfRaises, TfInspected, TfRunInserted,
        TfAccountsInserted, TfCommitted, TfRecorded, TfPublished, TfLeaves,
        TfOthers, DbCommit, scanVars
  <2>2. RunnerStep
    BY <1>2
    DEF TfBegin, TfStep, TfRaises, TfInspected, TfRunInserted,
        TfAccountsInserted, TfCommitted, TfRecorded, TfPublished, TfLeaves,
        DbCommit, RunnerStep, TfCallers, CallersOf
  <2> QED
    BY <2>1, <2>2, ScTypedSame
<1>3. CASE \E c \in StCallers : StStep(c)
  <2>1. PICK c \in StCallers : StStep(c)
    BY <1>3
  <2>2. RunnerStep
    BY <2>1 DEF StStep, RunnerStep, StCallers, CallersOf
  <2>3. PICK step \in StSteps : StGoto(c, step)
    BY <2>1 DEF StStep, StSteps, Ended
  <2> QED
    BY <2>1, <2>2, <2>3 DEF StStep, StGoto, StOthers, scanVars, ScTyped
<1> QED
  BY <1>1, <1>2, <1>3 DEF ScansNext

LEMMA ScTypedForget == ScTyped /\ ScForget => ScTyped'
  BY DEF ScForget, ScTyped, StSteps, Waiting

\* The invariant that gives the types, beside ToolsInv.
ToolsTyped == RunnerTypeOK /\ FwTyped /\ HdTyped /\ PackagesTypeOK /\ ScTyped

LEMMA ToolsTypedInit == ToolsInit => ToolsTyped
  BY RunnerTypeInit, FwTypedInit, HdTypedInit, PkTypedInit, ScTypedInit
  DEF ToolsInit, ToolsTyped

LEMMA ToolsTypedStep ==
  ASSUME ToolsTyped, ToolsInv', [ToolsNext]_toolVars
  PROVE  ToolsTyped'
<1> USE DEF ToolsTyped
<1>0. FwRunType' /\ PkRunType'
  BY DEF ToolsInv, FwInv, PkInv
<1>1. UNCHANGED scansState => ScTyped'
  BY ScTypedSame DEF scansState, scanVars
<1>2. UNCHANGED runnerVars => RunnerTypeOK'
  BY DEF RunnerTypeOK, runnerVars
<1>3. CASE FirewallNext /\ UNCHANGED notFirewall
  BY <1>0, <1>1, <1>3, FwTypedStep, HdTypedSame, PkTypedSame, RunnerTypeStep
  DEF notFirewall
<1>4. CASE HardeningNext /\ UNCHANGED notHardening
  BY <1>1, <1>4, HdTypedStep, FwTypedSame, PkTypedSame, RunnerTypeStep
  DEF notHardening
<1>5. CASE PackagesNext /\ UNCHANGED notPackages
  BY <1>0, <1>1, <1>5, PkTypedStep, FwTypedSame, HdTypedSame, RunnerTypeStep
  DEF notPackages
<1>6. CASE ScansNext /\ UNCHANGED notScans
  BY <1>6, ScTypedStep, FwTypedSame, HdTypedSame, PkTypedSame, RunnerTypeStep
  DEF notScans
<1>7. CASE Down
  BY <1>1, <1>7, FwTypedSame, HdTypedSame, PkTypedSame, RunnerTypeStep
  DEF Down, RunnerStep
<1>8. CASE Up
  BY <1>0, <1>8, FwTypedForget, HdTypedForget, PkTypedForget, ScTypedForget,
     RunnerTypeStep
  DEF Up, RunnerStep
<1>9. CASE UNCHANGED toolVars
  BY <1>1, <1>2, <1>9, FwTypedSame, HdTypedSame, PkTypedSame DEF toolVars
<1> QED
  BY <1>3, <1>4, <1>5, <1>6, <1>7, <1>8, <1>9 DEF ToolsNext

-----------------------------------------------------------------------------
(* The theorems *)

\* Every variable of the tools keeps its type, whatever runs overlap or are cut
\* off: a step of a run is one its tool knows, a check that is due is there, and
\* a policy is only set to one that is configured (the run methods of the
\* tools).
THEOREM ToolsTypeCorrect == ToolsSpec => []ToolsTypeOK
<1>1. ToolsInv /\ ToolsTyped => ToolsTypeOK
  BY ScTypesAre DEF ToolsInv, ToolsTyped, FwTyped, HdTyped, ToolsTypeOK
<1>2. ToolsInit => ToolsInv /\ ToolsTyped
  BY ToolsInvInit, ToolsTypedInit
<1>3. ToolsInv /\ ToolsTyped /\ [ToolsNext]_toolVars => (ToolsInv /\ ToolsTyped)'
  BY ToolsInvStep, ToolsTypedStep
<1> QED
  BY <1>1, <1>2, <1>3, PTL DEF ToolsSpec

\* A run of the firewall tool that records success with enforcement leaves the
\* ufw rules as desired; what a hardening run reports as remediated is as it
\* should be when the report goes out; what a package check does not report as
\* failed is installed.  Each of them unless an admin interfered
\* (FirewallTool.run, HardeningTool.run, RequiredPackagesTool.run).
THEOREM RepairsAreReal == ToolsSpec => []ReportedIsReal
<1>1. ToolsInv => ReportedIsReal
  BY HdInvImplies, PkInvImplies DEF ToolsInv, FwInv, ReportedIsReal
<1> QED
  BY ToolsInvInit, ToolsInvStep, <1>1, PTL DEF ToolsSpec

\* A score that drops is told, once and with no other, however the scans of the
\* scheduler and of the startup overlap; an audit that goes on to its record is
\* stored with its accounts, although every component commits on the same
\* connection, and one that is stored without them was cut off or is about to
\* get them (VulnScanTool.run, TwoFactorAuditTool._persist_snapshot).
THEOREM FindingsAreWhole == ToolsSpec => []FindingsWhole
<1>1. ToolsInv => FindingsWhole
  BY DEF ToolsInv, TfInv, VsInv, FindingsWhole
<1> QED
  BY ToolsInvInit, ToolsInvStep, <1>1, PTL DEF ToolsSpec
=============================================================================
