---------------------------- MODULE FirewallTool ----------------------------
(***************************************************************************)
(* The firewall tool (tools/firewall/tool.py and backends.py): a run       *)
(* compares the rules in force with the configured ones, tells chat of a   *)
(* drift, and with `enforce' repairs it command by command from the lists  *)
(* it made at the beginning.  Two backends differ in what a command does:  *)
(* ufw changes one rule, nftables flushes the whole chain.                 *)
(*                                                                         *)
(* Every command is awaited, so a step is one command.  Meanwhile another  *)
(* run of the tool, or an admin, may change the rules.                     *)
(***************************************************************************)
EXTENDS ToolRuns

CONSTANTS
  FwRules,            \* source, port and protocol: a rule is a model value
  FwDesired,          \* _desired_allow_rules
  FwDesiredPolicy,    \* _desired_default_incoming_policy, or "unset"
  FwBackends,         \* the backends that may be installed
  FwMaxMeddles        \* bound: changes made by an admin

ASSUME FirewallAssumption ==
  /\ FwDesired \subseteq FwRules
  /\ FwDesiredPolicy \in {"allow", "deny", "unset"}
  /\ FwBackends \subseteq {"ufw", "nftables"}
  /\ FwMaxMeddles \in Nat

VARIABLES
  fwBackend, fwEnforce,   \* what the host has and the configuration says
  fwLive,                 \* the allow rules in force
  fwPolicy,               \* the policy in force; "none": nft has no chain
  fwRun,                  \* what each caller's run knows
  fwMeddles,
  fwMeddled               \* history: callers whose run an admin interfered with

firewallVars == <<fwBackend, fwEnforce, fwLive, fwPolicy, fwRun, fwMeddles,
                  fwMeddled, runnerVars>>

FwCallers == CallersOf("firewall")
FwCommands == {"capture", "policy", "flush", "remove", "chain", "add", "after"}
FwSteps == FwCommands \union
           {"idle", "due", "done", "alert", "recordSuccess", "recordFailure"}

\* missing_rules, unexpected_rules and policy_drift, less what has been dealt
\* with.
FwRuns == [pc : FwSteps, missing : SUBSET FwRules,
           unexpected : SUBSET FwRules, policyDrift : BOOLEAN]
FwNoRun(pc) == [pc |-> pc, missing |-> {}, unexpected |-> {},
                policyDrift |-> FALSE]

FirewallTypeOK ==
  /\ fwBackend \in FwBackends
  /\ fwEnforce \in BOOLEAN
  /\ fwLive \subseteq FwRules
  /\ fwPolicy \in {"allow", "deny", "none"}
  /\ fwRun \in [FwCallers -> FwRuns]
  /\ fwMeddles \in 0 .. FwMaxMeddles
  /\ fwMeddled \subseteq FwCallers

FirewallInit ==
  /\ fwBackend \in FwBackends
  /\ fwEnforce \in BOOLEAN
  /\ fwLive \in SUBSET FwRules
  /\ fwPolicy \in {"allow", "deny", "none"}
  /\ fwPolicy = "none" => fwBackend = "nftables" /\ fwLive = {}
  /\ fwRun = [c \in FwCallers |-> FwNoRun(Waiting(c))]
  /\ "firewall" \notin enabled =>
       fwBackend = "ufw" /\ ~fwEnforce /\ fwLive = {} /\ fwPolicy = "deny"
  /\ fwMeddles = 0 /\ fwMeddled = {}

-----------------------------------------------------------------------------
(* FirewallTool.run *)

PolicyDrift ==
  FwDesiredPolicy # "unset" /\ fwPolicy # FwDesiredPolicy

\* What the loops of run come to next.
FwNextStep(r) ==
  CASE r.policyDrift -> "policy"
    [] ~r.policyDrift /\ r.unexpected # {} -> "remove"
    [] ~r.policyDrift /\ r.unexpected = {} /\ r.missing # {} ->
         IF fwBackend = "ufw" THEN "add" ELSE "chain"
    [] OTHER -> "after"

FwAt(c, step) == Loaded("firewall") /\ fwRun[c].pc = step
FwGoto(c, step) == fwRun' = [fwRun EXCEPT ![c].pc = step]
FwGoOn(c, r) == fwRun' = [fwRun EXCEPT ![c] = [r EXCEPT !.pc = FwNextStep(r)]]
FwEnd(c) ==
  /\ fwRun' = [fwRun EXCEPT ![c] = FwNoRun(Ended(c))]
  /\ fwMeddled' = fwMeddled \ {c}

fwWorld == <<fwBackend, fwEnforce, fwMeddles>>
fwRules == <<fwLive, fwPolicy>>

FwBegin(c) ==
  /\ FwAt(c, Waiting(c))
  /\ FwGoto(c, "capture")
  /\ NoFault /\ UNCHANGED <<fwWorld, fwRules, fwMeddled>>

\* capture_state, _calculate_rule_drift and _policy_drift.
FwCaptured(c) ==
  /\ FwAt(c, "capture")
  /\ LET drift == fwLive # FwDesired \/ PolicyDrift
     IN  fwRun' = [fwRun EXCEPT ![c] =
                     [pc |-> IF drift THEN "alert" ELSE "recordSuccess",
                      missing |-> FwDesired \ fwLive,
                      unexpected |-> fwLive \ FwDesired,
                      policyDrift |-> PolicyDrift]]
  /\ NoFault /\ UNCHANGED <<fwWorld, fwRules, fwMeddled>>

FwAlerted(c) ==
  /\ FwAt(c, "alert")
  /\ IF fwEnforce
     THEN FwGoOn(c, fwRun[c])
     ELSE FwGoto(c, "recordSuccess")
  /\ NoFault /\ UNCHANGED <<fwWorld, fwRules, fwMeddled>>

\* Mutant: the policy is kept in the words of nft.
ChainInNftWords(policy) == IF fwPolicy = "none" THEN "drop" ELSE fwPolicy

\* _ensure_filter_chain: the policy counts only when it creates the chain.
EnsuredChain(policy) == IF fwPolicy = "none" THEN policy ELSE fwPolicy

\* ufw sets the policy; nftables ensures the chain and flushes it.
FwPolicyApplied(c) ==
  /\ FwAt(c, "policy")
  /\ IF fwBackend = "ufw"
     THEN /\ fwPolicy' = FwDesiredPolicy
          /\ FwGoOn(c, [fwRun[c] EXCEPT !.policyDrift = FALSE])
     ELSE /\ fwPolicy' = EnsuredChain(FwDesiredPolicy)
          /\ FwGoto(c, "flush")
  /\ NoFault /\ UNCHANGED <<fwWorld, fwLive, fwMeddled>>

FwFlushed(c) ==
  /\ FwAt(c, "flush")
  /\ fwLive' = {}
  /\ FwGoOn(c, [fwRun[c] EXCEPT !.policyDrift = FALSE])
  /\ NoFault /\ UNCHANGED <<fwWorld, fwPolicy, fwMeddled>>

\* remove_rule of nftables flushes the chain.
FwRemoved(c) ==
  /\ FwAt(c, "remove")
  /\ \E rule \in fwRun[c].unexpected :
       /\ fwLive' = IF fwBackend = "ufw" THEN fwLive \ {rule} ELSE {}
       /\ FwGoOn(c, [fwRun[c] EXCEPT !.unexpected = @ \ {rule}])
  /\ NoFault /\ UNCHANGED <<fwWorld, fwPolicy, fwMeddled>>

\* ensure_rule of nftables begins with _ensure_filter_chain(policy="drop").
FwChained(c) ==
  /\ FwAt(c, "chain")
  /\ fwPolicy' = EnsuredChain("deny")
  /\ FwGoto(c, "add")
  /\ NoFault /\ UNCHANGED <<fwWorld, fwLive, fwMeddled>>

\* Mutant: the rules that were unexpected are added back.
FwAddsAll(c) ==
  /\ FwAt(c, "add")
  /\ \E rule \in fwRun[c].missing :
       /\ fwLive' = fwLive \union {CHOOSE r \in FwRules : r \notin FwDesired}
       /\ FwGoOn(c, [fwRun[c] EXCEPT !.missing = @ \ {rule}])
  /\ NoFault /\ UNCHANGED <<fwWorld, fwPolicy, fwMeddled>>

FwAdded(c) ==
  /\ FwAt(c, "add")
  /\ \E rule \in fwRun[c].missing :
       /\ fwLive' = fwLive \union {rule}
       /\ FwGoOn(c, [fwRun[c] EXCEPT !.missing = @ \ {rule}])
  /\ NoFault /\ UNCHANGED <<fwWorld, fwPolicy, fwMeddled>>

\* The state after the repair goes into the record and is not looked at.
FwCapturedAfter(c) ==
  /\ FwAt(c, "after")
  /\ FwGoto(c, "recordSuccess")
  /\ NoFault /\ UNCHANGED <<fwWorld, fwRules, fwMeddled>>

\* A command exits with an error: FirewallBackendError.
FwFails(c) ==
  /\ up /\ fwRun[c].pc \in FwCommands
  /\ Fault
  /\ fwRun' = [fwRun EXCEPT ![c] = FwNoRun("recordFailure")]
  /\ UNCHANGED <<fwWorld, fwRules, fwMeddled>>

FwRecorded(c) ==
  /\ up /\ fwRun[c].pc \in {"recordSuccess", "recordFailure"}
  /\ FwEnd(c)
  /\ NoFault /\ UNCHANGED <<fwWorld, fwRules>>

\* The append raises, or a command cannot be started.
FwRaises(c) ==
  /\ up
  /\ fwRun[c].pc \in FwCommands \union {"recordSuccess", "recordFailure"}
  /\ Raise(c)
  /\ FwEnd(c)
  /\ UNCHANGED <<fwWorld, fwRules>>

-----------------------------------------------------------------------------
(* The host *)

FwBusy == {c \in FwCallers : fwRun[c].pc # Waiting(c) /\ fwRun[c].pc # Ended(c)}

\* An admin adds or removes a rule, or sets the policy.
FwMeddle ==
  /\ "firewall" \in enabled
  /\ fwMeddles < FwMaxMeddles
  /\ fwMeddles' = fwMeddles + 1
  /\ fwMeddled' = FwBusy
  /\ fwPolicy # "none"
  /\ \/ /\ \E rule \in FwRules :
             fwLive' = IF rule \in fwLive THEN fwLive \ {rule}
                       ELSE fwLive \union {rule}
        /\ UNCHANGED fwPolicy
     \/ /\ fwPolicy' \in {"allow", "deny"} \ {fwPolicy}
        /\ UNCHANGED fwLive
  /\ NoFault /\ UNCHANGED <<fwBackend, fwEnforce, fwRun>>

\* The daemon starts: the run at startup is due, and no other run is under way.
FwForget ==
  /\ fwRun' = [c \in FwCallers |-> FwNoRun(Waiting(c))]
  /\ fwMeddled' = {}
  /\ UNCHANGED <<fwWorld, fwRules>>

FwStep(c) ==
  \/ FwCaptured(c) \/ FwAlerted(c) \/ FwPolicyApplied(c) \/ FwFlushed(c)
  \/ FwRemoved(c) \/ FwChained(c) \/ FwAdded(c) \/ FwCapturedAfter(c)
  \/ FwRecorded(c)

FirewallNext ==
  \/ \E c \in FwCallers :
       FwBegin(c) \/ FwStep(c) \/ FwFails(c) \/ FwRaises(c)
  \/ FwMeddle

\* APScheduler starts the job at every interval, and a command returns.
FirewallSpec ==
  /\ RunnerInit /\ FirewallInit
  /\ [][FirewallNext]_firewallVars
  /\ WF_firewallVars(FwBegin("scheduler"))
  /\ \A c \in FwCallers : WF_firewallVars(FwStep(c))

-----------------------------------------------------------------------------
(* Properties *)

FwMatches == fwLive = FwDesired /\ ~PolicyDrift

\* Once a run that enforces has been through all its commands, the rules are
\* the configured ones, whatever another run did meanwhile with older lists
\* (FirewallTool.run, with the commands of ufw, and no admin interfering).
FirewallReported ==
  \A c \in FwCallers :
    /\ fwBackend = "ufw" /\ fwEnforce
    /\ fwRun[c].pc = "recordSuccess"
    /\ c \notin fwMeddled
    => FwMatches

\* (user_stories/US-014-declarative-firewall.md:15) When enforce is set, the
\* daemon removes unexpected rules and restores missing ones automatically: a
\* drift of the rules does not last.
FirewallRestored == fwEnforce => <>[](fwLive = FwDesired)

\* The same state of a host that runs ufw.
UfwRepaired == fwEnforce /\ fwBackend = "ufw" => fwLive = FwDesired
=============================================================================
