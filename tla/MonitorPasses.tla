--------------------------- MODULE MonitorPasses ---------------------------
(***************************************************************************)
(* What the monitors that watch the host have in common: the collection    *)
(* loop of monitors/registry.py, which awaits their collect one after the  *)
(* other, the clock, errors, and restarts of the daemon.                   *)
(*                                                                         *)
(* The modules of the monitors extend this one.  They share no state with  *)
(* each other, each has a database connection of its own, so a             *)
(* configuration turns one of them on; the others only take time.          *)
(***************************************************************************)
EXTENDS Integers, FiniteSets, Sequences

CONSTANTS
  MoConfigs,     \* the monitors that may be turned on
  MoPause,       \* monitors.collection_interval, in ticks
  MoMaxTime,     \* bound: the last tick
  MoMaxMishaps   \* bound: statements and commands that fail, and how often
                 \* the daemon stops or crashes, taken together

ASSUME MonitorsAssumption ==
  /\ MoPause \in Nat /\ MoMaxTime \in Nat
  /\ MoMaxMishaps \in Nat

VARIABLES
  watched,       \* the monitor that is on; fixed
  moUp,          \* the daemon runs
  moNow,         \* the clock
  moWake,        \* when the pause between two passes is over
  moErrors, moStops

passVars == <<watched, moUp, moNow, moWake, moErrors, moStops>>

MoTimes == 0 .. MoMaxTime
NotYet == -1
MoStamps == MoTimes \union {NotYet}

PassesTypeOK ==
  /\ watched \in MoConfigs
  /\ moUp \in BOOLEAN
  /\ moNow \in MoTimes
  /\ moWake \in 0 .. MoMaxTime + MoPause
  /\ {moErrors, moStops} \subseteq Nat
  /\ moErrors + moStops <= MoMaxMishaps

PassesInit ==
  /\ watched \in MoConfigs
  /\ moUp = TRUE /\ moNow = 0 /\ moWake = 0
  /\ moErrors = 0 /\ moStops = 0

MayFail == moErrors + moStops < MoMaxMishaps

\* The loop calls collect: its pause is over, and so are the other monitors.
PassBegins == moNow >= moWake

\* collect goes on to its next await.
PassGoesOn == UNCHANGED passVars

\* collect returns; asyncio.wait_for(stop_event.wait(), interval).
PassEnds ==
  /\ moWake' = moNow + MoPause
  /\ UNCHANGED <<watched, moUp, moNow, moErrors, moStops>>

\* An await raises, and collect, or _run_all behind it, logs the exception.
PassRaises ==
  /\ MayFail
  /\ moErrors' = moErrors + 1
  /\ moWake' = moNow + MoPause
  /\ UNCHANGED <<watched, moUp, moNow, moStops>>

\* A failure that collect takes note of and goes on.
Tolerated ==
  /\ MayFail
  /\ moErrors' = moErrors + 1
  /\ UNCHANGED <<watched, moUp, moNow, moWake, moStops>>

\* The loop is cancelled in whatever it awaits, or the process is gone.
StopsPasses ==
  /\ moUp /\ MayFail
  /\ moStops' = moStops + 1
  /\ moUp' = FALSE
  /\ UNCHANGED <<watched, moNow, moWake, moErrors>>

\* A new process collects at once.
StartsPasses ==
  /\ ~moUp
  /\ moUp' = TRUE
  /\ moWake' = moNow
  /\ UNCHANGED <<watched, moNow, moErrors, moStops>>

TimePasses ==
  /\ moNow < MoMaxTime
  /\ moNow' = moNow + 1
  /\ UNCHANGED <<watched, moUp, moWake, moErrors, moStops>>

Elapsed(since) == moNow - since
=============================================================================
