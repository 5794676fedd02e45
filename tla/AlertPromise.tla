---------------------------- MODULE AlertPromise ----------------------------
(***************************************************************************)
(* What the alert pipeline owes its users, whatever it queues, buffers or  *)
(* groups on the way: an alert that is raised is discarded at once, for a  *)
(* reason, or it is owed to chat; what is owed is told once, or lost, and  *)
(* nothing else is ever told.                                              *)
(***************************************************************************)
EXTENDS Naturals

CONSTANT Alerts

VARIABLES status,       \* what has become of each alert
          heard         \* how often chat has heard of it

vars == <<status, heard>>

Statuses == {"unraised", "owed", "discarded", "told", "lost"}

Init ==
  /\ status = [a \in Alerts |-> "unraised"]
  /\ heard = [a \in Alerts |-> 0]

Move(S, to) == status' = [a \in Alerts |-> IF a \in S THEN to ELSE status[a]]

Raise(a) ==
  /\ status[a] = "unraised"
  /\ \E to \in {"owed", "discarded"} : Move({a}, to)
  /\ UNCHANGED heard

\* One message of chat tells of one alert, or of several of them at once.
Tell(S) ==
  /\ \A a \in S : status[a] = "owed"
  /\ Move(S, "told")
  /\ heard' = [a \in Alerts |-> IF a \in S THEN heard[a] + 1 ELSE heard[a]]

Lose(S) ==
  /\ \A a \in S : status[a] = "owed"
  /\ Move(S, "lost")
  /\ UNCHANGED heard

Next ==
  \/ \E a \in Alerts : Raise(a)
  \/ \E S \in SUBSET Alerts : Tell(S) \/ Lose(S)

Spec == Init /\ [][Next]_vars

\* What is owed does not stay owed.
Settled == \A a \in Alerts : status[a] = "owed" ~> status[a] \in {"told", "lost"}
=============================================================================
