----------------------------- MODULE QuietHours -----------------------------
(***************************************************************************)
(* The arithmetic of alerts/quiet_hours.py.  A time of day is a number of  *)
(* ticks since midnight UTC, 0 .. DayLen-1; the program's tick is a        *)
(* microsecond and the configured bounds fall on minutes, but nothing in   *)
(* the comparisons depends on the size of the tick.  A window is the pair  *)
(* of times of day <<s, e>> that parse_quiet_hours_window returns.         *)
(***************************************************************************)
EXTENDS Integers

CONSTANT DayLen         \* ticks in a day

ASSUME DayLenAssumption == DayLen \in Nat \ {0}

TimeOfDay == 0 .. DayLen - 1

\* The wall clock wraps at midnight.
NextTime(t) == IF t + 1 = DayLen THEN 0 ELSE t + 1

\* QuietHoursWindow.is_active: equal bounds mean "always", and a window that
\* starts after it ends spans midnight.
IsActive(t, s, e) ==
  \/ s = e
  \/ s < e /\ s <= t /\ t < e
  \/ e < s /\ (s <= t \/ t < e)

\* Mutant: a window that spans midnight always ends today.
QuietHoursEndToday(t, s, e) ==
  LET rollsOver == s <= e /\ e <= t
  IN  IF rollsOver THEN e + DayLen ELSE e

\* quiet_hours_end, as ticks since today's midnight: a result of DayLen or
\* more is a time tomorrow.
QuietHoursEnd(t, s, e) ==
  LET rollsOver == \/ s = e /\ e <= t
                   \/ s < e /\ e <= t
                   \/ e < s /\ s <= t
  IN  IF rollsOver THEN e + DayLen ELSE e

\* The sleep that _ensure_quiet_alert_flush_scheduled asks for:
\* max(0.0, quiet_ends - now).
FlushDelay(t, s, e) ==
  LET left == QuietHoursEnd(t, s, e) - t
  IN  IF left > 0 THEN left ELSE 0
=============================================================================
