------------------------- MODULE MonitoringSchedule -------------------------
(***************************************************************************)
(* The weekly schedule of a capture category (trackers/mod.rs, MonitoringRule): *)
(* the decision the trackers take from the local clock, and the windows the      *)
(* owner means by the rule.  An instant is a number of minutes of absolute time;  *)
(* Offset is what the time zone adds to it, more in summer than in winter.  Local  *)
(* day 0 is a Monday.  The rules share one zone here, in the code each has its own. *)
(***************************************************************************)
EXTENDS Integers

CONSTANTS
  DayLength,   \* minutes in a day: 1440
  Offset(_)    \* local time less absolute time, at an instant

Local(t) == t + Offset(t)
Day(t) == Local(t) \div DayLength
Minute(t) == Local(t) % DayLength

\* A rule whose time zone does not parse is closed at every instant.
Rule == [enabled : BOOLEAN, zone : BOOLEAN, days : SUBSET (0..6),
         start : 0..(DayLength - 1), end : 0..DayLength]

OpensOn(rule, day) == day % 7 \in rule.days

AllDay(rule) == rule.start = 0 /\ rule.end = DayLength
OneDay(rule) == rule.start < rule.end

\* Variant (mutant): the tail of a night belongs to the day it falls on.
ActiveOnDayItself(rule, t) ==
  /\ rule.enabled /\ rule.zone
  /\ OpensOn(rule, Day(t))
  /\ IF OneDay(rule) THEN rule.start <= Minute(t) /\ Minute(t) < rule.end
     ELSE rule.start <= Minute(t) \/ Minute(t) < rule.end

\* MonitoringRule::active_at, its early returns in order.  The day before is the day
\* it was 24 hours ago, not the day before on the calendar.
ActiveAt(rule, t) ==
  /\ rule.enabled /\ rule.zone
  /\ IF AllDay(rule) THEN OpensOn(rule, Day(t))
     ELSE IF OneDay(rule)
     THEN OpensOn(rule, Day(t)) /\ rule.start <= Minute(t) /\ Minute(t) < rule.end
     ELSE IF rule.start <= Minute(t) THEN OpensOn(rule, Day(t))
     ELSE Minute(t) < rule.end /\ OpensOn(rule, Day(t - DayLength))

---------------------------------------------------------------------------
(* What the owner who wrote the rule means by it: a window opens at the start
   minute of every listed day and lasts until the end minute comes round.      *)

Length(rule) == IF OneDay(rule) THEN rule.end - rule.start
                ELSE rule.end - rule.start + DayLength

Since(day, rule, t) == (Day(t) - day) * DayLength + Minute(t) - rule.start

InWindow(rule, t) ==
  /\ rule.enabled /\ rule.zone
  /\ \E day \in {Day(t) - 1, Day(t)} :
       /\ OpensOn(rule, day)
       /\ Since(day, rule, t) \in 0..(Length(rule) - 1)

\* How far the clocks were moved in the last 24 hours, and the instants at which that
\* does not matter: the minute of the day is not one that 24 hours ago lay before
\* yesterday (clocks put forward) or already in today (clocks put back).
Moved(t) == Offset(t) - Offset(t - DayLength)

Steady(rule, t) == OneDay(rule) \/ Minute(t) - Moved(t) \in 0..(DayLength - 1)

=============================================================================
