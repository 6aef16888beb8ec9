------------------------------- MODULE DateTime -------------------------------
(***************************************************************************)
(* The conversion of a SystemTime to a date and time of day that           *)
(* tracing-subscriber does itself (fmt/time/datetime.rs).  Times are       *)
(* seconds and nanoseconds from the Unix epoch; days are counted from      *)
(* 2000-03-01, the day after a leap day that ends a cycle of 400 years.    *)
(***************************************************************************)
EXTENDS Integers, Sequences

\* Rust's / and % on signed integers truncate towards zero.
Quot(a, b) == IF a >= 0 THEN a \div b ELSE -((-a) \div b)
Rem(a, b) == a - b * Quot(a, b)

\* duration_since: an instant before the epoch is given by its distance.
Instant(before, secs, nanos) == [before |-> before, secs |-> secs, nanos |-> nanos]

SinceEpoch(i) ==
  IF ~i.before THEN [t |-> i.secs, nanos |-> i.nanos]
  ELSE IF i.nanos = 0 THEN [t |-> -i.secs, nanos |-> 0]
  ELSE [t |-> -i.secs - 1, nanos |-> 1000000000 - i.nanos]

\* LEAPOCH / 86_400.
LeapochDays == 11017

SplitDay(t) ==
  LET days == Quot(t, 86400) - LeapochDays
      remsecs == Rem(t, 86400)
  IN  IF remsecs < 0 THEN [days |-> days - 1, remsecs |-> remsecs + 86400]
      ELSE [days |-> days, remsecs |-> remsecs]

DaysPer400Y == 146097
DaysPer100Y == 36524
DaysPer4Y == 1461

\* The days of the year, which begins in March, before its month m.
DaysBefore == <<0, 31, 61, 92, 122, 153, 184, 214, 245, 275, 306, 337>>

\* The loop over DAYS_IN_MONTH stops at the month that remdays falls in.
Months(remdays) ==
  CHOOSE m \in 0 .. 11 : /\ DaysBefore[m + 1] <= remdays
                         /\ m = 11 \/ remdays < DaysBefore[m + 2]

Least(a, b) == IF a <= b THEN a ELSE b

\* Mutant: the quotient by 100 years is not limited.
CycleNoClamp(days) ==
  LET c == days \div DaysPer100Y
      inC == days - c * DaysPer100Y
      q == Least(inC \div DaysPer4Y, 24)
      inQ == inC - q * DaysPer4Y
      y == Least(inQ \div 365, 3)
  IN  [years |-> y + 4 * q + 100 * c, remdays |-> inQ - 365 * y]

\* The years of a cycle and the day of the last of them.  A cycle's last part has
\* a day more than the others, so that its quotient is one too large on that day.
Cycle(days) ==
  LET c == Least(days \div DaysPer100Y, 3)
      inC == days - c * DaysPer100Y
      q == Least(inC \div DaysPer4Y, 24)
      inQ == inC - q * DaysPer4Y
      y == Least(inQ \div 365, 3)
  IN  [years |-> y + 4 * q + 100 * c, remdays |-> inQ - 365 * y]

\* The cycle of 400 years that a day is in, and its place there.
InCycle(days) ==
  LET cycles == Quot(days, DaysPer400Y)
      remdays == Rem(days, DaysPer400Y)
  IN  IF remdays < 0 THEN [cycles |-> cycles - 1, remdays |-> remdays + DaysPer400Y]
      ELSE [cycles |-> cycles, remdays |-> remdays]

\* From March to the calendar's months.
Date(years, remdays) ==
  LET m == Months(remdays)
      late == m >= 10
  IN  [year |-> (IF late THEN years + 1 ELSE years) + 2000,
       month |-> (IF late THEN m - 12 ELSE m) + 3,
       day |-> remdays - DaysBefore[m + 1] + 1]

Civil(days) ==
  LET in == InCycle(days)
      c == Cycle(in.remdays)
  IN  Date(c.years + 400 * in.cycles, c.remdays)

TimeOfDay(remsecs) ==
  [hour |-> remsecs \div 3600, minute |-> (remsecs \div 60) % 60, second |-> remsecs % 60]

-----------------------------------------------------------------------------
(* The Gregorian calendar                                                  *)

Leap(year) == year % 4 = 0 /\ (year % 100 # 0 \/ year % 400 = 0)

DaysIn(year, month) ==
  IF month = 2 THEN (IF Leap(year) THEN 29 ELSE 28)
  ELSE IF month \in {4, 6, 9, 11} THEN 30 ELSE 31

Tomorrow(d) ==
  IF d.day < DaysIn(d.year, d.month) THEN [d EXCEPT !.day = @ + 1]
  ELSE IF d.month < 12 THEN [year |-> d.year, month |-> d.month + 1, day |-> 1]
  ELSE [year |-> d.year + 1, month |-> 1, day |-> 1]

\* DateTime::from follows the Gregorian calendar: each day is the day after the
\* one before it, across the ends of months, leap years, centuries and the cycles
\* of 400 years before and after 2000; and the first is 1970-01-01.
CalendarFollowed(days) ==
  /\ Civil(days + 1) = Tomorrow(Civil(days))
  /\ Civil(-LeapochDays) = [year |-> 1970, month |-> 1, day |-> 1]

\* The time of day and the day make up the instant again, also for an instant
\* before the epoch with or without a fraction of a second.
InstantKept(i) ==
  LET s == SinceEpoch(i)
      d == SplitDay(s.t)
      c == TimeOfDay(d.remsecs)
  IN  /\ s.nanos \in 0 .. 999999999 /\ c.hour \in 0 .. 23
      /\ (d.days + LeapochDays) * 86400 + c.hour * 3600 + c.minute * 60 + c.second = s.t
      /\ IF i.before THEN IF i.nanos = 0 THEN s = [t |-> -i.secs, nanos |-> 0]
                          ELSE (-s.t - i.secs) = 1 /\ s.nanos + i.nanos = 1000000000
         ELSE s = [t |-> i.secs, nanos |-> i.nanos]
=============================================================================
