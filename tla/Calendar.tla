------------------------------ MODULE Calendar ------------------------------
(***************************************************************************)
(* Instants, local days and payroll periods (DateUtil and the helpers of   *)
(* CronTasksService).  An instant is a number of minutes since the start   *)
(* of day 0 in UTC; a day is a number.  The time zone data base is that of *)
(* the platform: a zone is its offset from UTC, in minutes, and one change *)
(* of it.                                                                  *)
(***************************************************************************)
EXTENDS Integers

DayMinutes == 1440

\* The clocks of the world differ from UTC by less than a day.
Offsets == 1 - DayMinutes .. DayMinutes - 1

ZoneSet == [before : Offsets, at : Int, after : Offsets]

Offset(z, m) == IF m < z.at THEN z.before ELSE z.after

\* toZonedTime
ToZoned(z, m) == m + Offset(z, m)

\* fromZonedTime of date-fns-tz: the offset is guessed at the local time as if it
\* were UTC, and corrected twice.
FromZoned(z, l) ==
  LET o1 == Offset(z, l)
      o2 == Offset(z, l - o1)
      o3 == Offset(z, l - o2)
  IN  CASE o1 = o2 -> l - o1
        [] o1 # o2 /\ o2 = o3 -> l - o2
        [] o1 # o2 /\ o2 # o3 -> l - (IF o2 > o3 THEN o2 ELSE o3)

\* The instants at which the clock shows the local time l: none where it is put
\* forward, two where it is put back.
Showing(z, l) == {m \in {l - z.before, l - z.after} : ToZoned(z, m) = l}

\* A plausible slip: the day in UTC.
WorkDateUtc(z, m) == m \div DayMinutes

\* determineWorkDate
WorkDate(z, m) == ToZoned(z, m) \div DayMinutes

\* getHourInTimezone, but for the way midnight is written.
HourIn(z, m) == (ToZoned(z, m) % DayMinutes) \div 60

\* getYesterdayDateString
Yesterday(z, m) == WorkDate(z, m) - 1

\* getPayrollPeriodUtcBounds of the month that has the days first .. last.
PeriodStart(z, first) == FromZoned(z, first * DayMinutes)
PeriodEnd(z, last) == FromZoned(z, last * DayMinutes + DayMinutes - 1)

InPeriod(z, first, last, m) == m \in PeriodStart(z, first) .. PeriodEnd(z, last)
=============================================================================
