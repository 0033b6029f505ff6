------------------------------ MODULE Scheduler ------------------------------
(***************************************************************************)
(* When the next backup is due (scheduler.py, time_utils.py), and which    *)
(* schedules startup validation accepts (config_validation.py).            *)
(*                                                                         *)
(* Time is counted in ticks.  The configured time zone changes its offset  *)
(* once: a wall-clock time in the hour that is repeated belongs to two     *)
(* instants, told apart by `fold', one in the hour that is skipped to none.*)
(* Day 0 is the first of the first month.                                  *)
(***************************************************************************)
EXTENDS Integers, Sequences, FiniteSetsExt

CONSTANTS
  DayTicks,       \* ticks of a day
  MonthStarts,    \* the days on which the months begin
  NoTime,         \* SCHEDULE_BACKUP_TIME does not parse
  NoDays          \* SCHEDULE_WEEKDAYS does not parse

ASSUME TicksAssumption == DayTicks \in Nat \ {0}
ASSUME MonthsAssumption ==
  /\ MonthStarts \in Seq(Nat)
  /\ \A m \in 1..(Len(MonthStarts) - 1) :
       MonthStarts[m + 1] - MonthStarts[m] \in 28..31
  /\ \A m, n \in 1..Len(MonthStarts) : m < n => MonthStarts[m] < MonthStarts[n]
ASSUME UnparsedAssumption == NoTime \notin 0..(DayTicks - 1) /\ NoDays # {}

(* A zone is [at: the instant its offset changes, change: by how much]; the *)
(* settings are those of SCHEDULE_ after parsing.                           *)
Modes == {"interval", "daily", "weekly", "twice_weekly", "monthly"}
Weeks == 1..4 \cup {-1}    \* MONTHLY_WEEK_MAP, -1 for "last"
Settings ==
  [mode : Modes, time : 0..(DayTicks - 1) \cup {NoTime},
   weekdays : (SUBSET (0..6)) \cup {NoDays}, week : Int, interval : Int]

---------------------------------------------------------------------------
(* Local time: an aware datetime is its wall-clock time and its fold.       *)

LocalTime(zone, t) ==
  IF t < zone.at
  THEN [wall |-> t, fold |-> 0]
  ELSE [wall |-> t + zone.change,
        fold |-> IF t + zone.change < zone.at THEN 1 ELSE 0]

(* datetime.timestamp: of two instants fold 0 means the first; a skipped    *)
(* time is read with the offset before the change.                          *)
Timestamp(zone, d) ==
  LET lastBefore == IF (d.fold = 0) = (zone.change > 0)
                    THEN zone.at + zone.change ELSE zone.at
  IN  IF d.wall < lastBefore THEN d.wall ELSE d.wall - zone.change

Day(d) == d.wall \div DayTicks
Weekday(day) == day % 7

(* datetime.replace keeps the fold; adding a timedelta, even an empty one,  *)
(* makes it 0.                                                              *)
Replace(d, day, time) == [d EXCEPT !.wall = day * DayTicks + time]
Add(d, days) == [wall |-> d.wall + days * DayTicks, fold |-> 0]

Month(day) ==
  CHOOSE m \in 1..(Len(MonthStarts) - 1) : MonthStarts[m] <= day /\ day < MonthStarts[m + 1]

---------------------------------------------------------------------------
(* The next run in each calendar mode, from the local time `now'            *)

NextDaily(zone, now, time) ==
  LET target == Replace(now, Day(now), time)
  IN  Timestamp(zone, IF target.wall <= now.wall THEN Add(target, 1) ELSE target)

(* Fault: the time of day is not compared on the scheduled weekday itself.  *)
NextWeeklyLateDay(zone, now, weekday, time) ==
  LET ahead  == (weekday - Weekday(Day(now))) % 7
      target == Replace(Add(now, ahead), Day(now) + ahead, time)
  IN  Timestamp(zone, IF ahead = 0 THEN Add(target, 7) ELSE target)

NextWeekly(zone, now, weekday, time) ==
  LET ahead  == (weekday - Weekday(Day(now))) % 7
      target == Replace(Add(now, ahead), Day(now) + ahead, time)
  IN  Timestamp(zone, IF target.wall <= now.wall THEN Add(target, 7) ELSE target)

NextTwiceWeekly(zone, now, weekdays, time) ==
  Min({NextWeekly(zone, now, w, time) : w \in weekdays})

(* get_monthly_weekday_day: counted from the first of the month, or back    *)
(* from its last day.                                                       *)
MonthlyDay(m, weekday, week) ==
  LET first == MonthStarts[m]
      last  == MonthStarts[m + 1] - 1
  IN  IF week = -1 THEN last - ((last - weekday) % 7)
      ELSE first + ((weekday - first) % 7) + 7 * (week - 1)

(* The first of this month's and the two following months' days that is     *)
(* still ahead.                                                             *)
NextMonthly(zone, now, weekday, week, time) ==
  LET target(o) == Replace(now, MonthlyDay(Month(Day(now)) + o, weekday, week), time)
      ahead     == {o \in 0..2 : target(o).wall > now.wall}
  IN  IF ahead = {} THEN Timestamp(zone, now) ELSE Timestamp(zone, target(Min(ahead)))

(* get_next_run_epoch in the calendar modes, which read the clock anew; a   *)
(* time that does not parse is due at once.                                 *)
CalendarNextRun(c, zone, t) ==
  LET now == LocalTime(zone, t)
  IN  IF c.time = NoTime THEN Timestamp(zone, now)
      ELSE CASE c.mode = "daily" -> NextDaily(zone, now, c.time)
             [] c.mode \in {"weekly", "twice_weekly"} ->
                  NextTwiceWeekly(zone, now, c.weekdays, c.time)
             [] c.mode = "monthly" ->
                  NextMonthly(zone, now, CHOOSE w \in c.weekdays : TRUE,
                              c.week, c.time)

(* validate_config, the settings of the schedule.                           *)
Validated(c) ==
  /\ c.mode = "interval" => c.interval >= 1
  /\ c.mode \in {"daily", "monthly"} => c.time # NoTime
  /\ c.mode \in {"weekly", "monthly"} =>
       c.weekdays # NoDays /\ Cardinality(c.weekdays) = 1
  /\ c.mode = "twice_weekly" =>
       c.weekdays # NoDays /\ Cardinality(c.weekdays) = 2
  /\ c.mode = "monthly" => c.week \in Weeks

---------------------------------------------------------------------------
(* What a schedule means, independently of how the next run is computed     *)

(* The n-th day of its weekday in a month is in the n-th seven days of it,  *)
(* the last one in the last seven.                                          *)
InWeek(day, m, week) ==
  IF week = -1 THEN MonthStarts[m + 1] - day <= 7
  ELSE (day - MonthStarts[m]) \div 7 = week - 1

ScheduledDay(c, day) ==
  \/ c.mode = "daily"
  \/ /\ c.mode \in {"weekly", "twice_weekly"}
     /\ Weekday(day) \in c.weekdays
  \/ /\ c.mode = "monthly"
     /\ Weekday(day) \in c.weekdays
     /\ InWeek(day, Month(day), c.week)

(* The slots of some days: the scheduled local time, and the instant it     *)
(* stands for, the first of two and the shifted one of a skipped time.      *)
SlotsOf(c, zone, days) ==
  {[wall |-> d * DayTicks + c.time,
    at   |-> Timestamp(zone, [wall |-> d * DayTicks + c.time, fold |-> 0])] :
   d \in {day \in days : c.time # NoTime /\ ScheduledDay(c, day)}}

(* t is in the second pass through the repeated hour.                       *)
InRepeat(zone, t) == LocalTime(zone, t).fold = 1
=============================================================================
