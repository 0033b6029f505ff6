--------------------------- MODULE MCScheduledLoop ---------------------------
(***************************************************************************)
(* Instances of ScheduledLoop for TLC.  A day has four ticks, and the      *)
(* offset changes by two of them, so that a change may move the clock past *)
(* or back over a scheduled time.  Day 28 is the last Monday of its month, *)
(* day 29 the first Tuesday of the next.                                   *)
(***************************************************************************)
EXTENDS ScheduledLoop

Months == <<0, 29, 60, 90, 121>>

Setting(mode, times, weekdays, week) ==
  [mode : {mode}, time : times, weekdays : {weekdays}, week : {week}, interval : {3}]

AllSettings(times) ==
  UNION {Setting("interval", {NoTime}, NoDays, 0),
         Setting("daily", times, NoDays, 0),
         Setting("weekly", times \cup {NoTime}, {1}, 0),
         Setting("twice_weekly", times, {0, 1}, 0),
         Setting("monthly", times, {1}, 1),
         Setting("monthly", times, {0}, -1)}

EverySetting == AllSettings({1, 3})

Change(t, by) == [at |-> t, change |-> by]
Scene(t, tz) == [start |-> t, zone |-> tz]

(* The offset changes on the Tuesday, on the Monday, or not at all.         *)
AllScenes ==
  {Scene(110, Change(116 + a, -2)) : a \in {2, 3, 4, -1}}
  \cup {Scene(110, Change(116 + a, 2)) : a \in {0, 1, 2, -3}}
  \cup {Scene(110, Change(0, 0))}
DayBeforeToDayAfter == 110..122
=============================================================================
