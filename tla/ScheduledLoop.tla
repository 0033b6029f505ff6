---------------------------- MODULE ScheduledLoop ----------------------------
(***************************************************************************)
(* The scheduled loop of worker_runtime.py over real due times: the clock  *)
(* moves on between any two of its steps, also while a backup runs and     *)
(* between the decision's reading of the clock and the scheduler's own.    *)
(* Worker models what else the loop does, with due times that may come at  *)
(* any moment.                                                             *)
(***************************************************************************)
EXTENDS Scheduler

CONSTANTS
  Configs,     \* the settings considered
  Scenes,      \* when the first process starts, in which time zone
  Instants     \* the stretches of time considered

ASSUME SettingsAssumption ==
  /\ Configs \subseteq Settings
  /\ Instants \subseteq Nat
  /\ Scenes \subseteq [start : Instants, zone : [at : Nat, change : Int]]

(* No zone repeats or skips a midnight in the middle of the hour it changes.*)
ASSUME ChangeAssumption ==
  \A s \in Scenes :
    IF s.zone.change <= 0
    THEN (s.zone.at + s.zone.change) \div DayTicks
           = (s.zone.at - 1) \div DayTicks \/ s.zone.change = 0
    ELSE s.zone.at \div DayTicks
           = (s.zone.at + s.zone.change - 1) \div DayTicks

VARIABLES
  config, zone,     \* the schedule and the time zone of this container
  now,              \* the clock
  pc,
  now_epoch,        \* the turn's reading of the clock, until it is used
  next_run,         \* NEXT_RUN_EPOCH
  backup_requested,
  settled           \* the instant the next run was computed from

timeVars == <<config, zone>>
loopVars == <<now_epoch, next_run, backup_requested>>
vars == <<timeVars, now, pc, loopVars, settled>>

Never == -1
Calendar == config.mode # "interval"
Zones == {s.zone : s \in Scenes}
(* What a local calendar shows at some instant, by either offset.           *)
Days == UNION {((t \div DayTicks) - 1)..((t \div DayTicks) + 1) : t \in Instants}
CalendarConfigs == {c \in Configs : Validated(c) /\ c.mode # "interval"}

(* Both are tabulated for the settings and instants considered.             *)
NextRun ==
  [c \in CalendarConfigs |-> [z \in Zones |-> [t \in Instants |-> CalendarNextRun(c, z, t)]]]
SlotTimes == [c \in CalendarConfigs |-> [z \in Zones |-> SlotsOf(c, z, Days)]]

(* Each of these days is in a month, and two more are known after it.       *)
ASSUME CalendarAssumption ==
  \A d \in Days : \E m \in 1..(Len(MonthStarts) - 3) :
    MonthStarts[m] <= d /\ d < MonthStarts[m + 1]

(* get_next_run_epoch: an interval counts from the turn's reading of the    *)
(* clock, a calendar mode reads it once more.                               *)
GetNextRun(nowEpoch, t) ==
  IF Calendar THEN NextRun[config][zone][t] ELSE nowEpoch + config.interval

TypeOK ==
  /\ Validated(config)
  /\ zone.at \in Nat /\ zone.change \in Int
  /\ now \in Instants
  /\ pc \in {"down", "loop", "recompute", "gates", "backup"}
  /\ now_epoch \in Instants \cup {Never}
  /\ next_run \in Int
  /\ backup_requested \in BOOLEAN
  /\ settled \in Instants \cup {Never}

Init ==
  /\ config \in {c \in Configs : Validated(c)}
  /\ \E s \in Scenes : now = s.start /\ zone = s.zone
  /\ pc = "down"
  /\ now_epoch = Never
  /\ next_run = Never
  /\ backup_requested = FALSE
  /\ settled = Never

(* The process reaches the loop: an interval schedule is due at once.       *)
EnterLoop ==
  /\ pc = "down"
  /\ pc' = "loop"
  /\ next_run' = IF Calendar THEN GetNextRun(now, now) ELSE now
  /\ settled' = IF Calendar THEN now ELSE Never
  /\ UNCHANGED <<timeVars, now, now_epoch, backup_requested>>

(* A backup command among those of this turn's batch.                       *)
HandleBackup ==
  /\ pc = "loop"
  /\ ~backup_requested
  /\ backup_requested' = TRUE
  /\ UNCHANGED <<timeVars, now, pc, now_epoch, next_run, settled>>

(* Fault: the clock is not read anew.                                       *)
DecideByOldClock ==
  /\ pc = "loop"
  /\ pc' = IF now_epoch >= next_run \/ backup_requested THEN "recompute" ELSE "loop"
  /\ UNCHANGED <<timeVars, now, loopVars, settled>>

(* Fault: the due time is kept in place of the clock's reading.             *)
DecideKeepsDueTime ==
  /\ pc = "loop"
  /\ now_epoch' = next_run
  /\ pc' = IF now >= next_run \/ backup_requested THEN "recompute" ELSE "loop"
  /\ UNCHANGED <<timeVars, now, next_run, backup_requested, settled>>

(* The clock is read; a turn with nothing to do sleeps and starts anew.     *)
Decide ==
  /\ pc = "loop"
  /\ now_epoch' = now
  /\ pc' = IF now >= next_run \/ backup_requested THEN "recompute" ELSE "loop"
  /\ UNCHANGED <<timeVars, now, next_run, backup_requested, settled>>

(* Fault: a requested backup leaves the due time as it is.                  *)
RecomputeDueOnly ==
  /\ pc = "recompute"
  /\ pc' = "gates"
  /\ next_run' = IF backup_requested THEN next_run ELSE GetNextRun(now_epoch, now)
  /\ settled' = IF Calendar THEN now ELSE now_epoch
  /\ now_epoch' = Never
  /\ UNCHANGED <<timeVars, now, backup_requested>>

(* The next run is fixed before anything is known of this one.              *)
Recompute ==
  /\ pc = "recompute"
  /\ pc' = "gates"
  /\ next_run' = GetNextRun(now_epoch, now)
  /\ settled' = IF Calendar THEN now ELSE now_epoch
  /\ now_epoch' = Never
  /\ UNCHANGED <<timeVars, now, backup_requested>>

(* No authentication, a pending one, or the safety net.                     *)
SkipBackup ==
  /\ pc = "gates"
  /\ pc' = "loop"
  /\ backup_requested' = FALSE
  /\ UNCHANGED <<timeVars, now, now_epoch, next_run, settled>>

StartBackup ==
  /\ pc = "gates"
  /\ pc' = "backup"
  /\ UNCHANGED <<timeVars, now, loopVars, settled>>

FinishBackup ==
  /\ pc = "backup"
  /\ pc' = "loop"
  /\ backup_requested' = FALSE
  /\ UNCHANGED <<timeVars, now, now_epoch, next_run, settled>>

(* The process dies, or ends itself as unhealthy, and its variables with it;*)
(* the container starts it again.                                           *)
Restart ==
  /\ pc # "down"
  /\ pc' = "down"
  /\ now_epoch' = Never
  /\ next_run' = Never
  /\ settled' = Never
  /\ backup_requested' = FALSE
  /\ UNCHANGED <<timeVars, now>>

Tick ==
  /\ now + 1 \in Instants
  /\ now' = now + 1
  /\ UNCHANGED <<timeVars, pc, loopVars, settled>>

Process ==
  \/ EnterLoop
  \/ Decide
  \/ Recompute
  \/ SkipBackup
  \/ StartBackup
  \/ FinishBackup

Next == Process \/ HandleBackup \/ Restart \/ Tick

Spec == Init /\ [][Next]_vars

(* The loop's sleeps and a backup end, and the clock goes on.               *)
FairSpec == Spec /\ WF_vars(Process) /\ WF_vars(Tick)

---------------------------------------------------------------------------
Running == pc # "down"

(* The slots in (after, until] that were not behind already by the local    *)
(* clock of `after': when the clock has skipped a time, that slot is over,  *)
(* though its instant is still to come.                                     *)
Slots(after, until) ==
  {s \in SlotTimes[config][zone] :
     s.at \in (after + 1)..until /\ LocalTime(zone, after).wall < s.wall}

(* No slot is passed over, whatever ran or was requested around it: one the *)
(* clock has reached since the next run was computed is due at the next     *)
(* look.                                                                    *)
NoSlotMissed ==
  Running /\ Calendar => \A s \in Slots(settled, now) : next_run <= s.at

(* A backup nobody asked for has a reason: since the last turn that went to *)
(* the gates a slot has come, or the interval has gone by.                  *)
Justified ==
  IF Calendar
  THEN \E s \in SlotTimes[config][zone] : s.at \in (settled + 1)..now
  ELSE settled = Never \/ now >= settled + config.interval

ScheduledTurn == pc = "recompute" /\ pc' = "gates" /\ ~backup_requested

(* The next run was computed in the second pass through the repeated hour,  *)
(* for a time of that hour.                                                 *)
ForRepeatedHour == InRepeat(zone, settled) /\ next_run < zone.at - zone.change

(* "daily, weekly, twice-weekly, and monthly modes stay pinned to the next  *)
(* valid calendar slot" (SCHEDULING.md): no backup starts by schedule twice *)
(* for one slot, before its slot, or more often than the interval.  Exempt  *)
(* is a run for the repeated hour computed in it, by a manual run or a      *)
(* restart: daily and monthly serve the slot of the first pass once more,   *)
(* the weekly modes take the pass for the first and are due at once.  Nor   *)
(* is a weekly schedule pinned to a time that does not parse, which is not  *)
(* refused.                                                                 *)
StaysPinnedOutsideRepeat ==
  [][/\ ScheduledTurn
     /\ Calendar => config.time # NoTime /\ ~ForRepeatedHour
     => Justified]_vars

(* Under FairSpec, a due run is taken to the gates, however late, unless    *)
(* the process ends.  With NoSlotMissed: every slot is served.              *)
DueRunTaken == Running /\ now >= next_run ~> ~Running \/ pc = "gates"
=============================================================================
