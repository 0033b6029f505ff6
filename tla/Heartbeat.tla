------------------------------ MODULE Heartbeat ------------------------------
(***************************************************************************)
(* The heartbeat of main.py: a thread that touches a file, the telemetry   *)
(* it leaves in fields without a lock, the worker's check of these fields  *)
(* between its pieces of work, the end of the process, and the container's *)
(* own check of the file (healthcheck.sh).                                 *)
(*                                                                         *)
(* Every epoch is kept as an age, the ticks gone by since, up to Oldest;   *)
(* an epoch of 0.0 is Never.                                               *)
(***************************************************************************)
EXTENDS Integers

CONSTANTS
  SecondTicks,   \* ticks of a second
  Interval,      \* HEARTBEAT_TOUCH_INTERVAL_SECONDS
  MaxAges,       \* values of HEALTHCHECK_MAX_AGE_SECONDS considered
  Delay          \* how late a thread that does not hang may be, in ticks

ASSUME HeartbeatAssumption ==
  /\ SecondTicks \in Nat \ {0} /\ Interval \in Nat \ {0}
  /\ MaxAges \subseteq Nat
  /\ Delay \in Nat /\ 2 * Delay < SecondTicks

VARIABLES
  max_age_seconds,
  phase,           \* ticks of the current second gone by
  main,            \* where the main thread is
  clock_age,       \* since the check under way has read the clock
  exit_code,       \* of the worker, 5 for a failed check
  stop_event,
  writer,          \* where the heartbeat thread is
  waited,          \* how long it has been in its wait
  first_attempt, last_attempt, last_success, failing, loop_exit_reason,
  file_age         \* since the heartbeat file was touched

telemetry == <<first_attempt, last_attempt, last_success, failing, loop_exit_reason>>
mainVars == <<main, clock_age, exit_code, stop_event>>
vars == <<max_age_seconds, phase, mainVars, writer, waited, telemetry, file_age>>

Never == -1

(* Fault: any positive limit is accepted.                                   *)
ValidatedPositive(age) == age >= 1

(* validate_config.                                                         *)
Validated(age) == age >= Interval

IntervalTicks == Interval * SecondTicks
Oldest == (max_age_seconds + 1) * SecondTicks + Delay + 1
Older(age) == IF age \in {Never, Oldest} THEN age ELSE age + 1
WholeSeconds(age) == age \div SecondTicks

Working == {"dated", "touch", "touched", "clear", "failed", "log", "crashed"}
Checking == {"alive", "success", "startup"}

TypeOK ==
  /\ max_age_seconds \in MaxAges /\ max_age_seconds >= Interval
  /\ phase \in 0..(SecondTicks - 1)
  /\ main \in {"work", "finally", "join", "ended"} \cup Checking
  /\ clock_age \in 0..Delay
  /\ exit_code \in {0, 5}
  /\ stop_event \in BOOLEAN
  /\ writer \in {"attempt", "wait", "hung", "dead"} \cup Working
  /\ waited \in 0..(IntervalTicks + Delay)
  /\ \A age \in {first_attempt, last_attempt, last_success, file_age} :
       age \in {Never} \cup 0..Oldest
  /\ failing \in BOOLEAN
  /\ loop_exit_reason \in {"none", "stop_requested", "error"}

Init ==
  /\ max_age_seconds \in {a \in MaxAges : Validated(a)}
  /\ phase = 0
  /\ main = "work" /\ clock_age = 0 /\ exit_code = 0 /\ stop_event = FALSE
  /\ writer = "attempt" /\ waited = 0
  /\ first_attempt = Never /\ last_attempt = Never /\ last_success = Never
  /\ failing = FALSE /\ loop_exit_reason = "none"
  /\ file_age = Never

---------------------------------------------------------------------------
(* The heartbeat thread: run_heartbeat_loop, update_heartbeat               *)

WriterKeeps == UNCHANGED <<max_age_seconds, phase, mainVars>>

Attempt ==
  /\ writer = "attempt"
  /\ last_attempt' = 0
  /\ writer' = "dated"
  /\ UNCHANGED <<waited, first_attempt, last_success, failing, loop_exit_reason, file_age>>
  /\ WriterKeeps

(* Fault: every attempt counts as the first.                                *)
RecordEveryAttempt ==
  /\ writer = "dated"
  /\ first_attempt' = last_attempt
  /\ writer' = "touch"
  /\ UNCHANGED <<waited, last_attempt, last_success, failing, loop_exit_reason, file_age>>
  /\ WriterKeeps

RecordFirstAttempt ==
  /\ writer = "dated"
  /\ first_attempt' = IF first_attempt = Never THEN last_attempt ELSE first_attempt
  /\ writer' = "touch"
  /\ UNCHANGED <<waited, last_attempt, last_success, failing, loop_exit_reason, file_age>>
  /\ WriterKeeps

(* The directory is created and the file touched, or not, or the call does  *)
(* not return.                                                              *)
Touch ==
  /\ writer = "touch"
  /\ \/ writer' = "touched" /\ file_age' = 0
     \/ writer' = "failed" /\ UNCHANGED file_age
     \/ writer' = "hung" /\ UNCHANGED file_age
  /\ UNCHANGED <<waited, telemetry>>
  /\ WriterKeeps

(* A success is dated by the attempt's beginning.                           *)
RecordSuccess ==
  /\ writer = "touched"
  /\ last_success' = last_attempt
  /\ writer' = "clear"
  /\ UNCHANGED <<waited, first_attempt, last_attempt, failing, loop_exit_reason, file_age>>
  /\ WriterKeeps

ClearFailure ==
  /\ writer = "clear"
  /\ failing' = FALSE
  /\ writer' = "wait" /\ waited' = 0
  /\ UNCHANGED <<first_attempt, last_attempt, last_success, loop_exit_reason, file_age>>
  /\ WriterKeeps

RecordFailure ==
  /\ writer = "failed"
  /\ failing' = TRUE
  /\ writer' = "log"
  /\ UNCHANGED <<waited, first_attempt, last_attempt, last_success, loop_exit_reason, file_age>>
  /\ WriterKeeps

(* The failure is logged, in the directory that has just refused a touch;   *)
(* an error of the logger ends the loop.                                    *)
LogFailure ==
  /\ writer = "log"
  /\ \/ writer' = "wait" /\ waited' = 0 /\ UNCHANGED loop_exit_reason
     \/ writer' = "crashed" /\ loop_exit_reason' = "error" /\ UNCHANGED waited
  /\ UNCHANGED <<first_attempt, last_attempt, last_success, failing, file_age>>
  /\ WriterKeeps

(* The crash is logged, or fails to be: the thread ends.                    *)
LogCrash ==
  /\ writer = "crashed"
  /\ writer' = "dead"
  /\ UNCHANGED <<waited, telemetry, file_age>>
  /\ WriterKeeps

WaitTimesOut ==
  /\ writer = "wait"
  /\ ~stop_event
  /\ waited >= IntervalTicks
  /\ writer' = "attempt" /\ waited' = 0
  /\ UNCHANGED <<telemetry, file_age>>
  /\ WriterKeeps

WaitIsStopped ==
  /\ writer = "wait"
  /\ stop_event
  /\ loop_exit_reason' = "stop_requested"
  /\ writer' = "dead" /\ waited' = 0
  /\ UNCHANGED <<first_attempt, last_attempt, last_success, failing, file_age>>
  /\ WriterKeeps

Writer ==
  \/ Attempt \/ RecordFirstAttempt \/ Touch
  \/ RecordSuccess \/ ClearFailure
  \/ RecordFailure \/ LogFailure \/ LogCrash
  \/ WaitTimesOut \/ WaitIsStopped

---------------------------------------------------------------------------
(* The main thread: check_runtime_liveness, get_liveness_failure, and the   *)
(* `finally' of main                                                        *)

MainKeeps == UNCHANGED <<max_age_seconds, phase, waited, telemetry, file_age>>

(* The worker's loops check before and after each piece of work; the clock  *)
(* is read before any field.                                                *)
ReadClock ==
  /\ main = "work"
  /\ main' = "alive" /\ clock_age' = 0
  /\ UNCHANGED <<exit_code, stop_event, writer>>
  /\ MainKeeps

Verdict(bad) ==
  /\ main' = IF bad THEN "finally" ELSE "work"
  /\ exit_code' = IF bad THEN 5 ELSE 0
  /\ clock_age' = 0
  /\ UNCHANGED stop_event

(* What the fields say of an epoch at the time the clock was read.          *)
SecondsSince(age) == IF age < clock_age THEN 0 ELSE WholeSeconds(age - clock_age)

CheckAlive ==
  /\ main = "alive"
  /\ IF writer # "dead"
     THEN main' = "success" /\ UNCHANGED <<clock_age, exit_code, stop_event>>
     ELSE Verdict(loop_exit_reason # "stop_requested")
  /\ UNCHANGED writer
  /\ MainKeeps

(* Fault: the limit itself is already too old.                              *)
CheckSuccessStrictly ==
  /\ main = "success"
  /\ IF last_success = Never
     THEN main' = "startup" /\ UNCHANGED <<clock_age, exit_code, stop_event>>
     ELSE Verdict(SecondsSince(last_success) >= max_age_seconds)
  /\ UNCHANGED writer
  /\ MainKeeps

CheckSuccess ==
  /\ main = "success"
  /\ IF last_success = Never
     THEN main' = "startup" /\ UNCHANGED <<clock_age, exit_code, stop_event>>
     ELSE Verdict(SecondsSince(last_success) > max_age_seconds)
  /\ UNCHANGED writer
  /\ MainKeeps

(* is_startup_failure_ready.                                                *)
CheckStartup ==
  /\ main = "startup"
  /\ Verdict(/\ failing
             /\ first_attempt # Never
             /\ SecondsSince(first_attempt) > max_age_seconds)
  /\ UNCHANGED writer
  /\ MainKeeps

(* The worker has returned, or raised.                                      *)
LeaveWorker ==
  /\ main = "work"
  /\ main' = "finally"
  /\ UNCHANGED <<clock_age, exit_code, stop_event, writer>>
  /\ MainKeeps

End ==
  /\ main' = "ended" /\ writer' = "dead"
  /\ UNCHANGED <<clock_age, exit_code, stop_event>>
  /\ MainKeeps

(* The stop notification is sent; when it raises, the process ends with its *)
(* daemon thread.                                                           *)
NotifyStopped ==
  /\ main = "finally"
  /\ \/ /\ main' = "join" /\ stop_event' = TRUE
        /\ UNCHANGED <<clock_age, exit_code, writer>>
        /\ MainKeeps
     \/ End

Join ==
  /\ main = "join"
  /\ writer = "dead"
  /\ End

(* A signal.                                                                *)
Killed ==
  /\ main # "ended"
  /\ End

Main ==
  \/ ReadClock \/ CheckAlive \/ CheckSuccess \/ CheckStartup
  \/ LeaveWorker \/ NotifyStopped \/ Join

(* The container starts again; the file is left from the earlier process.   *)
Restart ==
  /\ main = "ended"
  /\ main' = "work" /\ clock_age' = 0 /\ exit_code' = 0 /\ stop_event' = FALSE
  /\ writer' = "attempt" /\ waited' = 0
  /\ first_attempt' = Never /\ last_attempt' = Never /\ last_success' = Never
  /\ failing' = FALSE /\ loop_exit_reason' = "none"
  /\ UNCHANGED <<max_age_seconds, phase, file_age>>

(* Threads that do not hang are served in time: the writer's turns take     *)
(* Delay longer than the interval at most, and so does a check.             *)
InTime ==
  /\ writer \in Working => last_attempt < Delay
  /\ writer \in {"attempt", "wait"} => last_attempt < IntervalTicks + Delay
  /\ main \in Checking => clock_age < Delay

Tick ==
  /\ InTime
  /\ phase' = (phase + 1) % SecondTicks
  /\ first_attempt' = Older(first_attempt)
  /\ last_attempt' = Older(last_attempt)
  /\ last_success' = Older(last_success)
  /\ file_age' = Older(file_age)
  /\ waited' = IF writer = "wait" THEN waited + 1 ELSE waited
  /\ clock_age' = IF main \in Checking THEN clock_age + 1 ELSE clock_age
  /\ UNCHANGED <<max_age_seconds, main, exit_code, stop_event, writer, failing,
                 loop_exit_reason>>

Next == Writer \/ Main \/ Killed \/ Restart \/ Tick

Spec == Init /\ [][Next]_vars

(* Work and checks end, touches that do not hang return, the clock goes on. *)
FairSpec == Spec /\ WF_vars(Writer) /\ WF_vars(Main) /\ WF_vars(Tick)

---------------------------------------------------------------------------
(* healthcheck.sh: both epochs are truncated before they are subtracted.    *)
ContainerAge == (file_age - phase + SecondTicks - 1) \div SecondTicks

(* Fault: the limit itself is already too old.                              *)
ContainerHealthyStrictly == file_age # Never /\ ContainerAge < max_age_seconds

ContainerHealthy == file_age # Never /\ ContainerAge <= max_age_seconds

Running == main # "ended"
Alarm == exit_code # 5 /\ exit_code' = 5

(* A punctual writer is never reported without a cause, down to the         *)
(* smallest limit that validation accepts: its last touch has failed, it    *)
(* hangs, or it is gone.                                                    *)
AlarmHasCause == [][Alarm => failing \/ writer \in {"hung", "dead"}]_vars

(* A container whose touches succeed looks healthy, if the limit exceeds    *)
(* the interval (OPERATIONS.md).  At a limit equal to it, which validation  *)
(* accepts, the truncated epochs may be a second too far apart.             *)
HealthyLooksHealthy ==
  /\ Running /\ last_success # Never
  /\ ~failing /\ writer \notin {"failed", "hung", "dead"}
  /\ max_age_seconds > Interval
  => ContainerHealthy

(* Under FairSpec: when touches go on failing, from startup or later, or    *)
(* the writer is gone, the process ends; but a writer that hangs keeps it.  *)
FailingEnds ==
  Running /\ (failing \/ writer = "dead")
    ~> ~Running \/ ~failing \/ writer = "hung"
=============================================================================
