------------------------- MODULE HousekeepingProofs -------------------------
(***************************************************************************)
(* Proofs about what goes on beside the backups: that a punctual heartbeat *)
(* is not taken for a failed one, neither by the worker nor by the         *)
(* container; the size of the log file, and how long its lines are kept.   *)
(***************************************************************************)
EXTENDS Heartbeat, LogRotation, TLAPS


---------------------------------------------------------------------------
(* Seconds and ticks                                                        *)

LEMMA WholeSecondsBound ==
  ASSUME NEW S \in Nat \ {0}, NEW I \in Nat, NEW x \in Nat, x < I * S + S
  PROVE  x \div S <= I
BY SMT

LEMMA LimitInTicks ==
  ASSUME NEW S \in Nat \ {0}, NEW I \in Nat, NEW M \in Nat, M >= I
  PROVE  I * S \in Nat /\ (M + 1) * S >= I * S + S
BY SMT

LEMMA Ticks ==
  ASSUME TypeOK
  PROVE  /\ IntervalTicks \in Nat /\ SecondTicks \in Nat /\ Delay \in Nat
         /\ 2 * Delay < SecondTicks
         /\ Oldest \in Nat /\ Oldest > IntervalTicks + SecondTicks + Delay
<1>1. max_age_seconds \in Nat /\ max_age_seconds >= Interval
  BY HeartbeatAssumption DEF TypeOK
<1>2. /\ IntervalTicks \in Nat
      /\ (max_age_seconds + 1) * SecondTicks >= IntervalTicks + SecondTicks
  BY <1>1, LimitInTicks, HeartbeatAssumption DEF IntervalTicks
<1> QED BY <1>1, <1>2, HeartbeatAssumption DEF Oldest

---------------------------------------------------------------------------
(* Types, and how old the writer's last attempt may be.                     *)
TypeInv ==
  /\ TypeOK
  /\ writer \in Working => last_attempt \in 0..Delay
  /\ writer \in {"attempt", "wait"} =>
       last_attempt \in {Never} \cup 0..(IntervalTicks + Delay)
  /\ writer = "wait" => waited <= last_attempt

(* What a success says: the file is no older, and unless touches fail the   *)
(* success is that of the last attempt or of the one before.                *)
SuccessInv ==
  /\ last_success # Never => file_age # Never /\ file_age <= last_success
  /\ writer = "touched" => file_age # Never /\ file_age <= last_attempt
  /\ writer = "clear" => last_success = last_attempt
  /\ writer \in {"log", "crashed"} => failing
  /\ ~failing /\ last_success # Never =>
       /\ writer \in {"attempt", "wait"} => last_success = last_attempt
       /\ writer \in {"dated", "touch", "touched", "failed"} =>
            last_success <= IntervalTicks + Delay + last_attempt

LEMMA InitInvs == Init => TypeInv /\ SuccessInv
<1> SUFFICES ASSUME Init PROVE TypeInv /\ SuccessInv OBVIOUS
<1>1. max_age_seconds \in MaxAges /\ max_age_seconds >= Interval
  BY DEF Init, Validated
<1>2. IntervalTicks \in Nat BY HeartbeatAssumption, LimitInTicks DEF IntervalTicks
<1>3. TypeOK
  <2>1. waited \in 0..(IntervalTicks + Delay) /\ clock_age \in 0..Delay
        /\ phase \in 0..(SecondTicks - 1)
    BY <1>2, HeartbeatAssumption DEF Init
  <2> QED BY <1>1, <2>1 DEF Init, TypeOK
<1> QED
  BY <1>2, <1>3 DEF Init, TypeInv, SuccessInv, Working

---------------------------------------------------------------------------
(* A step of the writer                                                     *)

LEMMA WriterStep == TypeInv /\ SuccessInv /\ Writer => TypeInv' /\ SuccessInv'
<1> SUFFICES ASSUME TypeInv, SuccessInv, Writer PROVE TypeInv' /\ SuccessInv' OBVIOUS
<1> USE HeartbeatAssumption
<1>T. /\ IntervalTicks \in Nat /\ Delay \in Nat /\ SecondTicks \in Nat
      /\ Oldest \in Nat /\ Oldest > IntervalTicks + SecondTicks + Delay
  BY Ticks DEF TypeInv
<1>K. WriterKeeps
  BY DEF Writer, Attempt, RecordFirstAttempt, Touch, RecordSuccess, ClearFailure,
         RecordFailure, LogFailure, LogCrash, WaitTimesOut, WaitIsStopped
<1>O. Oldest' = Oldest BY <1>K DEF WriterKeeps, Oldest
<1> USE DEF TypeInv, TypeOK, SuccessInv, WriterKeeps, mainVars, telemetry, Working, Checking, Never
<1>1. CASE Attempt
  <2>1. TypeInv' BY <1>1, <1>T, <1>O DEF Attempt
  <2>2. SuccessInv' BY <1>1, <1>T DEF Attempt
  <2> QED BY <2>1, <2>2
<1>10. CASE RecordFirstAttempt
  <2>1. last_attempt \in 0..Delay BY <1>10 DEF RecordFirstAttempt
  <2>2. first_attempt' \in {Never} \cup 0..Oldest BY <1>10, <2>1, <1>T DEF RecordFirstAttempt
  <2>3. TypeInv' BY <1>10, <2>1, <2>2, <1>T, <1>O DEF RecordFirstAttempt
  <2>4. SuccessInv' BY <1>10, <1>T DEF RecordFirstAttempt
  <2> QED BY <2>3, <2>4
<1>2. CASE Touch BY <1>2, <1>T, <1>O DEF Touch
<1>3. CASE RecordSuccess BY <1>3, <1>T, <1>O DEF RecordSuccess
<1>4. CASE ClearFailure
  <2>1. waited' \in 0..(IntervalTicks + Delay) BY <1>4, <1>T DEF ClearFailure
  <2>2. TypeInv'
    <3>1. last_attempt \in 0..Delay BY <1>4 DEF ClearFailure
    <3>2. last_attempt' \in 0..(IntervalTicks + Delay) /\ waited' <= last_attempt'
      BY <1>4, <1>T, <3>1 DEF ClearFailure
    <3>3. TypeOK' BY <1>4, <1>O, <2>1 DEF ClearFailure
    <3> QED BY <1>4, <3>2, <3>3 DEF ClearFailure
  <2>3. SuccessInv' BY <1>4, <1>T DEF ClearFailure
  <2> QED BY <2>2, <2>3
<1>5. CASE RecordFailure BY <1>5, <1>T, <1>O DEF RecordFailure
<1>6. CASE LogFailure BY <1>6, <1>T, <1>O DEF LogFailure
<1>7. CASE LogCrash BY <1>7, <1>T, <1>O DEF LogCrash
<1>8. CASE WaitTimesOut BY <1>8, <1>T, <1>O DEF WaitTimesOut
<1>9. CASE WaitIsStopped BY <1>9, <1>T, <1>O DEF WaitIsStopped
<1> QED BY <1>1, <1>2, <1>3, <1>4, <1>5, <1>6, <1>7, <1>8, <1>9, <1>10 DEF Writer

---------------------------------------------------------------------------
(* A step of the main thread, and the end of the process                    *)

LEMMA MainStep ==
  TypeInv /\ SuccessInv /\ (Main \/ Killed) => TypeInv' /\ SuccessInv'
<1> SUFFICES ASSUME TypeInv, SuccessInv, Main \/ Killed PROVE TypeInv' /\ SuccessInv' OBVIOUS
<1>1. MainKeeps /\ writer' \in {writer, "dead"}
  BY DEF Main, Killed, End, ReadClock, CheckAlive, CheckSuccess, CheckStartup, LeaveWorker,
         NotifyStopped, Join
<1>2. /\ main' \in {"work", "finally", "join", "ended"} \cup Checking
      /\ clock_age' \in 0..Delay
      /\ exit_code' \in {0, 5} /\ stop_event' \in BOOLEAN
  <2> USE HeartbeatAssumption DEF Checking, TypeInv, TypeOK
  <2>1. CASE ReadClock \/ LeaveWorker BY <2>1 DEF ReadClock, LeaveWorker
  <2>2. CASE CheckAlive BY <2>2 DEF CheckAlive, Verdict
  <2>3. CASE CheckSuccess BY <2>3 DEF CheckSuccess, Verdict
  <2>4. CASE CheckStartup BY <2>4 DEF CheckStartup, Verdict
  <2>5. CASE NotifyStopped \/ Join \/ Killed BY <2>5 DEF NotifyStopped, Join, Killed, End
  <2> QED BY <2>1, <2>2, <2>3, <2>4, <2>5 DEF Main
<1>3. Oldest' = Oldest BY <1>1 DEF MainKeeps, Oldest
<1>4. TypeInv'
  BY <1>1, <1>2, <1>3 DEF MainKeeps, telemetry, TypeInv, TypeOK, Working, Checking
<1>5. SuccessInv'
  BY <1>1 DEF MainKeeps, telemetry, SuccessInv
<1> QED BY <1>4, <1>5

LEMMA RestartStep == TypeInv /\ SuccessInv /\ Restart => TypeInv' /\ SuccessInv'
<1> SUFFICES ASSUME TypeInv, SuccessInv, Restart PROVE TypeInv' /\ SuccessInv' OBVIOUS
<1>1. IntervalTicks \in Nat /\ Delay \in Nat BY Ticks DEF TypeInv
<1>2. Oldest' = Oldest BY DEF Restart, Oldest
<1>3. waited' \in 0..(IntervalTicks + Delay) /\ clock_age' \in 0..Delay
  BY <1>1 DEF Restart
<1>4. TypeOK' BY <1>2, <1>3 DEF Restart, TypeInv, TypeOK
<1> QED BY <1>4 DEF Restart, TypeInv, SuccessInv, Working

---------------------------------------------------------------------------
(* Time goes by                                                             *)

LEMMA TickStep == TypeInv /\ SuccessInv /\ Tick => TypeInv' /\ SuccessInv'
<1> SUFFICES ASSUME TypeInv, SuccessInv, Tick PROVE TypeInv' /\ SuccessInv' OBVIOUS
<1>T. /\ IntervalTicks \in Nat /\ Delay \in Nat /\ SecondTicks \in Nat \ {0}
      /\ Oldest \in Nat /\ Oldest > IntervalTicks + SecondTicks + Delay
  BY Ticks, HeartbeatAssumption DEF TypeInv
<1>O. Oldest' = Oldest BY DEF Tick, Oldest
<1>1. \A age \in {Never} \cup 0..Oldest :
        /\ Older(age) \in {Never} \cup 0..Oldest
        /\ Older(age) = Never <=> age = Never
        /\ age \in 0..(Oldest - 1) => Older(age) = age + 1
        /\ Older(age) <= age + 1
  BY <1>T DEF Older, Never
<1>2. \A a, b \in 0..Oldest : a <= b => Older(a) <= Older(b)
  BY <1>T DEF Older, Never
<1>3. /\ first_attempt' = Older(first_attempt) /\ last_attempt' = Older(last_attempt)
      /\ last_success' = Older(last_success) /\ file_age' = Older(file_age)
      /\ UNCHANGED <<max_age_seconds, main, exit_code, stop_event, writer, failing,
                     loop_exit_reason>>
  BY DEF Tick
<1>4. {first_attempt, last_attempt, last_success, file_age} \subseteq {Never} \cup 0..Oldest
  BY DEF TypeInv, TypeOK
<1>5. /\ writer \in Working => last_attempt \in 0..(Delay - 1)
      /\ writer \in {"attempt", "wait"} =>
           last_attempt \in {Never} \cup 0..(IntervalTicks + Delay - 1)
  BY <1>T DEF Tick, InTime, TypeInv, Never
<1>6. /\ writer \in Working => last_attempt' = last_attempt + 1
      /\ writer \in {"attempt", "wait"} /\ last_attempt # Never => last_attempt' = last_attempt + 1
  BY <1>1, <1>3, <1>5, <1>T
<1>7. phase' \in 0..(SecondTicks - 1)
  BY <1>T DEF Tick, TypeInv, TypeOK
<1>8. clock_age' \in 0..Delay
  BY <1>T DEF Tick, InTime, TypeInv, TypeOK
<1>9. writer = "wait" => last_attempt # Never /\ waited' = waited + 1
  BY <1>T DEF Tick, TypeInv, TypeOK, Never
<1>10. waited' \in 0..(IntervalTicks + Delay)
  BY <1>5, <1>9, <1>T DEF Tick, TypeInv, TypeOK, Never
<1>11. TypeOK'
  BY <1>1, <1>3, <1>4, <1>7, <1>8, <1>10, <1>O DEF TypeInv, TypeOK
<1>12. TypeInv'
  BY <1>1, <1>3, <1>5, <1>6, <1>9, <1>11, <1>T DEF TypeInv, TypeOK, Never
<1>13. /\ last_success' # Never => last_success # Never /\ last_success' <= last_success + 1
       /\ file_age # Never => file_age' # Never
       /\ last_success # Never /\ file_age # Never /\ file_age <= last_success
            => file_age' <= last_success'
       /\ last_attempt # Never /\ file_age # Never /\ file_age <= last_attempt
            => file_age' <= last_attempt'
       /\ last_success = last_attempt => last_success' = last_attempt'
  BY <1>1, <1>2, <1>3, <1>4
<1>14. SuccessInv'
  <2>1. /\ last_success' # Never => file_age' # Never /\ file_age' <= last_success'
        /\ writer' = "touched" => file_age' # Never /\ file_age' <= last_attempt'
        /\ writer' = "clear" => last_success' = last_attempt'
        /\ writer' \in {"log", "crashed"} => failing'
    BY <1>3, <1>5, <1>13, <1>T DEF SuccessInv, Working, Never
  <2>2. ASSUME ~failing', last_success' # Never
        PROVE  /\ writer' \in {"attempt", "wait"} => last_success' = last_attempt'
               /\ writer' \in {"dated", "touch", "touched", "failed"} =>
                    last_success' <= IntervalTicks + Delay + last_attempt'
    <3>1. CASE writer \in {"dated", "touch", "touched", "failed"}
      <4>1. last_success <= IntervalTicks + Delay + last_attempt
        BY <1>3, <1>13, <2>2, <3>1 DEF SuccessInv
      <4>2. last_attempt' = last_attempt + 1 /\ last_attempt \in Nat
        BY <1>5, <1>6, <1>T, <3>1 DEF Working
      <4>3. last_success' <= last_success + 1 /\ last_success \in Nat /\ last_success' \in Int
        BY <1>1, <1>3, <1>4, <1>13, <1>T, <2>2 DEF Never
      <4> QED BY <1>3, <1>T, <3>1, <4>1, <4>2, <4>3
    <3> QED BY <1>3, <1>13, <2>2, <3>1 DEF SuccessInv
  <2> QED BY <2>1, <2>2 DEF SuccessInv
<1> QED BY <1>12, <1>14

LEMMA NextInvs == TypeInv /\ SuccessInv /\ [Next]_vars => TypeInv' /\ SuccessInv'
<1>1. TypeInv /\ SuccessInv /\ UNCHANGED vars => TypeInv' /\ SuccessInv'
  BY DEF vars, mainVars, telemetry, TypeInv, TypeOK, SuccessInv, Oldest
<1> QED BY <1>1, WriterStep, MainStep, RestartStep, TickStep DEF Next

LEMMA InvsAlways == Spec => [](TypeInv /\ SuccessInv)
BY InitInvs, NextInvs, PTL DEF Spec

---------------------------------------------------------------------------
(* Every variable of the heartbeat keeps its type, for every interval,      *)
(* limit and delay; a wait is never longer than the interval and the delay  *)
(* of the thread (run_heartbeat_loop).                                      *)
THEOREM TypeCorrect == Spec => []TypeOK
<1>1. TypeInv => TypeOK BY DEF TypeInv
<1> QED BY <1>1, InvsAlways, PTL

(* A success is at most an interval and the two delays old.                 *)
LEMMA SuccessIsRecent ==
  ASSUME TypeInv, SuccessInv, ~failing, writer \notin {"hung", "dead"}, last_success # Never
  PROVE  last_success \in 0..(IntervalTicks + 2 * Delay)
<1>1. /\ IntervalTicks \in Nat /\ Delay \in Nat /\ last_success \in 0..Oldest
  BY Ticks DEF TypeInv, TypeOK
<1>2. writer \in {"attempt", "wait", "dated", "touch", "touched", "clear", "failed"}
  BY DEF TypeInv, TypeOK, SuccessInv, Working
<1> QED BY <1>1, <1>2 DEF TypeInv, SuccessInv, Working, Never

(* The worker's check (get_liveness_failure) finds a failure only when the  *)
(* last touch has failed, or the writer hangs or is gone: for every         *)
(* interval and every limit that is not smaller, though both the ages and   *)
(* the limit may be equal.                                                  *)
THEOREM AlarmsHaveCauses == Spec => AlarmHasCause
<1>1. ASSUME TypeInv, SuccessInv, [Next]_vars, Alarm, ~failing, writer \notin {"hung", "dead"}
      PROVE  FALSE
  <2>1. exit_code = 0 /\ exit_code' = 5
    BY <1>1 DEF Alarm, TypeInv, TypeOK
  <2>2. CASE CheckSuccess
    <3>1. last_success # Never /\ SecondsSince(last_success) > max_age_seconds
      BY <2>1, <2>2 DEF CheckSuccess, Verdict
    <3>2. last_success \in 0..(IntervalTicks + 2 * Delay)
      BY <1>1, <3>1, SuccessIsRecent
    <3>3. /\ 2 * Delay < SecondTicks /\ IntervalTicks = Interval * SecondTicks
          /\ Delay \in Nat /\ Interval \in Nat /\ SecondTicks \in Nat \ {0}
          /\ max_age_seconds \in Nat /\ max_age_seconds >= Interval /\ clock_age \in 0..Delay
          /\ IntervalTicks \in Nat
      BY <1>1, Ticks, HeartbeatAssumption DEF TypeInv, TypeOK, IntervalTicks
    <3>4. CASE last_success < clock_age
      BY <3>1, <3>3, <3>4 DEF SecondsSince
    <3>5. CASE ~(last_success < clock_age)
      <4> DEFINE x == last_success - clock_age
      <4>1. x \in Nat /\ x < Interval * SecondTicks + SecondTicks
        BY <3>2, <3>3, <3>5
      <4>2. SecondsSince(last_success) = x \div SecondTicks
        BY <3>5 DEF SecondsSince, WholeSeconds
      <4> HIDE DEF x
      <4>3. x \div SecondTicks <= Interval BY <4>1, <3>3, WholeSecondsBound
      <4>4. x \div SecondTicks \in Int BY <4>1, <3>3
      <4> QED BY <3>1, <3>3, <4>2, <4>3, <4>4
    <3> QED BY <3>4, <3>5
  <2>3. CASE CheckStartup
    BY <1>1, <2>1, <2>3 DEF CheckStartup, Verdict
  <2>4. CASE CheckAlive
    BY <1>1, <2>1, <2>4 DEF CheckAlive, Verdict
  <2>5. CASE \/ Writer \/ Killed \/ Restart \/ Tick \/ ReadClock \/ LeaveWorker \/ NotifyStopped
             \/ Join \/ UNCHANGED vars
    BY <2>1, <2>5
    DEF Writer, Attempt, RecordFirstAttempt, Touch, RecordSuccess, ClearFailure,
        RecordFailure, LogFailure, LogCrash, WaitTimesOut, WaitIsStopped, WriterKeeps, mainVars, Killed, End, Restart,
        Tick, ReadClock, LeaveWorker, NotifyStopped, Join, vars
  <2> QED BY <1>1, <2>2, <2>3, <2>4, <2>5 DEF Next, Main
<1>2. TypeInv /\ SuccessInv /\ [Next]_vars => [Alarm => failing \/ writer \in {"hung", "dead"}]_vars
  BY <1>1
<1> QED BY <1>2, InvsAlways, PTL DEF Spec, AlarmHasCause

(* The container's check (healthcheck.sh) finds a worker healthy whose      *)
(* touches succeed, for every limit greater than the interval.              *)
THEOREM HealthyIsSeen == Spec => []HealthyLooksHealthy
<1>1. ASSUME TypeInv, SuccessInv, last_success # Never, ~failing,
             writer \notin {"failed", "hung", "dead"}, max_age_seconds > Interval
      PROVE  ContainerHealthy
  <2>1. last_success \in 0..(IntervalTicks + 2 * Delay) BY <1>1, SuccessIsRecent
  <2>2. file_age \in 0..(IntervalTicks + 2 * Delay) /\ file_age # Never
    <3>1. file_age # Never /\ file_age <= last_success BY <1>1 DEF SuccessInv
    <3>2. file_age \in {Never} \cup 0..Oldest /\ IntervalTicks \in Nat /\ Delay \in Nat
          /\ Oldest \in Nat
      BY <1>1, Ticks DEF TypeInv, TypeOK
    <3> QED BY <2>1, <3>1, <3>2
  <2>3. /\ 2 * Delay < SecondTicks /\ IntervalTicks = Interval * SecondTicks
        /\ Delay \in Nat /\ Interval \in Nat /\ SecondTicks \in Nat \ {0}
        /\ max_age_seconds \in Nat /\ phase \in 0..(SecondTicks - 1) /\ IntervalTicks \in Nat
    BY <1>1, Ticks, HeartbeatAssumption DEF TypeInv, TypeOK, IntervalTicks
  <2> DEFINE x == file_age - phase + SecondTicks - 1
  <2>4. x \in Nat /\ x < IntervalTicks + SecondTicks + SecondTicks
    BY <2>2, <2>3
  <2>5. (Interval + 1) * SecondTicks >= IntervalTicks + SecondTicks
    BY <2>3, LimitInTicks
  <2>6. (Interval + 1) * SecondTicks \in Nat BY <2>3, LimitInTicks
  <2>7. ContainerAge = x \div SecondTicks BY DEF ContainerAge
  <2> HIDE DEF x
  <2>8. x < (Interval + 1) * SecondTicks + SecondTicks BY <2>3, <2>4, <2>5, <2>6
  <2>9. x \div SecondTicks <= Interval + 1 BY <2>3, <2>4, <2>8, WholeSecondsBound
  <2>10. x \div SecondTicks \in Int BY <2>3, <2>4
  <2> QED BY <1>1, <2>2, <2>3, <2>7, <2>9, <2>10 DEF ContainerHealthy
<1>2. TypeInv /\ SuccessInv => HealthyLooksHealthy BY <1>1 DEF HealthyLooksHealthy
<1> QED BY <1>2, InvsAlways, PTL

---------------------------------------------------------------------------
(* The log file                                                             *)


(* What a set of files may hold, without its range.                         *)
PlainOK(f) == DOMAIN f \subseteq Times /\ \A s \in DOMAIN f : f[s] \in SUBSET Lines
ArchivesOK(f) ==
  /\ DOMAIN f \subseteq Times
  /\ \A s \in DOMAIN f : f[s] \in [lines : SUBSET Lines, mtime : Times]

LEMMA FilesTyped ==
  /\ PlainOK(plain) <=> DOMAIN plain \subseteq Times /\ Range(plain) \subseteq SUBSET Lines
  /\ ArchivesOK(archives) <=>
       /\ DOMAIN archives \subseteq Times
       /\ Range(archives) \subseteq [lines : SUBSET Lines, mtime : Times]
BY DEF PlainOK, ArchivesOK, Range

LEMMA PutPlain ==
  ASSUME NEW f, PlainOK(f), NEW s \in Times, NEW content \in SUBSET Lines
  PROVE  PlainOK(Put(f, s, content))
BY DEF PlainOK, Put

LEMMA PutArchive ==
  ASSUME NEW f, ArchivesOK(f), NEW s \in Times,
         NEW content \in [lines : SUBSET Lines, mtime : Times]
  PROVE  ArchivesOK(Put(f, s, content))
BY DEF ArchivesOK, Put

LEMMA WithoutTyped ==
  ASSUME NEW f, NEW S
  PROVE  /\ PlainOK(f) => PlainOK(Without(f, S))
         /\ ArchivesOK(f) => ArchivesOK(Without(f, S))
BY DEF PlainOK, ArchivesOK, Without, Restrict

---------------------------------------------------------------------------
(* Types: a thread that holds the lock has a line to write.                 *)
LogTypeInv ==
  /\ LogTypeOK
  /\ place # "free" => line \in Lines

LEMMA InitLogTypeInv == LogInit => LogTypeInv
<1> SUFFICES ASSUME LogInit PROVE LogTypeInv OBVIOUS
<1>1. PlainOK(plain) /\ ArchivesOK(archives)
  BY DEF LogInit, NoFiles, PlainOK, ArchivesOK
<1> QED
  BY <1>1, FilesTyped, LoggerAssumption
  DEF LogInit, LogTypeInv, LogTypeOK, Logs, NoLog, NoLine, Times, Places

LEMMA NextLogTypeInv == LogTypeInv /\ [LogNext]_logVars => LogTypeInv'
<1> SUFFICES ASSUME LogTypeInv, [LogNext]_logVars PROVE LogTypeInv' OBVIOUS
<1> USE LoggerAssumption
<1>T. PlainOK(plain) /\ ArchivesOK(archives)
  BY FilesTyped DEF LogTypeInv, LogTypeOK
<1>S. ASSUME PlainOK(plain'), ArchivesOK(archives'),
             clock' \in Times, stamped' \in 0..MaxLines, waiting' \subseteq Lines,
             place' \in Places, line' \in Lines \cup {NoLine}, stamp' \in Times,
             place' \in {"open", "compress", "unlink"} => stamp' \in DOMAIN plain',
             log' \in Logs,
             untroubled' \in BOOLEAN, place' # "free" => line' \in Lines
      PROVE  LogTypeInv'
  BY <1>S DEF LogTypeInv, LogTypeOK, PlainOK, ArchivesOK, Range
<1>1. CASE UNCHANGED logVars
  BY <1>1, <1>T, <1>S DEF logVars, emission, files, LogTypeInv, LogTypeOK
<1>2. CASE LogTick
  BY <1>2, <1>T, <1>S DEF LogTick, emission, files, LogTypeInv, LogTypeOK, Times
<1>3. CASE StampLine
  <2> PICK bytes \in 1..MaxRecord :
        waiting' = waiting \cup {[number |-> stamped', stamped |-> clock, bytes |-> bytes]}
    BY <1>3 DEF StampLine
  <2>1. [number |-> stamped', stamped |-> clock, bytes |-> bytes] \in Lines
    BY <1>3 DEF StampLine, LogTypeInv, LogTypeOK, Lines
  <2>2. waiting' \subseteq Lines BY <2>1 DEF LogTypeInv, LogTypeOK
  <2> QED BY <1>3, <2>2, <1>T, <1>S DEF StampLine, emission, files, LogTypeInv, LogTypeOK
<1>4. ASSUME NEW l \in waiting, Begin(l) PROVE LogTypeInv'
  <2>1. /\ place' \in {"rotate", "append"} /\ untroubled' \in BOOLEAN
        /\ line' = l /\ waiting' = waiting \ {l}
        /\ UNCHANGED <<clock, stamped, stamp, log, plain, archives>>
    BY <1>4 DEF Begin, files, Fails, Succeeds, LogTypeInv, LogTypeOK
  <2>2. waiting \subseteq Lines BY DEF LogTypeInv, LogTypeOK
  <2> QED BY <1>4, <2>1, <2>2, <1>T, <1>S DEF LogTypeInv, LogTypeOK, Places
<1>5. CASE Rename
  <2>1. log.lines \in SUBSET Lines /\ clock \in Times /\ NoLog \in Logs
    BY DEF LogTypeInv, LogTypeOK, Logs, NoLog, Times
  <2>2. PlainOK(Put(plain, clock, log.lines)) BY <1>T, <2>1, PutPlain
  <2>3. clock \in DOMAIN Put(plain, clock, log.lines) BY DEF Put
  <2>4. PlainOK(plain') /\ log' \in Logs
        /\ stamp' \in Times
    BY <1>5, <2>1, <2>2, <1>T DEF Rename, LogTypeInv, LogTypeOK
  <2> QED
    BY <1>5, <2>3, <2>4, <1>T, <1>S
    DEF Rename, OtherwiseSame, Fails, Succeeds, LogTypeInv, LogTypeOK, Places
<1>6. CASE OpenArchive
  <2>1. ArchivesOK(Put(archives, stamp, [lines |-> {}, mtime |-> clock]))
    BY <1>T, PutArchive DEF LogTypeInv, LogTypeOK
  <2>2. ArchivesOK(archives') BY <1>6, <2>1, <1>T DEF OpenArchive
  <2> QED
    BY <1>6, <2>2, <1>T, <1>S
    DEF OpenArchive, OtherwiseSame, Fails, Succeeds, LogTypeInv, LogTypeOK, Places
<1>7. CASE Compress
  <2>1. plain[stamp] \in SUBSET Lines BY <1>7, <1>T DEF Compress, PlainOK, LogTypeInv, LogTypeOK
  <2>2. ArchivesOK(Put(archives, stamp, [lines |-> plain[stamp], mtime |-> clock]))
    BY <2>1, <1>T, PutArchive DEF LogTypeInv, LogTypeOK
  <2>3. ArchivesOK(archives') BY <1>7, <2>2, <1>T DEF Compress
  <2> QED
    BY <1>7, <2>3, <1>T, <1>S
    DEF Compress, OtherwiseSame, Fails, Succeeds, LogTypeInv, LogTypeOK, Places
<1>8. CASE DiscardPlain
  <2>1. PlainOK(plain') BY <1>8, <1>T, WithoutTyped DEF DiscardPlain
  <2> QED
    BY <1>8, <2>1, <1>T, <1>S DEF DiscardPlain, OtherwiseSame, LogTypeInv, LogTypeOK, Places
<1>9. CASE DiscardArchive
  <2>1. ArchivesOK(archives') BY <1>9, <1>T, WithoutTyped DEF DiscardArchive
  <2> QED
    BY <1>9, <2>1, <1>T, <1>S DEF DiscardArchive, OtherwiseSame, LogTypeInv, LogTypeOK, Places
<1>10. CASE UnlinkPlain
  <2>1. PlainOK(plain') BY <1>10, <1>T, WithoutTyped DEF UnlinkPlain
  <2> QED
    BY <1>10, <2>1, <1>T, <1>S
    DEF UnlinkPlain, OtherwiseSame, Fails, Succeeds, LogTypeInv, LogTypeOK, Places
<1>11. CASE Prune
  <2>1. ArchivesOK(archives') BY <1>11, <1>T, WithoutTyped DEF Prune
  <2>2. untroubled' \in BOOLEAN
    BY <1>11 DEF Prune, Fails, Succeeds, LogTypeInv, LogTypeOK
  <2>3. place' = "append" /\ place = "prune" /\ UNCHANGED <<log, plain, stamp>> /\ OtherwiseSame
    BY <1>11 DEF Prune
  <2> QED
    BY <2>1, <2>2, <2>3, <1>T, <1>S DEF OtherwiseSame, LogTypeInv, LogTypeOK, Places
<1>12. CASE Append
  <2>1. log' \in Logs
    <3>1. line \in Lines /\ line.bytes \in Nat BY <1>12 DEF Append, LogTypeInv, Lines
    <3>2. log.lines \cup {line} \in SUBSET Lines /\ clock \in Times /\ log.bytes + line.bytes \in Nat
      BY <3>1 DEF LogTypeInv, LogTypeOK, Logs
    <3>3. \/ log' = log
          \/ log' = [exists |-> TRUE, lines |-> log.lines \cup {line},
                     bytes |-> log.bytes + line.bytes, mtime |-> clock]
          \/ \E n \in 0..line.bytes :
               log' = [exists |-> TRUE, lines |-> log.lines,
                       bytes |-> log.bytes + n, mtime |-> clock]
      BY <1>12, Zenon DEF Append
    <3>4. log \in Logs
      BY DEF LogTypeInv, LogTypeOK
    <3>5. [exists |-> TRUE, lines |-> log.lines \cup {line},
           bytes |-> log.bytes + line.bytes, mtime |-> clock] \in Logs
      BY <3>2 DEF Logs
    <3>6. ASSUME NEW n \in 0..line.bytes
          PROVE  [exists |-> TRUE, lines |-> log.lines,
                  bytes |-> log.bytes + n, mtime |-> clock] \in Logs
      BY <3>1, <3>2, <3>4 DEF Logs
    <3> QED BY <3>3, <3>4, <3>5, <3>6, Zenon
  <2> QED
    BY <1>12, <2>1, <1>T, <1>S DEF Append, Fails, Succeeds, LogTypeInv, LogTypeOK, Places
<1>13. CASE Crash
  BY <1>13, <1>T, <1>S DEF Crash, Fails, files, LogTypeInv, LogTypeOK, Places
<1> QED
  BY <1>1, <1>2, <1>3, <1>4, <1>5, <1>6, <1>7, <1>8, <1>9, <1>10, <1>11, <1>12, <1>13
  DEF LogNext, Emission

LEMMA LogTypeInvAlways == LogSpec => []LogTypeInv
BY InitLogTypeInv, NextLogTypeInv, PTL DEF LogSpec

(* Every variable of the log keeps its type, for every limit; the file that *)
(* is to be compressed and removed (rotate_log_file) is there until it is.  *)
THEOREM LogTypeCorrect == LogSpec => []LogTypeOK
<1>1. LogTypeInv => LogTypeOK BY DEF LogTypeInv
<1> QED BY <1>1, LogTypeInvAlways, PTL
---------------------------------------------------------------------------
(* The size of the log: a thread goes on to append only if the file is      *)
(* below its limit, or has just made way and none wrote since.              *)
RotatedPlaces == {"open", "compress", "discard_plain", "discard_archive", "unlink", "prune"}

SizeInv ==
  /\ ~log.exists => log.bytes = 0
  /\ untroubled => /\ log.bytes < MaxBytes + MaxRecord
                   /\ place = "append" => log.bytes < MaxBytes
                   /\ place \in RotatedPlaces => log.bytes = 0

LEMMA InitSizeInv == LogInit => SizeInv
BY LoggerAssumption DEF LogInit, SizeInv, NoLog, RotatedPlaces

LEMMA NextSizeInv == LogTypeInv /\ SizeInv /\ [LogNext]_logVars => SizeInv'
<1> SUFFICES ASSUME LogTypeInv, SizeInv, [LogNext]_logVars PROVE SizeInv' OBVIOUS
<1> USE LoggerAssumption
<1>C. log.bytes \in Nat BY DEF LogTypeInv, LogTypeOK, Logs
<1>S. ASSUME UNCHANGED log, untroubled' => untroubled /\ place' = place
      PROVE  SizeInv'
  BY <1>S DEF SizeInv
<1>1. CASE UNCHANGED logVars
  BY <1>1, <1>S DEF logVars, emission, files
<1>2. CASE LogTick \/ StampLine
  BY <1>2, <1>S DEF LogTick, StampLine, emission, files
<1>3. ASSUME NEW l \in waiting, Begin(l) PROVE SizeInv'
  <2>1. UNCHANGED log BY <1>3 DEF Begin, files
  <2>2. ASSUME untroubled'
        PROVE  untroubled /\ place' \in {"rotate", "append"} /\ (place' = "append" /\ log.exists => ~TooLarge)
    BY <1>3, <2>2 DEF Begin, Fails, Succeeds
  <2> QED BY <2>1, <2>2, <1>C DEF SizeInv, TooLarge, RotatedPlaces
<1>4. CASE Rename
  <2>1. log' = NoLog \/ (log' = log /\ ~untroubled')
    BY <1>4, Zenon DEF Rename, Fails
  <2>2. NoLog.bytes = 0 BY DEF NoLog
  <2>3. CASE log' = NoLog
    BY <2>2, <2>3 DEF SizeInv
  <2> QED BY <2>1, <2>3 DEF SizeInv
<1>5. CASE OpenArchive \/ Compress \/ DiscardPlain \/ DiscardArchive \/ UnlinkPlain
  <2>1. UNCHANGED log
    BY <1>5 DEF OpenArchive, Compress, DiscardPlain, DiscardArchive, UnlinkPlain
  <2>2. untroubled' => untroubled
    BY <1>5 DEF OpenArchive, Compress, DiscardPlain, DiscardArchive, UnlinkPlain, Fails, Succeeds
  <2>3. place \in RotatedPlaces /\ place' \in RotatedPlaces
    BY <1>5 DEF OpenArchive, Compress, DiscardPlain, DiscardArchive, UnlinkPlain, RotatedPlaces
  <2>4. place' # "append" BY <2>3 DEF RotatedPlaces
  <2> QED BY <2>1, <2>2, <2>3, <2>4 DEF SizeInv
<1>6. CASE Prune
  <2>1. UNCHANGED log /\ place = "prune" /\ place' = "append"
    BY <1>6 DEF Prune
  <2>2. untroubled' => untroubled
    BY <1>6 DEF Prune, Fails, Succeeds
  <2>3. place \in RotatedPlaces /\ place' \notin RotatedPlaces
    BY <2>1 DEF RotatedPlaces
  <2> QED BY <2>1, <2>2, <2>3 DEF SizeInv
<1>7. CASE Append
  <2>1. \/ log' = log /\ ~untroubled'
        \/ /\ \E n \in 0..line.bytes :
                log' = [exists |-> TRUE, lines |-> log.lines,
                        bytes |-> log.bytes + n, mtime |-> clock]
           /\ ~untroubled'
        \/ /\ log' = [exists |-> TRUE, lines |-> log.lines \cup {line},
                     bytes |-> log.bytes + line.bytes, mtime |-> clock]
           /\ untroubled' = untroubled
    BY <1>7, Zenon DEF Append, Fails, Succeeds
  <2>2. place = "append" /\ place' = "free" BY <1>7 DEF Append
  <2>3. CASE log' = log /\ ~untroubled'
    BY <2>3 DEF SizeInv
  <2>4. CASE /\ \E n \in 0..line.bytes :
                  log' = [exists |-> TRUE, lines |-> log.lines,
                          bytes |-> log.bytes + n, mtime |-> clock]
             /\ ~untroubled'
    <3>1. log'.exists BY <2>4
    <3> QED BY <2>4, <3>1 DEF SizeInv
  <2>5. CASE /\ log' = [exists |-> TRUE, lines |-> log.lines \cup {line},
                     bytes |-> log.bytes + line.bytes, mtime |-> clock]
             /\ untroubled' = untroubled
    <3>1. log'.bytes = log.bytes + line.bytes /\ log'.exists BY <2>5
    <3>2. line.bytes \in Nat /\ line.bytes <= MaxRecord BY <2>2 DEF LogTypeInv, Lines
    <3>3. untroubled' => log.bytes < MaxBytes BY <2>2, <2>5 DEF SizeInv
    <3>4. untroubled' => log'.bytes < MaxBytes + MaxRecord BY <1>C, <3>1, <3>2, <3>3
    <3> QED BY <3>1, <3>4, <2>2 DEF SizeInv, RotatedPlaces
  <2> QED BY <2>1, <2>3, <2>4, <2>5
<1>8. CASE Crash
  BY <1>8, <1>S DEF Crash, Fails, files
<1> QED
  BY <1>1, <1>2, <1>3, <1>4, <1>5, <1>6, <1>7, <1>8 DEF LogNext, Emission

(* As long as nothing fails, the log never exceeds LOG_ROTATE_MAX_MIB by a  *)
(* whole record, whichever threads log, in whatever order they get the lock *)
(* and however long the records are (should_rotate, emit_log_lines).        *)
THEOREM LogStaysSmall == LogSpec => []SizeIsBounded
<1>1. SizeInv => SizeIsBounded BY DEF SizeInv, SizeIsBounded
<1> QED BY <1>1, InitSizeInv, NextSizeInv, LogTypeInvAlways, PTL DEF LogSpec
---------------------------------------------------------------------------
(* How long lines are kept.  Whatever holds lines is younger than each of   *)
(* them, and what is removed after it was compressed is in its archive.     *)
AgeInv ==
  /\ \A l \in waiting \cup {line} \cup log.lines : l.stamped <= clock
  /\ \A s \in DOMAIN plain : \A l \in plain[s] : l.stamped <= clock
  /\ \A s \in DOMAIN archives : \A l \in archives[s].lines : l.stamped <= archives[s].mtime

ArchivedInv ==
  /\ place \in {"compress", "unlink"} => stamp \in DOMAIN archives
  /\ place = "compress" => archives[stamp].lines = {}
  /\ place = "unlink" => archives[stamp].lines = plain[stamp]

LEMMA InitKeptInv == LogInit => AgeInv /\ ArchivedInv
BY DEF LogInit, AgeInv, ArchivedInv, NoLine, NoLog, NoFiles

LEMMA NextAgeInv == LogTypeInv /\ AgeInv /\ [LogNext]_logVars => AgeInv'
<1> SUFFICES ASSUME LogTypeInv, AgeInv, [LogNext]_logVars PROVE AgeInv' OBVIOUS
<1>T. /\ clock \in Nat
      /\ \A l \in Lines : l.stamped \in Nat
      /\ waiting \cup log.lines \subseteq Lines
      /\ line \in Lines \cup {NoLine}
      /\ \A s \in DOMAIN plain : plain[s] \subseteq Lines
      /\ \A s \in DOMAIN archives : archives[s].lines \subseteq Lines
  <2>1. clock \in Nat /\ \A l \in Lines : l.stamped \in Nat
    BY LoggerAssumption DEF LogTypeInv, LogTypeOK, Times, Lines
  <2>2. waiting \cup log.lines \subseteq Lines /\ line \in Lines \cup {NoLine}
    BY DEF LogTypeInv, LogTypeOK, Logs
  <2>3. PlainOK(plain) /\ ArchivesOK(archives)
    BY FilesTyped DEF LogTypeInv, LogTypeOK
  <2> QED BY <2>1, <2>2, <2>3 DEF PlainOK, ArchivesOK
<1>1. CASE UNCHANGED logVars
  BY <1>1 DEF logVars, emission, files, AgeInv
<1>2. CASE LogTick
  <2>1. clock' = clock + 1 /\ UNCHANGED <<waiting, line, log, plain, archives>>
    BY <1>2 DEF LogTick, emission, files
  <2>2. \A l \in Lines \cup {NoLine} : l.stamped \in Nat BY <1>T DEF NoLine
  <2> QED BY <2>1, <2>2, <1>T DEF AgeInv
<1>3. CASE StampLine
  <2> PICK bytes \in 1..MaxRecord :
        waiting' = waiting \cup {[number |-> stamped', stamped |-> clock, bytes |-> bytes]}
    BY <1>3 DEF StampLine
  <2>1. UNCHANGED <<clock, line, log, plain, archives>>
    BY <1>3 DEF StampLine, emission, files
  <2> QED BY <2>1, <1>T DEF AgeInv
<1>4. ASSUME NEW l \in waiting, Begin(l) PROVE AgeInv'
  <2>1. line' = l /\ waiting' = waiting \ {l} /\ UNCHANGED <<clock, log, plain, archives>>
    BY <1>4 DEF Begin, files
  <2> QED BY <2>1 DEF AgeInv
<1>5. CASE Rename
  <2>1. /\ UNCHANGED <<clock, waiting, line, archives>>
        /\ \/ plain' = Put(plain, clock, log.lines) /\ log' = NoLog
           \/ UNCHANGED <<log, plain>>
    BY <1>5, Zenon DEF Rename, OtherwiseSame
  <2>2. CASE plain' = Put(plain, clock, log.lines) /\ log' = NoLog
    BY <2>1, <2>2 DEF AgeInv, Put, NoLog
  <2> QED BY <2>1, <2>2 DEF AgeInv
<1>6. CASE OpenArchive
  <2>1. /\ UNCHANGED <<clock, waiting, line, log, plain>>
        /\ \/ archives' = Put(archives, stamp, [lines |-> {}, mtime |-> clock])
           \/ UNCHANGED archives
    BY <1>6, Zenon DEF OpenArchive, OtherwiseSame
  <2> QED BY <2>1 DEF AgeInv, Put
<1>7. CASE Compress
  <2>1. /\ UNCHANGED <<clock, waiting, line, log, plain>> /\ stamp \in DOMAIN plain
        /\ \/ archives' = Put(archives, stamp, [lines |-> plain[stamp], mtime |-> clock])
           \/ UNCHANGED archives
    BY <1>7, Zenon DEF Compress, OtherwiseSame, LogTypeInv, LogTypeOK
  <2> QED BY <2>1 DEF AgeInv, Put
<1>8. CASE DiscardPlain \/ UnlinkPlain
  <2>1. /\ UNCHANGED <<clock, waiting, line, log, archives>>
        /\ plain' \in {plain, Without(plain, {stamp})}
    BY <1>8 DEF DiscardPlain, UnlinkPlain, OtherwiseSame
  <2> QED BY <2>1 DEF AgeInv, Without, Restrict
<1>9. CASE DiscardArchive \/ Prune
  <2>1. /\ UNCHANGED <<clock, waiting, line, log, plain>>
        /\ \E S : archives' \in {archives, Without(archives, S)}
    BY <1>9 DEF DiscardArchive, Prune, OtherwiseSame
  <2> QED BY <2>1 DEF AgeInv, Without, Restrict
<1>10. CASE Append
  <2>1. /\ UNCHANGED <<clock, waiting, plain, archives>> /\ line' = NoLine
        /\ log'.lines \in {log.lines, log.lines \cup {line}}
    BY <1>10 DEF Append
  <2>2. NoLine.stamped <= clock BY <1>T DEF NoLine
  <2> QED BY <2>1, <2>2 DEF AgeInv
<1>11. CASE Crash
  <2>1. UNCHANGED <<clock, log, plain, archives>> /\ line' = NoLine /\ waiting' = {}
    BY <1>11 DEF Crash, files
  <2>2. NoLine.stamped <= clock BY <1>T DEF NoLine
  <2> QED BY <2>1, <2>2 DEF AgeInv
<1> QED
  BY <1>1, <1>2, <1>3, <1>4, <1>5, <1>6, <1>7, <1>8, <1>9, <1>10, <1>11
  DEF LogNext, Emission

LEMMA NextArchivedInv == LogTypeInv /\ ArchivedInv /\ [LogNext]_logVars => ArchivedInv'
<1> SUFFICES ASSUME LogTypeInv, ArchivedInv, [LogNext]_logVars PROVE ArchivedInv' OBVIOUS
<1>1. CASE LogTick \/ StampLine \/ UNCHANGED logVars
  BY <1>1 DEF LogTick, StampLine, emission, files, logVars, ArchivedInv
<1>2. CASE OpenArchive
  <2>1. \/ /\ archives' = Put(archives, stamp, [lines |-> {}, mtime |-> clock])
           /\ place' = "compress" /\ stamp' = stamp
        \/ place' = "discard_plain"
    BY <1>2, Zenon DEF OpenArchive
  <2> QED BY <2>1 DEF Put, ArchivedInv
<1>3. CASE Compress
  <2>1. \/ /\ archives' = Put(archives, stamp, [lines |-> plain[stamp], mtime |-> clock])
           /\ place' = "unlink" /\ UNCHANGED <<plain, stamp>>
        \/ place' = "discard_plain"
    BY <1>3, Zenon DEF Compress
  <2> QED BY <2>1 DEF Put, ArchivedInv
<1>4. CASE \/ Rename \/ DiscardPlain \/ DiscardArchive \/ UnlinkPlain
           \/ Prune \/ Append \/ Crash \/ \E l \in waiting : Begin(l)
  <2>1. place' \notin {"compress", "unlink"}
    BY <1>4
    DEF Rename, DiscardPlain, DiscardArchive, UnlinkPlain, Prune, Append, Crash, Begin
  <2> QED BY <2>1 DEF ArchivedInv
<1> QED BY <1>1, <1>2, <1>3, <1>4 DEF LogNext, Emission

(* What is kept, as a line that is somewhere.                               *)
IsKept(l, logged, rotated, compressed) ==
  \/ l \in logged.lines
  \/ \E s \in DOMAIN rotated : l \in rotated[s]
  \/ \E s \in DOMAIN compressed : l \in compressed[s].lines

LEMMA KeptIs ==
  /\ \A l : l \in Kept <=> IsKept(l, log, plain, archives)
  /\ \A l : l \in Kept' <=> IsKept(l, log', plain', archives')
BY Zenon DEF Kept, IsKept, Range

MayBeLost(l) ==
  \/ l.stamped + KeepDays * DayTicks < clock
  \/ place \in {"discard_plain", "discard_archive"}
  \/ place = "rotate" /\ clock \in DOMAIN plain
  \/ place = "open" /\ stamp \in DOMAIN archives

LEMMA StepKeeps ==
  ASSUME LogTypeInv, AgeInv, ArchivedInv, [LogNext]_logVars,
         NEW l, IsKept(l, log, plain, archives), ~IsKept(l, log', plain', archives')
  PROVE  MayBeLost(l)
<1>1. ~UNCHANGED files BY DEF files, IsKept
<1>2. CASE Rename
  <2>1. UNCHANGED archives /\ place = "rotate"
        /\ plain' = Put(plain, clock, log.lines)
    BY <1>1, <1>2, Zenon DEF Rename, files
  <2>2. CASE clock \notin DOMAIN plain
    <3>1. \A s \in DOMAIN plain : s \in DOMAIN plain' /\ plain'[s] = plain[s]
      BY <2>1, <2>2 DEF Put
    <3>2. clock \in DOMAIN plain' /\ plain'[clock] = log.lines BY <2>1 DEF Put
    <3> QED BY <2>1, <3>1, <3>2 DEF IsKept
  <2> QED BY <2>1, <2>2 DEF MayBeLost
<1>3. CASE OpenArchive
  <2>1. UNCHANGED <<log, plain>> /\ place = "open"
        /\ archives' = Put(archives, stamp, [lines |-> {}, mtime |-> clock])
    BY <1>1, <1>3, Zenon DEF OpenArchive, files
  <2>2. CASE stamp \notin DOMAIN archives
    <3>1. \A s \in DOMAIN archives : s \in DOMAIN archives' /\ archives'[s] = archives[s]
      BY <2>1, <2>2 DEF Put
    <3> QED BY <2>1, <3>1 DEF IsKept
  <2> QED BY <2>1, <2>2 DEF MayBeLost
<1>4. CASE Compress
  <2>1. UNCHANGED <<log, plain>> /\ place = "compress"
        /\ archives' = Put(archives, stamp, [lines |-> plain[stamp], mtime |-> clock])
    BY <1>1, <1>4, Zenon DEF Compress, files
  <2>2. \A s \in DOMAIN archives \ {stamp} : s \in DOMAIN archives' /\ archives'[s] = archives[s]
    BY <2>1 DEF Put
  <2>3. archives[stamp].lines = {} BY <2>1 DEF ArchivedInv
  <2> QED BY <2>1, <2>2, <2>3 DEF IsKept
<1>5. CASE UnlinkPlain
  <2>1. UNCHANGED <<log, archives>> /\ place = "unlink" /\ plain' = Without(plain, {stamp})
    BY <1>1, <1>5, Zenon DEF UnlinkPlain, files
  <2>2. \A s \in DOMAIN plain \ {stamp} : s \in DOMAIN plain' /\ plain'[s] = plain[s]
    BY <2>1 DEF Without, Restrict
  <2>3. stamp \in DOMAIN archives /\ archives[stamp].lines = plain[stamp]
    BY <2>1 DEF ArchivedInv
  <2> QED BY <2>1, <2>2, <2>3 DEF IsKept
<1>6. CASE Prune
  <2>1. UNCHANGED <<log, plain>> /\ ArchivesOK(archives)
    BY <1>6, FilesTyped DEF Prune, LogTypeInv, LogTypeOK
  <2>2. PICK gone \in SUBSET {s \in DOMAIN archives : Expired(s)} :
          archives' = Without(archives, gone)
    BY <1>6, Zenon DEF Prune
  <2>3. \A s \in DOMAIN archives \ gone : s \in DOMAIN archives' /\ archives'[s] = archives[s]
    BY <2>2 DEF Without, Restrict
  <2>4. PICK s \in gone : l \in archives[s].lines BY <2>1, <2>3 DEF IsKept
  <2>5. s \in DOMAIN archives /\ archives[s].mtime + KeepDays * DayTicks < clock
    BY <2>2, <2>4 DEF Expired
  <2>6. l \in Lines /\ archives[s].mtime \in Nat /\ l.stamped <= archives[s].mtime
    BY <2>1, <2>4, <2>5, LoggerAssumption DEF ArchivesOK, AgeInv, Times
  <2>7. l.stamped \in Nat /\ clock \in Nat /\ KeepDays * DayTicks \in Nat
    BY <2>6, LoggerAssumption DEF Lines, Times, LogTypeInv, LogTypeOK
  <2> QED BY <2>5, <2>6, <2>7 DEF MayBeLost
<1>7. CASE DiscardPlain \/ DiscardArchive
  BY <1>7 DEF DiscardPlain, DiscardArchive, MayBeLost
<1>8. CASE Append
  <2>1. log.lines \subseteq log'.lines /\ UNCHANGED <<plain, archives>>
    BY <1>8 DEF Append
  <2> QED BY <2>1 DEF IsKept
<1>9. CASE LogTick \/ StampLine \/ Crash \/ \E k \in waiting : Begin(k)
  BY <1>1, <1>9 DEF LogTick, StampLine, Crash, Begin
<1> QED
  BY <1>1, <1>2, <1>3, <1>4, <1>5, <1>6, <1>7, <1>8, <1>9 DEF LogNext, Emission, logVars, files

(* What a step of a rotation may lose, whatever fails or stops in between:  *)
(* lines as old as LOG_ROTATE_KEEP_DAYS, what cannot be compressed, and     *)
(* what has the name of a file of the same second (rotate_log_file,         *)
(* prune_rotated_logs).                                                     *)
THEOREM LinesAreKept == LogSpec => LinesKept
<1>1. LogTypeInv /\ AgeInv /\ ArchivedInv /\ [LogNext]_logVars
        => [\A l \in Kept \ Kept' :
              \/ l.stamped + KeepDays * DayTicks < clock
              \/ place \in {"discard_plain", "discard_archive"}
              \/ place = "rotate" /\ clock \in DOMAIN plain
              \/ place = "open" /\ stamp \in DOMAIN archives]_logVars
  BY KeptIs, StepKeeps DEF MayBeLost
<1> QED
  BY <1>1, InitKeptInv, NextAgeInv, NextArchivedInv, LogTypeInvAlways, PTL DEF LogSpec, LinesKept
=============================================================================
