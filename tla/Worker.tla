------------------------------- MODULE Worker -------------------------------
(***************************************************************************)
(* The worker process: startup, the one-shot run and the scheduled loop    *)
(* (worker_runtime.py), the Telegram command handlers (command_runtime.py),*)
(* authentication and its persisted record (auth_runtime.py, state.py),    *)
(* the safety net gate (main.py), and crashes of the process at any point. *)
(* What a backup does is modelled elsewhere; here it runs and ends.        *)
(***************************************************************************)
EXTENDS AuthRuntime, CommandPolling, SafetyNet

CONSTANTS
  RunOnce,       \* RUN_ONCE
  IntervalMode   \* SCHEDULE_MODE = "interval": due at once

ASSUME ModeAssumption == RunOnce \in BOOLEAN /\ IntervalMode \in BOOLEAN

VARIABLES
  auth_file,         \* the persisted authentication record
  pc,                \* where the process is
  exit_code,         \* of the last run that ended by itself
  auth_state,        \* the process's own authentication record
  is_authenticated,
  session,           \* ICloudDriveClient.api
  attempt,           \* what attempt_auth is about to return
  backup_requested,
  alarm              \* the epoch the process waits for has been reached

authVars == <<auth_file, auth_state, is_authenticated, session, attempt>>
vars == <<auth_file, pc, exit_code, auth_state, is_authenticated, session,
          attempt, backup_requested, alarm, pollingVars, safetyVars>>

ExitCodes == {0, 2, 3, 4, 5}
NoExit == 99

Phases ==
  {"down", "capture", "startup_auth", "startup_attempted", "loop", "poll",
   "wait", "command", "attempted", "decide", "safety", "safety_passed",
   "backup", "exited"}

Running == pc \notin {"down", "exited"}

(* The record an attempt works on while it has not returned.                *)
NoAttempt == [state |-> DefaultAuthState, success |-> FALSE]

WorkerTypeOK ==
  /\ auth_file \in AuthStates
  /\ pc \in Phases
  /\ exit_code \in ExitCodes \cup {NoExit}
  /\ auth_state \in AuthStates
  /\ is_authenticated \in BOOLEAN
  /\ session \in Sessions
  /\ attempt \in [state : AuthStates, success : BOOLEAN]
  /\ backup_requested \in BOOLEAN
  /\ alarm \in BOOLEAN

TypeOK == WorkerTypeOK /\ PollingTypeOK /\ SafetyTypeOK

Init ==
  /\ auth_file = DefaultAuthState
  /\ pc = "down"
  /\ exit_code = NoExit
  /\ auth_state = DefaultAuthState
  /\ is_authenticated = FALSE
  /\ session = "none"
  /\ attempt = NoAttempt
  /\ backup_requested = FALSE
  /\ alarm = FALSE
  /\ PollingInit
  /\ SafetyInit

Goto(from, to) == pc = from /\ pc' = to

---------------------------------------------------------------------------
(* Startup and the end of the process                                       *)

(* A process starts: the record is loaded, or defaults when the file cannot *)
(* be read; everything else starts empty.                                   *)
Boot ==
  /\ pc \in {"down", "exited"}
  /\ pc' = "capture"
  /\ auth_state' \in {auth_file, DefaultAuthState}
  /\ is_authenticated' = FALSE
  /\ session' = "none"
  /\ attempt' = NoAttempt
  /\ backup_requested' = FALSE
  /\ alarm' = FALSE
  /\ exit_code' = NoExit
  /\ ForgetPollingState
  /\ UNCHANGED <<auth_file, safetyVars>>

(* The process dies: a signal, or an exception nothing catches (a failed    *)
(* login, an OSError while a marker is written).                            *)
Crash ==
  /\ Running
  /\ pc' = "down"
  /\ auth_state' = DefaultAuthState
  /\ is_authenticated' = FALSE
  /\ session' = "none"
  /\ attempt' = NoAttempt
  /\ backup_requested' = FALSE
  /\ UNCHANGED <<auth_file, exit_code, alarm, pollingVars, safetyVars>>

Exit(code) == pc' = "exited" /\ exit_code' = code

CapturePollingState ==
  /\ Goto("capture", "startup_auth")
  /\ CaptureStartupCursor
  /\ UNCHANGED <<authVars, exit_code, backup_requested, alarm, safetyVars>>

---------------------------------------------------------------------------
(* Authentication                                                           *)

(* Fault: an attempt counts as successful though its record was not saved.  *)
AttemptAuthUnsaved(passed, outcomes) ==
  \E r \in outcomes :
    /\ session' = r.session
    /\ attempt' = [state   |-> AttemptTarget(passed, r.success),
                   success |-> r.success]
    /\ auth_file' \in {auth_file, AttemptTarget(passed, r.success)}
    /\ UNCHANGED <<auth_state, is_authenticated>>

(* save_auth_state and what it reports.  A save reported as failed may have *)
(* taken effect: write_json logs in its try, after the replace.             *)
SaveAuthState(record, saved) ==
  IF saved THEN auth_file' = record ELSE auth_file' \in {auth_file, record}

(* attempt_auth up to the save: Apple answers, and the target record is     *)
(* saved; when the save reports failure the record passed in is kept and    *)
(* the attempt counts as failed.                                            *)
AttemptAuth(passed, outcomes) ==
  \E r \in outcomes, saved \in BOOLEAN :
    /\ session' = r.session
    /\ SaveAuthState(AttemptTarget(passed, r.success), saved)
    /\ attempt' = IF saved
                  THEN [state   |-> AttemptTarget(passed, r.success),
                        success |-> r.success]
                  ELSE [state |-> passed, success |-> FALSE]
    /\ UNCHANGED <<auth_state, is_authenticated>>

(* attempt_auth from its notification on: the caller takes over the result. *)
ConcludeAttempt ==
  /\ auth_state' = attempt.state
  /\ is_authenticated' = attempt.success
  /\ attempt' = NoAttempt
  /\ UNCHANGED <<auth_file, session>>

StartupAuth ==
  /\ Goto("startup_auth", "startup_attempted")
  /\ AttemptAuth(auth_state, StartAuthentication)
  /\ UNCHANGED <<exit_code, backup_requested, alarm, pollingVars, safetyVars>>

(* Then the one-shot run goes straight to the gates or waits for commands;  *)
(* the scheduled loop computes its first due time.                          *)
StartupAuthDone ==
  /\ pc = "startup_attempted"
  /\ ConcludeAttempt
  /\ pc' = IF ~RunOnce THEN "loop"
           ELSE IF is_authenticated' /\ ~auth_state'.reauth_pending THEN "safety"
           ELSE "wait"
  /\ alarm' = (~RunOnce /\ IntervalMode)
  /\ UNCHANGED <<exit_code, backup_requested, pollingVars, safetyVars>>

---------------------------------------------------------------------------
(* Telegram commands                                                        *)

(* The one-shot wait stops at the first command that makes it ready and     *)
(* drops the rest of the batch.                                             *)
WaitOver == RunOnce /\ is_authenticated /\ ~auth_state.reauth_pending

Handling(c) == pc = "command" /\ ~WaitOver /\ BatchPending /\ Current = c

(* An update that is not a command of this container's user.                *)
IgnoreUpdate ==
  /\ Handling("ignored")
  /\ SettleUpdate
  /\ UNCHANGED <<authVars, pc, exit_code, backup_requested, alarm, safetyVars>>

(* The one-shot wait has no use for the request.                            *)
HandleBackup ==
  /\ Handling("backup")
  /\ SettleUpdate
  /\ backup_requested' = (backup_requested \/ ~RunOnce)
  /\ UNCHANGED <<authVars, pc, exit_code, alarm, safetyVars>>

HandleAuthCommand(c, passed, outcomes) ==
  /\ Handling(c)
  /\ pc' = "attempted"
  /\ AttemptAuth(passed, outcomes)
  /\ UNCHANGED <<exit_code, backup_requested, alarm, pollingVars, safetyVars>>

HandleAuth == HandleAuthCommand("auth", auth_state, StartAuthentication)

HandleAuthCode ==
  HandleAuthCommand("auth_code", auth_state, CompleteAuthentication(session))

HandleReauth ==
  HandleAuthCommand("reauth", ReauthRequested(auth_state), StartAuthentication)

HandleReauthCode ==
  HandleAuthCommand("reauth_code", ReauthRequested(auth_state),
                    CompleteAuthentication(session))

AuthCommandDone ==
  /\ Goto("attempted", "command")
  /\ ConcludeAttempt
  /\ SettleUpdate
  /\ UNCHANGED <<exit_code, backup_requested, alarm, safetyVars>>

---------------------------------------------------------------------------
(* The scheduled loop                                                       *)

(* process_reauth_reminders: the record moves to its stage if its save is   *)
(* reported as done, and stays as it is otherwise.                          *)
ProcessReauthReminders ==
  /\ Goto("loop", "poll")
  /\ LET target == ReminderTarget(auth_state)
     IN  \/ target = auth_state /\ UNCHANGED <<auth_file, auth_state>>
         \/ /\ target # auth_state
            /\ \E saved \in BOOLEAN :
                 /\ SaveAuthState(target, saved)
                 /\ auth_state' = IF saved THEN target ELSE auth_state
  /\ UNCHANGED <<is_authenticated, session, attempt, exit_code,
                 backup_requested, alarm, pollingVars, safetyVars>>

PollCommands ==
  /\ Goto("poll", "command")
  /\ ReadCommandBatch
  /\ UNCHANGED <<authVars, exit_code, backup_requested, alarm, safetyVars>>

BatchHandled ==
  /\ Goto("command", "decide")
  /\ ~RunOnce
  /\ ~BatchPending
  /\ UNCHANGED <<authVars, exit_code, backup_requested, alarm, pollingVars, safetyVars>>

NothingDue ==
  /\ Goto("decide", "loop")
  /\ ~alarm
  /\ ~backup_requested
  /\ UNCHANGED <<authVars, exit_code, backup_requested, alarm, pollingVars, safetyVars>>

(* A due or requested backup: the next due time is set before the gates are *)
(* looked at, so a backup skipped here is not retried before it.            *)
Due == alarm \/ backup_requested

SkipBackup ==
  /\ Goto("decide", "loop")
  /\ Due
  /\ ~is_authenticated \/ auth_state.reauth_pending
  /\ alarm' = FALSE
  /\ backup_requested' = FALSE
  /\ UNCHANGED <<authVars, exit_code, pollingVars, safetyVars>>

(* Fault: a pending reauthentication does not stop the backup.              *)
EnterSafetyNetPending ==
  /\ Goto("decide", "safety")
  /\ Due
  /\ is_authenticated
  /\ alarm' = FALSE
  /\ UNCHANGED <<authVars, exit_code, backup_requested, pollingVars, safetyVars>>

EnterSafetyNet ==
  /\ Goto("decide", "safety")
  /\ Due
  /\ is_authenticated
  /\ ~auth_state.reauth_pending
  /\ alarm' = FALSE
  /\ UNCHANGED <<authVars, exit_code, backup_requested, pollingVars, safetyVars>>

---------------------------------------------------------------------------
(* The safety net and the backup, in both modes                             *)

SafetyNetAlreadyDone ==
  /\ Goto("safety", "backup")
  /\ done_marker
  /\ UNCHANGED <<authVars, exit_code, backup_requested, alarm, pollingVars, safetyVars>>

SafetyNetClean ==
  /\ Goto("safety", "safety_passed")
  /\ RemoveStaleBlock
  /\ UNCHANGED <<authVars, exit_code, backup_requested, alarm, pollingVars>>

SafetyNetPassed ==
  /\ Goto("safety_passed", "backup")
  /\ MarkDone
  /\ UNCHANGED <<authVars, exit_code, backup_requested, alarm, pollingVars>>

SafetyNetBlocks ==
  /\ pc = "safety"
  /\ BlockBackup
  /\ backup_requested' = FALSE
  /\ IF RunOnce THEN Exit(4) ELSE pc' = "loop" /\ UNCHANGED exit_code
  /\ UNCHANGED <<authVars, alarm, pollingVars>>

(* The one-shot run exits with 0 however complete the backup was.           *)
FinishBackup ==
  /\ pc = "backup"
  /\ backup_requested' = FALSE
  /\ IF RunOnce THEN Exit(0) ELSE pc' = "loop" /\ UNCHANGED exit_code
  /\ UNCHANGED <<authVars, alarm, pollingVars, safetyVars>>

---------------------------------------------------------------------------
(* The one-shot wait for authentication                                     *)

WaitPoll ==
  /\ Goto("wait", "command")
  /\ ~alarm
  /\ ReadCommandBatch
  /\ UNCHANGED <<authVars, exit_code, backup_requested, alarm, safetyVars>>

(* Fault: every poll starts the wait anew.                                  *)
WaitAnew ==
  /\ Goto("command", "wait")
  /\ RunOnce
  /\ ~WaitOver
  /\ ~BatchPending
  /\ alarm' = FALSE
  /\ UNCHANGED <<authVars, exit_code, backup_requested, pollingVars, safetyVars>>

WaitAgain ==
  /\ Goto("command", "wait")
  /\ RunOnce
  /\ ~WaitOver
  /\ ~BatchPending
  /\ UNCHANGED <<authVars, exit_code, backup_requested, alarm, pollingVars, safetyVars>>

WaitCompleted ==
  /\ Goto("command", "safety")
  /\ WaitOver
  /\ UNCHANGED <<authVars, exit_code, backup_requested, alarm, pollingVars, safetyVars>>

WaitTimedOut ==
  /\ pc = "wait"
  /\ alarm
  /\ Exit(IF is_authenticated THEN 3 ELSE 2)
  /\ UNCHANGED <<authVars, backup_requested, alarm, pollingVars, safetyVars>>

---------------------------------------------------------------------------
(* check_runtime_liveness: the heartbeat has failed.                        *)
AbortUnhealthy ==
  /\ pc \in {"loop", "wait"}
  /\ Exit(5)
  /\ UNCHANGED <<authVars, backup_requested, alarm, pollingVars, safetyVars>>

(* The environment: time and the Telegram user.                             *)
AlarmRings ==
  /\ Running
  /\ ~alarm
  /\ alarm' = TRUE
  /\ UNCHANGED <<authVars, pc, exit_code, backup_requested, pollingVars, safetyVars>>

DaysPass ==
  /\ auth_file' = Older(auth_file)
  /\ auth_state' = Older(auth_state)
  /\ attempt' = [attempt EXCEPT !.state = Older(attempt.state)]
  /\ UNCHANGED <<pc, exit_code, is_authenticated, session, backup_requested,
                 alarm, pollingVars, safetyVars>>

UserSends ==
  /\ \E c \in Commands : SendUpdate(c, pc = "backup")
  /\ UNCHANGED <<authVars, pc, exit_code, backup_requested, alarm, safetyVars>>

---------------------------------------------------------------------------
Startup == CapturePollingState \/ StartupAuth \/ StartupAuthDone

CommandStep ==
  \/ IgnoreUpdate
  \/ HandleBackup
  \/ HandleAuth
  \/ HandleAuthCode
  \/ HandleReauth
  \/ HandleReauthCode
  \/ AuthCommandDone

LoopStep ==
  \/ ProcessReauthReminders
  \/ PollCommands
  \/ BatchHandled
  \/ NothingDue
  \/ SkipBackup
  \/ EnterSafetyNet

WaitStep == WaitPoll \/ WaitAgain \/ WaitCompleted \/ WaitTimedOut

SafetyStep ==
  SafetyNetAlreadyDone \/ SafetyNetClean \/ SafetyNetPassed \/ SafetyNetBlocks

Process == Startup \/ CommandStep \/ LoopStep \/ WaitStep \/ SafetyStep \/ FinishBackup

Environment == AlarmRings \/ DaysPass \/ UserSends

Next == Boot \/ Crash \/ Process \/ AbortUnhealthy \/ Environment

Spec == Init /\ [][Next]_vars

(* Every wait of the process is bounded (requests have timeouts, sleeps are *)
(* finite, a backup ends), and the clock reaches every epoch.               *)
FairSpec == Spec /\ WF_vars(Process) /\ WF_vars(AlarmRings)

---------------------------------------------------------------------------
(* Safety                                                                   *)

(* A backup runs only in an authenticated process with no reauthentication  *)
(* pending, behind a passed safety net, and with an iCloud session: without *)
(* one list_entries reports an empty and complete drive, and the delete     *)
(* phase would remove every local file.                                     *)
BackupGated ==
  pc = "backup" =>
    /\ is_authenticated
    /\ ~auth_state.reauth_pending
    /\ done_marker
    /\ session # "none"

(* The record on disk is ahead of the process by a reminder that is due:    *)
(* its save took effect and was reported as failed.                         *)
AheadByReminder(s, file) ==
  /\ file.days_left = s.days_left
  /\ file.auth_pending = s.auth_pending
  /\ \/ /\ s.days_left <= 5 /\ s.reminder_stage = "none"
        /\ file.reminder_stage = "alert5" /\ file.reauth_pending = s.reauth_pending
     \/ PromptDue(s) /\ file.reminder_stage = "prompt2" /\ file.reauth_pending

(* Between attempts the authentication an authenticated process believes in *)
(* is the one on disk, so a restart cannot revive an older record: a save   *)
(* reported as failed either withdraws the authentication, or concerns a    *)
(* reminder.  The file may then be one reminder ahead, never behind, and    *)
(* only by one that is due.                                                 *)
DurableWhenAuthenticated ==
  is_authenticated /\ pc \notin {"attempted", "startup_attempted"}
    => auth_file = auth_state \/ AheadByReminder(auth_state, auth_file)

(* The two-day prompt is sent once, so the stage that silences it must not  *)
(* outlive the pending flag that stops backups, in memory or on disk.       *)
PromptImpliesPending ==
  \A s \in {auth_state, auth_file} :
    s.reminder_stage = "prompt2" => s.reauth_pending

(* The two safety-net flags never exist together, whatever step a crash     *)
(* interrupts.                                                              *)
MarkersExclusive == ~(done_marker /\ blocked_marker)

(* No live command is lost: Telegram forgets an update only after a process *)
(* handled it or discarded it at startup.                                   *)
NoCommandLost == forgotten <= settled

(* A process handles no update twice, none that an earlier process handled, *)
(* and none sent before it started, unless its startup capture failed.      *)
FreshCommandsOnly ==
  BatchPending /\ ~cutover_missed =>
    next_update > boot_mark /\ next_update > settled

(* In a one-shot run an authenticated process is ready to back up: it never *)
(* leaves with exit code 3.                                                 *)
OneShotAuthIsReady ==
  RunOnce /\ is_authenticated => ~auth_state.reauth_pending /\ exit_code # 3

(* A running process drops a pending reauthentication only when it has      *)
(* authenticated, or when the record is outside the warning window.         *)
ReauthPendingSticky ==
  [][(/\ Running /\ Running'
      /\ auth_state.reauth_pending
      /\ ~auth_state'.reauth_pending)
     => is_authenticated' \/ OutsideWarningWindow(auth_state)]_vars

---------------------------------------------------------------------------
(* Liveness, under FairSpec                                                 *)

(* The one-shot wait ends by its own clock or by an authentication.         *)
Waiting == RunOnce /\ pc \in {"wait", "command", "attempted"}
WaitEnds == Waiting ~> ~Waiting

=============================================================================
