---------------------------- MODULE WorkerProofs ----------------------------
(***************************************************************************)
(* Proofs about Worker, for every interval, every number of updates and    *)
(* both modes.                                                             *)
(***************************************************************************)
EXTENDS Worker, TLAPS

---------------------------------------------------------------------------
(* What the operators of AuthRuntime return                                 *)

(* A fresh record and the default record are records.                       *)
LEMMA KnownRecords ==
  FreshAuthState \in AuthStates /\ DefaultAuthState \in AuthStates
  BY IntervalAssumption DEF FreshAuthState, DefaultAuthState, AuthStates, Stages

(* Days passing, an attempt and a reminder each turn a record into a record.*)
LEMMA RecordsStayRecords ==
  ASSUME NEW s \in AuthStates, NEW b \in BOOLEAN
  PROVE  /\ Older(s) \in AuthStates
         /\ AttemptTarget(s, b) \in AuthStates
         /\ ReauthRequested(s) \in AuthStates
         /\ ReminderTarget(s) \in AuthStates
  <1>1. Older(s) \in AuthStates
    BY IntervalAssumption DEF Older, AuthStates
  <1>2. AttemptTarget(s, b) \in AuthStates
    BY KnownRecords DEF AttemptTarget, AuthStates
  <1>3. ReauthRequested(s) \in AuthStates
    BY DEF ReauthRequested, AuthStates
  <1>4. ReminderTarget(s) \in AuthStates
    BY DEF ReminderTarget, OutsideWarningWindow, PromptDue, AlertDue, AuthStates, Stages
  <1> QED BY <1>1, <1>2, <1>3, <1>4

(* Apple's answers are sessions with a verdict.                             *)
LEMMA OutcomesTyped ==
  ASSUME NEW s \in Sessions
  PROVE  /\ StartAuthentication \subseteq [session : Sessions, success : BOOLEAN]
         /\ CompleteAuthentication(s) \subseteq [session : Sessions, success : BOOLEAN]
  <1>1. StartAuthentication \subseteq [session : Sessions, success : BOOLEAN]
    <2> SUFFICES ASSUME NEW r \in StartAuthentication
                 PROVE  r \in [session : Sessions, success : BOOLEAN]
      OBVIOUS
    <2>1. PICK t \in Sessions : r = [session |-> t, success |-> t = "accepted"]
      BY DEF StartAuthentication
    <2>2. (t = "accepted") \in BOOLEAN
      OBVIOUS
    <2> QED BY <2>1, <2>2
  <1>2. CompleteAuthentication(s) \subseteq [session : Sessions, success : BOOLEAN]
    <2> SUFFICES ASSUME NEW r \in CompleteAuthentication(s)
                 PROVE  r \in [session : Sessions, success : BOOLEAN]
      OBVIOUS
    <2>1. PICK t \in Sessions :
            r = [session |-> t, success |-> t \in {"accepted", "requires_2sa"}]
      BY DEF CompleteAuthentication, Sessions
    <2>2. (t \in {"accepted", "requires_2sa"}) \in BOOLEAN
      OBVIOUS
    <2> QED BY <2>1, <2>2
  <1> QED BY <1>1, <1>2

---------------------------------------------------------------------------
(* Type correctness                                                         *)

(* One attempt keeps the types, whatever Apple answers.                     *)
LEMMA AttemptTyped ==
  ASSUME TypeOK, NEW passed \in AuthStates,
         NEW outcomes \in SUBSET [session : Sessions, success : BOOLEAN],
         AttemptAuth(passed, outcomes)
  PROVE  /\ auth_file' \in AuthStates
         /\ auth_state' \in AuthStates
         /\ is_authenticated' \in BOOLEAN
         /\ session' \in Sessions
         /\ attempt' \in [state : AuthStates, success : BOOLEAN]
  <1> PICK r \in outcomes :
        /\ session' = r.session
        /\ \/ /\ auth_file' = AttemptTarget(passed, r.success)
              /\ attempt' = [state   |-> AttemptTarget(passed, r.success),
                             success |-> r.success]
           \/ /\ attempt' = [state |-> passed, success |-> FALSE]
              /\ auth_file' \in {auth_file, AttemptTarget(passed, r.success)}
        /\ UNCHANGED <<auth_state, is_authenticated>>
    BY DEF AttemptAuth, SaveAuthState
  <1>1. r.session \in Sessions /\ r.success \in BOOLEAN
    OBVIOUS
  <1>2. AttemptTarget(passed, r.success) \in AuthStates
    BY <1>1, RecordsStayRecords
  <1>3. /\ auth_state' \in AuthStates
        /\ is_authenticated' \in BOOLEAN
        /\ session' \in Sessions
    BY <1>1 DEF TypeOK, WorkerTypeOK
  <1>4. auth_file' \in AuthStates /\ attempt' \in [state : AuthStates, success : BOOLEAN]
    <2>1. CASE /\ auth_file' = AttemptTarget(passed, r.success)
               /\ attempt' = [state   |-> AttemptTarget(passed, r.success),
                              success |-> r.success]
      BY <2>1, <1>1, <1>2
    <2>2. CASE /\ attempt' = [state |-> passed, success |-> FALSE]
               /\ auth_file' \in {auth_file, AttemptTarget(passed, r.success)}
      BY <2>2, <1>2 DEF TypeOK, WorkerTypeOK
    <2> QED BY <2>1, <2>2
  <1> QED BY <1>3, <1>4

(* The cursor stays within the updates ever sent, so that the worker never  *)
(* asks Telegram for, or handles, an update that does not exist.            *)
CursorOK ==
  /\ next_update <= cursor
  /\ cursor = NoCursor => next_update = 0
  /\ cursor # NoCursor => next_update > 0 /\ forgotten < cursor

PollingAction ==
  \/ ForgetPollingState
  \/ cursor = NoCursor /\ CaptureStartupCursor
  \/ ReadCommandBatch
  \/ BatchPending /\ SettleUpdate
  \/ \E c \in Commands, b \in BOOLEAN : SendUpdate(c, b)
  \/ UNCHANGED pollingVars

(* Every polling step keeps the types and the bounds of the cursor.         *)
LEMMA PollingStep ==
  ASSUME PollingTypeOK, CursorOK, PollingAction
  PROVE  PollingTypeOK' /\ CursorOK'
  <1> USE DEF NoCursor, Later
  <1> DEFINE Bounds == /\ updates \in Seq(Updates)
                       /\ forgotten \in 0 .. Len(updates)
                       /\ cursor \in 0 .. Len(updates) + 1
                       /\ next_update \in 0 .. Len(updates) + 1
                       /\ boot_mark \in 0 .. Len(updates)
                       /\ settled \in 0 .. Len(updates)
                       /\ CursorOK
  <1>0. Bounds /\ Len(updates) \in Nat
    BY DEF PollingTypeOK
  <1>1. CASE ForgetPollingState
    <2>1. Bounds'
      BY <1>0, <1>1 DEF ForgetPollingState, CursorOK
    <2>2. cutover_missed' \in BOOLEAN
      BY <1>1 DEF ForgetPollingState
    <2> QED BY <2>1, <2>2 DEF PollingTypeOK
  <1>2. CASE cursor = NoCursor /\ CaptureStartupCursor
    <2>1. Bounds'
      BY <1>0, <1>2 DEF CaptureStartupCursor, CursorOK
    <2>2. cutover_missed' \in BOOLEAN
      <3>1. cutover_missed' = FALSE \/ cutover_missed' = (forgotten' < Len(updates))
        BY <1>2 DEF CaptureStartupCursor
      <3>2. (forgotten' < Len(updates)) \in BOOLEAN
        OBVIOUS
      <3> QED BY <3>1, <3>2
    <2> QED BY <2>1, <2>2 DEF PollingTypeOK
  <1>3. CASE ReadCommandBatch
    <2>1. Bounds'
      BY <1>0, <1>3 DEF ReadCommandBatch, CursorOK
    <2>2. cutover_missed' \in BOOLEAN
      BY <1>3 DEF ReadCommandBatch, PollingTypeOK
    <2> QED BY <2>1, <2>2 DEF PollingTypeOK
  <1>4. CASE BatchPending /\ SettleUpdate
    <2>1. Bounds'
      BY <1>0, <1>4 DEF SettleUpdate, BatchPending, CursorOK
    <2>2. cutover_missed' \in BOOLEAN
      BY <1>4 DEF SettleUpdate, PollingTypeOK
    <2> QED BY <2>1, <2>2 DEF PollingTypeOK
  <1>5. CASE \E c \in Commands, b \in BOOLEAN : SendUpdate(c, b)
    <2> PICK c \in Commands, b \in BOOLEAN : SendUpdate(c, b)
      BY <1>5
    <2>1. [command |-> c, during_backup |-> b] \in Updates
      BY DEF Updates
    <2>2. updates' \in Seq(Updates) /\ Len(updates') = Len(updates) + 1
      BY <1>0, <2>1 DEF SendUpdate
    <2>3. Bounds'
      BY <1>0, <2>2 DEF SendUpdate, CursorOK
    <2>4. cutover_missed' \in BOOLEAN
      BY DEF SendUpdate, PollingTypeOK
    <2> QED BY <2>3, <2>4 DEF PollingTypeOK
  <1>6. CASE UNCHANGED pollingVars
    BY <1>6 DEF pollingVars, PollingTypeOK, CursorOK
  <1> QED BY <1>1, <1>2, <1>3, <1>4, <1>5, <1>6 DEF PollingAction

---------------------------------------------------------------------------
(* Type correctness of the worker                                           *)

(* The phases in which the polling state is known to be without a cursor,   *)
(* or without a pending batch.                                              *)
PhaseOK ==
  /\ pc = "capture" => cursor = NoCursor
  /\ pc = "attempted" => BatchPending
  /\ pc \in {"startup_auth", "startup_attempted", "loop", "poll", "decide", "wait"}
       => ~BatchPending
  /\ pc \in {"safety", "safety_passed", "backup"} => RunOnce \/ ~BatchPending
  /\ pc \in {"loop", "poll", "decide"} => ~RunOnce

(* Every step of the worker is one polling step.                            *)
LEMMA EveryStepPolls ==
  ASSUME PhaseOK, [Next]_vars
  PROVE  PollingAction
  <1>1. CASE Boot
    BY <1>1 DEF Boot, PollingAction
  <1>2. CASE CapturePollingState
    BY <1>2 DEF CapturePollingState, Goto, PhaseOK, PollingAction
  <1>3. CASE IgnoreUpdate \/ HandleBackup
    BY <1>3 DEF IgnoreUpdate, HandleBackup, Handling, PollingAction
  <1>4. CASE AuthCommandDone
    BY <1>4 DEF AuthCommandDone, Goto, PhaseOK, PollingAction
  <1>5. CASE PollCommands \/ WaitPoll
    BY <1>5 DEF PollCommands, WaitPoll, PollingAction
  <1>6. CASE UserSends
    <2>1. (pc = "backup") \in BOOLEAN
      OBVIOUS
    <2> QED BY <1>6, <2>1 DEF UserSends, PollingAction
  <1>7. CASE \/ Crash \/ AbortUnhealthy \/ AlarmRings \/ DaysPass
             \/ StartupAuth \/ StartupAuthDone
    BY <1>7 DEF Crash, AbortUnhealthy, AlarmRings, DaysPass, StartupAuth,
                StartupAuthDone, PollingAction
  <1>8. CASE HandleAuth \/ HandleAuthCode \/ HandleReauth \/ HandleReauthCode
    BY <1>8 DEF HandleAuth, HandleAuthCode, HandleReauth, HandleReauthCode,
                HandleAuthCommand, PollingAction
  <1>9. CASE \/ ProcessReauthReminders \/ BatchHandled \/ NothingDue
             \/ SkipBackup \/ EnterSafetyNet
    BY <1>9 DEF ProcessReauthReminders, BatchHandled, NothingDue, SkipBackup,
                EnterSafetyNet, PollingAction
  <1>10. CASE WaitAgain \/ WaitCompleted \/ WaitTimedOut
    BY <1>10 DEF WaitAgain, WaitCompleted, WaitTimedOut, PollingAction
  <1>11. CASE SafetyStep \/ FinishBackup
    BY <1>11 DEF SafetyStep, SafetyNetAlreadyDone, SafetyNetClean, SafetyNetPassed,
                 SafetyNetBlocks, FinishBackup, PollingAction
  <1>12. CASE UNCHANGED vars
    BY <1>12 DEF vars, PollingAction
  <1> QED BY <1>1, <1>2, <1>3, <1>4, <1>5, <1>6, <1>7, <1>8, <1>9, <1>10, <1>11,
             <1>12
          DEF Next, Process, Startup, CommandStep, LoopStep, WaitStep, Environment

(* The phases agree with the polling state.                                 *)
LEMMA PhaseStep ==
  ASSUME PollingTypeOK, CursorOK, PhaseOK, [Next]_vars
  PROVE  PhaseOK'
  <1> USE DEF PhaseOK, BatchPending, Goto
  <1>1. CASE Boot
    BY <1>1 DEF Boot, ForgetPollingState
  <1>2. CASE CapturePollingState
    BY <1>2 DEF CapturePollingState, CaptureStartupCursor, CursorOK, PollingTypeOK, NoCursor
  <1>3. CASE IgnoreUpdate \/ HandleBackup
    BY <1>3 DEF IgnoreUpdate, HandleBackup, Handling
  <1>4. CASE AuthCommandDone
    BY <1>4 DEF AuthCommandDone
  <1>5. CASE PollCommands \/ WaitPoll
    BY <1>5 DEF PollCommands, WaitPoll
  <1>6. CASE UserSends
    BY <1>6 DEF UserSends, SendUpdate
  <1>7. CASE Crash \/ AbortUnhealthy \/ AlarmRings \/ DaysPass
    BY <1>7 DEF Crash, AbortUnhealthy, AlarmRings, DaysPass, Exit, pollingVars
  <1>8. CASE StartupAuth \/ StartupAuthDone
    BY <1>8 DEF StartupAuth, StartupAuthDone, pollingVars
  <1>9. CASE HandleAuth \/ HandleAuthCode \/ HandleReauth \/ HandleReauthCode
    BY <1>9 DEF HandleAuth, HandleAuthCode, HandleReauth, HandleReauthCode,
                HandleAuthCommand, Handling, pollingVars
  <1>10. CASE \/ ProcessReauthReminders \/ BatchHandled \/ NothingDue
              \/ SkipBackup \/ EnterSafetyNet
    BY <1>10 DEF ProcessReauthReminders, BatchHandled, NothingDue, SkipBackup,
                 EnterSafetyNet, pollingVars
  <1>11. CASE WaitAgain \/ WaitCompleted \/ WaitTimedOut
    BY <1>11 DEF WaitAgain, WaitCompleted, WaitTimedOut, WaitOver, Exit, pollingVars
  <1>12. CASE SafetyStep \/ FinishBackup
    BY <1>12 DEF SafetyStep, SafetyNetAlreadyDone, SafetyNetClean, SafetyNetPassed,
                 SafetyNetBlocks, FinishBackup, Exit, pollingVars
  <1>13. CASE UNCHANGED vars
    BY <1>13 DEF vars, pollingVars
  <1> QED BY <1>1, <1>2, <1>3, <1>4, <1>5, <1>6, <1>7, <1>8, <1>9, <1>10, <1>11,
             <1>12, <1>13
          DEF Next, Process, Startup, CommandStep, LoopStep, WaitStep, Environment

(* Every step keeps the types of the worker's and the safety net's state.   *)
LEMMA WorkerTypeStep ==
  ASSUME TypeOK, [Next]_vars
  PROVE  WorkerTypeOK' /\ SafetyTypeOK'
  <1> USE DEF TypeOK, WorkerTypeOK, SafetyTypeOK, Goto, Exit, Phases, ExitCodes
  <1>1. CASE Boot
    <2>1. auth_state' \in AuthStates
      BY <1>1, KnownRecords DEF Boot
    <2> QED BY <1>1, <2>1, KnownRecords DEF Boot, NoAttempt, Sessions, safetyVars
  <1>2. CASE Crash
    BY <1>2, KnownRecords DEF Crash, NoAttempt, Sessions, safetyVars
  <1>3. CASE CapturePollingState \/ PollCommands \/ WaitPoll
    BY <1>3 DEF CapturePollingState, PollCommands, WaitPoll, authVars, safetyVars
  <1>4. CASE StartupAuth
    <2>1. StartAuthentication \in SUBSET [session : Sessions, success : BOOLEAN]
      BY OutcomesTyped
    <2>2. auth_state \in AuthStates /\ AttemptAuth(auth_state, StartAuthentication)
      BY <1>4 DEF StartupAuth
    <2> HIDE DEF TypeOK
    <2>3. /\ auth_file' \in AuthStates
          /\ auth_state' \in AuthStates
          /\ is_authenticated' \in BOOLEAN
          /\ session' \in Sessions
          /\ attempt' \in [state : AuthStates, success : BOOLEAN]
      BY <2>1, <2>2, AttemptTyped
    <2> QED BY <1>4, <2>3 DEF StartupAuth, TypeOK, safetyVars
  <1>5. CASE StartupAuthDone \/ AuthCommandDone
    <2>1. ConcludeAttempt
      BY <1>5 DEF StartupAuthDone, AuthCommandDone
    <2>2. auth_state' \in AuthStates /\ auth_file' \in AuthStates /\ session' \in Sessions
      BY <2>1 DEF ConcludeAttempt
    <2>3. is_authenticated' \in BOOLEAN
      BY <2>1 DEF ConcludeAttempt
    <2>4. attempt' \in [state : AuthStates, success : BOOLEAN]
      BY <2>1, KnownRecords DEF ConcludeAttempt, NoAttempt
    <2>5. alarm' \in BOOLEAN /\ backup_requested' \in BOOLEAN
      BY <1>5 DEF StartupAuthDone, AuthCommandDone
    <2>6. pc' \in Phases /\ exit_code' \in ExitCodes \cup {NoExit} /\ SafetyTypeOK'
      BY <1>5 DEF StartupAuthDone, AuthCommandDone, safetyVars
    <2> QED BY <2>2, <2>3, <2>4, <2>5, <2>6
  <1>6. CASE IgnoreUpdate \/ HandleBackup
    BY <1>6 DEF IgnoreUpdate, HandleBackup, Handling, authVars, safetyVars
  <1>7. CASE HandleAuth \/ HandleAuthCode \/ HandleReauth \/ HandleReauthCode
    <2>1. PICK passed \in {auth_state, ReauthRequested(auth_state)},
               outcomes \in {StartAuthentication, CompleteAuthentication(session)} :
            AttemptAuth(passed, outcomes)
      BY <1>7 DEF HandleAuth, HandleAuthCode, HandleReauth, HandleReauthCode,
                  HandleAuthCommand
    <2>2. outcomes \in SUBSET [session : Sessions, success : BOOLEAN]
      BY OutcomesTyped
    <2>3. passed \in AuthStates
      BY RecordsStayRecords
    <2> HIDE DEF TypeOK
    <2>4. /\ auth_file' \in AuthStates
          /\ auth_state' \in AuthStates
          /\ is_authenticated' \in BOOLEAN
          /\ session' \in Sessions
          /\ attempt' \in [state : AuthStates, success : BOOLEAN]
      BY <2>1, <2>2, <2>3, AttemptTyped
    <2> QED BY <1>7, <2>4 DEF HandleAuth, HandleAuthCode, HandleReauth, HandleReauthCode,
                              HandleAuthCommand, TypeOK, safetyVars
  <1>8. CASE ProcessReauthReminders
    <2>1. ReminderTarget(auth_state) \in AuthStates
      BY RecordsStayRecords
    <2> QED BY <1>8, <2>1 DEF ProcessReauthReminders, SaveAuthState, safetyVars
  <1>9. CASE BatchHandled \/ NothingDue \/ SkipBackup \/ EnterSafetyNet
    BY <1>9 DEF BatchHandled, NothingDue, SkipBackup, EnterSafetyNet, authVars, safetyVars
  <1>10. CASE SafetyStep \/ FinishBackup
    BY <1>10 DEF SafetyStep, SafetyNetAlreadyDone, SafetyNetClean, SafetyNetPassed,
                 SafetyNetBlocks, RemoveStaleBlock, MarkDone, BlockBackup, FinishBackup,
                 authVars, safetyVars
  <1>11. CASE WaitAgain \/ WaitCompleted \/ WaitTimedOut \/ AbortUnhealthy
    BY <1>11 DEF WaitAgain, WaitCompleted, WaitTimedOut, AbortUnhealthy, authVars,
                 safetyVars
  <1>12. CASE AlarmRings \/ UserSends
    <2>1. CASE AlarmRings
      BY <2>1 DEF AlarmRings, authVars, safetyVars
    <2>2. CASE UserSends
      BY <2>2 DEF UserSends, authVars, safetyVars
    <2> QED BY <1>12, <2>1, <2>2
  <1>13. CASE DaysPass
    <2>1. /\ Older(auth_file) \in AuthStates
          /\ Older(auth_state) \in AuthStates
          /\ Older(attempt.state) \in AuthStates
      BY RecordsStayRecords
    <2> QED BY <1>13, <2>1 DEF DaysPass, safetyVars
  <1>14. CASE UNCHANGED vars
    BY <1>14 DEF vars, safetyVars
  <1> QED BY <1>1, <1>2, <1>3, <1>4, <1>5, <1>6, <1>7, <1>8, <1>9, <1>10, <1>11,
             <1>12, <1>13, <1>14
          DEF Next, Process, Startup, CommandStep, LoopStep, WaitStep, Environment

TypeInv == TypeOK /\ CursorOK /\ PhaseOK

(* The initial state satisfies the inductive invariant of types and phases. *)
LEMMA TypeInvInit == Init => TypeInv
  <1> SUFFICES ASSUME Init PROVE TypeInv
    OBVIOUS
  <1>1. WorkerTypeOK /\ SafetyTypeOK
    BY KnownRecords DEF Init, WorkerTypeOK, SafetyTypeOK, SafetyInit, NoAttempt, Phases,
                        Sessions
  <1>2. updates = <<>> /\ updates \in Seq(Updates) /\ Len(updates) = 0
    BY DEF Init, PollingInit
  <1>3. PollingTypeOK
    <2>1. cutover_missed \in BOOLEAN
      BY DEF Init, PollingInit
    <2>2. /\ forgotten = 0 /\ cursor = 0 /\ next_update = 0
          /\ boot_mark = 0 /\ settled = 0
      BY DEF Init, PollingInit, NoCursor
    <2>3. /\ 0 \in 0 .. Len(updates) /\ 0 \in 0 .. Len(updates) + 1
      BY <1>2
    <2> QED BY <1>2, <2>1, <2>2, <2>3 DEF PollingTypeOK
  <1>4. CursorOK /\ PhaseOK
    BY DEF Init, PollingInit, CursorOK, PhaseOK, NoCursor
  <1> QED BY <1>1, <1>3, <1>4 DEF TypeInv, TypeOK

(* Every step keeps it.                                                     *)
LEMMA TypeInvStep == TypeInv /\ [Next]_vars => TypeInv'
  BY EveryStepPolls, PollingStep, PhaseStep, WorkerTypeStep DEF TypeInv, TypeOK

(* The worker's state stays typed, its cursor within the updates ever sent, *)
(* and its phases in step with the batch.                                   *)
THEOREM TypeInvariant == Spec => []TypeInv
  BY TypeInvInit, TypeInvStep, PTL DEF Spec

(* Type correctness.                                                        *)
THEOREM TypeCorrect == Spec => []TypeOK
  BY TypeInvariant, PTL DEF TypeInv

---------------------------------------------------------------------------
(* Authentication, the gates and the safety net                             *)

Silenced(s) == s.reminder_stage = "prompt2" => s.reauth_pending

(* No operator on records separates the two-day stage from its pending      *)
(* flag; the ones that only age a record or fail to authenticate keep both. *)
LEMMA RecordsStaySilenced ==
  ASSUME NEW s \in AuthStates, NEW b \in BOOLEAN, Silenced(s)
  PROVE  /\ Silenced(Older(s))
         /\ Silenced(AttemptTarget(s, b))
         /\ Silenced(ReauthRequested(s))
         /\ Silenced(ReminderTarget(s))
         /\ Older(s).reauth_pending = s.reauth_pending
         /\ b => ~AttemptTarget(s, b).reauth_pending
  <1> USE DEF AuthStates, Silenced
  <1>1. Silenced(Older(s)) /\ Older(s).reauth_pending = s.reauth_pending
    BY DEF Older
  <1>2. Silenced(AttemptTarget(s, b)) /\ (b => ~AttemptTarget(s, b).reauth_pending)
    BY DEF AttemptTarget, FreshAuthState
  <1>3. Silenced(ReauthRequested(s))
    BY DEF ReauthRequested
  <1>4. Silenced(ReminderTarget(s))
    BY DEF ReminderTarget, OutsideWarningWindow, PromptDue, AlertDue, Stages
  <1> QED BY <1>1, <1>2, <1>3, <1>4

(* No reminder is recorded before the warning window.                       *)
Unreminded(s) == OutsideWarningWindow(s) => s.reminder_stage = "none" /\ ~s.reauth_pending

OneAuthentication(s, file) == file = s \/ AheadByReminder(s, file)

(* Records with the same fields are the same record.                        *)
LEMMA SameRecord ==
  ASSUME NEW s \in AuthStates, NEW r \in AuthStates,
         s.days_left = r.days_left, s.auth_pending = r.auth_pending,
         s.reauth_pending = r.reauth_pending, s.reminder_stage = r.reminder_stage
  PROVE  s = r
  BY DEF AuthStates

(* Days passing change the days alone, by the days there were.              *)
LEMMA OlderFields ==
  ASSUME NEW s \in AuthStates
  PROVE  /\ Older(s).days_left = IF s.days_left <= DayStep THEN 0 ELSE s.days_left - DayStep
         /\ Older(s).days_left \in Int /\ s.days_left \in Int
         /\ Older(s).days_left <= s.days_left
         /\ Older(s).auth_pending = s.auth_pending
         /\ Older(s).reauth_pending = s.reauth_pending
         /\ Older(s).reminder_stage = s.reminder_stage
  BY IntervalAssumption DEF AuthStates, Older

(* The file stays at most a due reminder ahead as both records age.         *)
LEMMA AgeKeepsAhead ==
  ASSUME NEW s \in AuthStates, NEW file \in AuthStates,
         OneAuthentication(s, file), Unreminded(s)
  PROVE  OneAuthentication(Older(s), Older(file)) /\ Unreminded(Older(s))
  <1>1. Unreminded(Older(s))
    BY OlderFields DEF Unreminded, OutsideWarningWindow
  <1>2. CASE AheadByReminder(s, file)
    <2>1. Older(file).days_left = Older(s).days_left
      BY <1>2, OlderFields DEF AheadByReminder
    <2>2. Older(file).auth_pending = Older(s).auth_pending
      BY <1>2, OlderFields DEF AheadByReminder
    <2>3. s.days_left <= 5 => Older(s).days_left <= 5
      BY OlderFields
    <2>4. PromptDue(s) => PromptDue(Older(s))
      BY OlderFields DEF PromptDue
    <2>5. CASE /\ s.days_left <= 5 /\ s.reminder_stage = "none"
               /\ file.reminder_stage = "alert5" /\ file.reauth_pending = s.reauth_pending
      <3>1. /\ Older(s).reminder_stage = "none" /\ Older(file).reminder_stage = "alert5"
            /\ Older(file).reauth_pending = Older(s).reauth_pending
        BY <2>5, OlderFields
      <3> QED BY <1>1, <2>1, <2>2, <2>3, <2>5, <3>1 DEF OneAuthentication, AheadByReminder
    <2>6. CASE PromptDue(s) /\ file.reminder_stage = "prompt2" /\ file.reauth_pending
      <3>1. Older(file).reminder_stage = "prompt2" /\ Older(file).reauth_pending
        BY <2>6, OlderFields
      <3> QED BY <1>1, <2>1, <2>2, <2>4, <2>6, <3>1 DEF OneAuthentication, AheadByReminder
    <2> QED BY <1>2, <2>5, <2>6 DEF AheadByReminder
  <1> QED BY <1>1, <1>2 DEF OneAuthentication

(* What each reminder changes.                                              *)
LEMMA ReminderFields ==
  ASSUME NEW s \in AuthStates
  PROVE  /\ ReminderTarget(s).days_left = s.days_left
         /\ ReminderTarget(s).auth_pending = s.auth_pending
         /\ OutsideWarningWindow(s) =>
              /\ ReminderTarget(s).reminder_stage = "none"
              /\ ~ReminderTarget(s).reauth_pending
         /\ PromptDue(s) =>
              /\ ReminderTarget(s).reminder_stage = "prompt2"
              /\ ReminderTarget(s).reauth_pending
         /\ ~OutsideWarningWindow(s) /\ ~PromptDue(s) =>
              \/ ReminderTarget(s) = s
              \/ /\ s.reminder_stage = "none"
                 /\ ReminderTarget(s).reminder_stage = "alert5"
                 /\ ReminderTarget(s).reauth_pending = s.reauth_pending
  <1>0. s.days_left \in Int
    BY DEF AuthStates
  <1>1. CASE OutsideWarningWindow(s)
    <2>1. ~PromptDue(s) /\ ~AlertDue(s)
      BY <1>0, <1>1 DEF OutsideWarningWindow, PromptDue, AlertDue
    <2>2. ReminderTarget(s) = [s EXCEPT !.reminder_stage = "none", !.reauth_pending = FALSE]
      BY <1>1, <2>1 DEF ReminderTarget
    <2> QED BY <1>1, <2>1, <2>2 DEF AuthStates
  <1>2. CASE PromptDue(s)
    <2>1. ~OutsideWarningWindow(s) /\ ~AlertDue(s)
      BY <1>0, <1>2 DEF OutsideWarningWindow, PromptDue, AlertDue
    <2>2. ReminderTarget(s) = [s EXCEPT !.reminder_stage = "prompt2", !.reauth_pending = TRUE]
      BY <1>2, <2>1 DEF ReminderTarget
    <2> QED BY <1>2, <2>1, <2>2 DEF AuthStates
  <1>3. CASE ~OutsideWarningWindow(s) /\ ~PromptDue(s) /\ AlertDue(s)
    <2>1. ReminderTarget(s) = [s EXCEPT !.reminder_stage = "alert5"]
      BY <1>3 DEF ReminderTarget
    <2> QED BY <1>3, <2>1 DEF AlertDue, AuthStates
  <1>4. CASE ~OutsideWarningWindow(s) /\ ~PromptDue(s) /\ ~AlertDue(s)
    <2>1. ReminderTarget(s) = s
      BY <1>4 DEF ReminderTarget
    <2> QED BY <1>4, <2>1
  <1> QED BY <1>1, <1>2, <1>3, <1>4

(* A reminder whose save is reported as failed puts the file at most that   *)
(* reminder ahead: outside the warning window there is nothing to save.     *)
LEMMA ReminderKeepsAhead ==
  ASSUME NEW s \in AuthStates, Unreminded(s), ReminderTarget(s) # s
  PROVE  AheadByReminder(s, ReminderTarget(s)) /\ Unreminded(ReminderTarget(s))
  <1>1. ReminderTarget(s) \in AuthStates
    BY RecordsStayRecords
  <1>2. CASE OutsideWarningWindow(s)
    <2>1. /\ s.reminder_stage = "none" /\ s.reauth_pending = FALSE
          /\ ReminderTarget(s).reauth_pending = FALSE
      BY <1>1, <1>2, ReminderFields DEF Unreminded, AuthStates
    <2> QED BY <1>1, <1>2, <2>1, SameRecord, ReminderFields
  <1>3. CASE ~OutsideWarningWindow(s)
    <2>1. s.days_left <= 5
      BY <1>3 DEF OutsideWarningWindow, AuthStates
    <2>2. Unreminded(ReminderTarget(s))
      BY <1>3, ReminderFields DEF Unreminded, OutsideWarningWindow
    <2> QED BY <1>3, <2>1, <2>2, ReminderFields DEF AheadByReminder
  <1> QED BY <1>2, <1>3

AttemptPhases == {"attempted", "startup_attempted"}
GatedPhases == {"safety", "safety_passed", "backup"}

(* What holds of the records, the session and the pending attempt.          *)
RecordInv ==
  /\ Silenced(auth_state) /\ Silenced(auth_file) /\ Silenced(attempt.state)
  /\ is_authenticated => session # "none"
  /\ pc \in AttemptPhases /\ attempt.success =>
       /\ attempt.state = auth_file
       /\ session # "none"
       /\ ~attempt.state.reauth_pending
       /\ attempt.state.reminder_stage = "none"
  /\ is_authenticated /\ pc \notin AttemptPhases =>
       OneAuthentication(auth_state, auth_file) /\ Unreminded(auth_state)

(* What holds behind the gates.                                             *)
GateInv ==
  /\ pc \in GatedPhases => is_authenticated /\ ~auth_state.reauth_pending
  /\ RunOnce /\ is_authenticated => ~auth_state.reauth_pending
  /\ pc = "wait" => ~is_authenticated
  /\ exit_code # 3

(* What holds of the flags of the safety net.                               *)
MarkerInv ==
  /\ ~(done_marker /\ blocked_marker)
  /\ pc = "safety_passed" => ~blocked_marker
  /\ pc = "backup" => done_marker

AuthInv == RecordInv /\ GateInv /\ MarkerInv

(* An attempt that reports success has saved its record and has a session.  *)
LEMMA AttemptKeepsRecords ==
  ASSUME TypeInv, RecordInv, NEW passed \in AuthStates, Silenced(passed),
         NEW outcomes \in SUBSET [session : Sessions, success : BOOLEAN],
         \A r \in outcomes : r.success \/ is_authenticated => r.session # "none",
         AttemptAuth(passed, outcomes), pc' \in AttemptPhases
  PROVE  RecordInv'
  <1> PICK r \in outcomes :
        /\ session' = r.session
        /\ \/ /\ auth_file' = AttemptTarget(passed, r.success)
              /\ attempt' = [state   |-> AttemptTarget(passed, r.success),
                             success |-> r.success]
           \/ /\ attempt' = [state |-> passed, success |-> FALSE]
              /\ auth_file' \in {auth_file, AttemptTarget(passed, r.success)}
        /\ UNCHANGED <<auth_state, is_authenticated>>
    BY DEF AttemptAuth, SaveAuthState
  <1>1. r.session \in Sessions /\ r.success \in BOOLEAN
    OBVIOUS
  <1>2. /\ Silenced(AttemptTarget(passed, r.success))
        /\ r.success => /\ ~AttemptTarget(passed, r.success).reauth_pending
                        /\ AttemptTarget(passed, r.success).reminder_stage = "none"
    BY <1>1, RecordsStaySilenced DEF AttemptTarget, FreshAuthState
  <1>3. /\ Silenced(auth_state') /\ Silenced(auth_file') /\ Silenced(attempt'.state)
    BY <1>2 DEF RecordInv
  <1>4. (is_authenticated => session # "none")'
    OBVIOUS
  <1>5. attempt'.success =>
          /\ attempt'.state = auth_file'
          /\ session' # "none"
          /\ ~attempt'.state.reauth_pending
          /\ attempt'.state.reminder_stage = "none"
    BY <1>2
  <1> QED BY <1>3, <1>4, <1>5 DEF RecordInv, Silenced

(* Apple answers a running session's code, or a new login, with a session.  *)
LEMMA OutcomesHoldSession ==
  ASSUME is_authenticated => session # "none", session \in Sessions,
         NEW outcomes \in {StartAuthentication, CompleteAuthentication(session)},
         NEW r \in outcomes, r.success \/ is_authenticated
  PROVE  r.session # "none"
  <1>1. CASE outcomes = StartAuthentication
    <2> PICK t \in Sessions \ {"none"} : r = [session |-> t, success |-> t = "accepted"]
      BY <1>1 DEF StartAuthentication
    <2> QED OBVIOUS
  <1>2. CASE outcomes = CompleteAuthentication(session)
    <2> PICK t \in IF session = "requires_2fa" THEN {"requires_2fa", "accepted"}
                                              ELSE {session} :
          r = [session |-> t, success |-> t \in {"accepted", "requires_2sa"}]
      BY <1>2 DEF CompleteAuthentication
    <2> QED OBVIOUS
  <1> QED BY <1>1, <1>2

(* Every step keeps what holds of the records.                              *)
LEMMA RecordStep ==
  ASSUME TypeInv, RecordInv, [Next]_vars
  PROVE  RecordInv'
  <1> USE DEF Goto
  <1>0. /\ auth_state \in AuthStates /\ auth_file \in AuthStates
        /\ attempt \in [state : AuthStates, success : BOOLEAN]
        /\ session \in Sessions /\ is_authenticated \in BOOLEAN
    BY DEF TypeInv, TypeOK, WorkerTypeOK
  <1>d. Silenced(DefaultAuthState) /\ ~DefaultAuthState.reauth_pending
    BY DEF Silenced, DefaultAuthState
  <1>1. CASE Boot \/ Crash
    BY <1>1, <1>d DEF Boot, Crash, RecordInv, NoAttempt, Silenced, AttemptPhases
  <1>2. CASE StartupAuth
    <2>1. AttemptAuth(auth_state, StartAuthentication) /\ pc' \in AttemptPhases
      BY <1>2 DEF StartupAuth, AttemptPhases
    <2>2. Silenced(auth_state)
      BY DEF RecordInv
    <2>3. StartAuthentication \in SUBSET [session : Sessions, success : BOOLEAN]
      BY OutcomesTyped, <1>0
    <2>4. \A r \in StartAuthentication : r.success \/ is_authenticated => r.session # "none"
      BY OutcomesHoldSession, <1>0 DEF RecordInv
    <2> QED BY <2>1, <2>2, <2>3, <2>4, <1>0, AttemptKeepsRecords
  <1>3. CASE HandleAuth \/ HandleAuthCode \/ HandleReauth \/ HandleReauthCode
    <2>1. PICK passed \in {auth_state, ReauthRequested(auth_state)},
               outcomes \in {StartAuthentication, CompleteAuthentication(session)} :
            AttemptAuth(passed, outcomes) /\ pc' \in AttemptPhases
      BY <1>3 DEF HandleAuth, HandleAuthCode, HandleReauth, HandleReauthCode,
                  HandleAuthCommand, AttemptPhases
    <2>2. passed \in AuthStates /\ Silenced(passed)
      BY <1>0, RecordsStayRecords, RecordsStaySilenced DEF RecordInv
    <2>3. outcomes \in SUBSET [session : Sessions, success : BOOLEAN]
      BY OutcomesTyped, <1>0
    <2>4. \A r \in outcomes : r.success \/ is_authenticated => r.session # "none"
      BY OutcomesHoldSession, <1>0 DEF RecordInv
    <2> QED BY <2>1, <2>2, <2>3, <2>4, AttemptKeepsRecords
  <1>4. CASE StartupAuthDone \/ AuthCommandDone
    <2>1. pc \in AttemptPhases /\ pc' \notin AttemptPhases /\ ConcludeAttempt
      BY <1>4 DEF StartupAuthDone, AuthCommandDone, AttemptPhases
    <2> QED BY <2>1, <1>d DEF ConcludeAttempt, RecordInv, NoAttempt, Silenced,
                              OneAuthentication, Unreminded
  <1>5. CASE ProcessReauthReminders
    <2>1. Silenced(ReminderTarget(auth_state))
      BY <1>0, RecordsStaySilenced DEF RecordInv
    <2>2. /\ pc \notin AttemptPhases /\ pc' \notin AttemptPhases
          /\ UNCHANGED <<is_authenticated, session, attempt>>
      BY <1>5 DEF ProcessReauthReminders, AttemptPhases
    <2>3. CASE UNCHANGED <<auth_file, auth_state>>
      BY <2>2, <2>3 DEF RecordInv, Silenced
    <2> DEFINE target == ReminderTarget(auth_state)
    <2>4. CASE target # auth_state /\ auth_file' = target /\ auth_state' = target
      <3>1. is_authenticated => OneAuthentication(target, target) /\ Unreminded(target)
        BY <1>0, <2>2, <2>4, ReminderKeepsAhead DEF RecordInv, OneAuthentication
      <3> QED BY <2>1, <2>2, <2>4, <3>1 DEF RecordInv, Silenced
    <2>5. CASE target # auth_state /\ auth_file' = target /\ auth_state' = auth_state
      <3>1. is_authenticated => OneAuthentication(auth_state, target)
        BY <1>0, <2>2, <2>5, ReminderKeepsAhead DEF RecordInv, OneAuthentication
      <3> QED BY <2>1, <2>2, <2>5, <3>1 DEF RecordInv, Silenced
    <2> QED BY <1>5, <2>3, <2>4, <2>5 DEF ProcessReauthReminders, SaveAuthState
  <1>6. CASE DaysPass
    <2>1. /\ Silenced(Older(auth_state)) /\ Silenced(Older(auth_file))
          /\ Silenced(Older(attempt.state))
          /\ Older(attempt.state).reauth_pending = attempt.state.reauth_pending
      BY <1>0, RecordsStaySilenced DEF RecordInv
    <2>2. attempt' = [state |-> Older(attempt.state), success |-> attempt.success]
      BY <1>0, <1>6 DEF DaysPass
    <2>3. Older(attempt.state).reminder_stage = attempt.state.reminder_stage
      BY <1>0 DEF Older, AuthStates
    <2>4. is_authenticated /\ pc \notin AttemptPhases =>
            OneAuthentication(Older(auth_state), Older(auth_file)) /\ Unreminded(Older(auth_state))
      BY <1>0, AgeKeepsAhead DEF RecordInv
    <2> HIDE <1>0
    <2> QED BY <1>6, <2>1, <2>2, <2>3, <2>4
            DEF DaysPass, RecordInv, Silenced, AttemptPhases
  <1>7. CASE /\ UNCHANGED authVars
             /\ pc' \in AttemptPhases <=> pc \in AttemptPhases
    BY <1>7 DEF authVars, RecordInv, Silenced
  <1>8. ASSUME CapturePollingState \/ IgnoreUpdate \/ HandleBackup \/ UserSends
        PROVE  /\ UNCHANGED authVars
               /\ pc' \in AttemptPhases <=> pc \in AttemptPhases
    BY <1>8 DEF CapturePollingState, IgnoreUpdate, HandleBackup, UserSends, AttemptPhases
  <1>9. ASSUME PollCommands \/ BatchHandled \/ NothingDue \/ SkipBackup \/ EnterSafetyNet
        PROVE  /\ UNCHANGED authVars
               /\ pc' \in AttemptPhases <=> pc \in AttemptPhases
    BY <1>9 DEF PollCommands, BatchHandled, NothingDue, SkipBackup, EnterSafetyNet,
                AttemptPhases
  <1>10. ASSUME WaitStep \/ SafetyStep \/ FinishBackup
         PROVE  /\ UNCHANGED authVars
                /\ pc' \in AttemptPhases <=> pc \in AttemptPhases
    BY <1>10 DEF WaitStep, WaitPoll, WaitAgain, WaitCompleted, WaitTimedOut, SafetyStep,
                 SafetyNetAlreadyDone, SafetyNetClean, SafetyNetPassed, SafetyNetBlocks,
                 FinishBackup, Exit, AttemptPhases
  <1>11. ASSUME AbortUnhealthy \/ AlarmRings \/ UNCHANGED vars
         PROVE  /\ UNCHANGED authVars
                /\ pc' \in AttemptPhases <=> pc \in AttemptPhases
    BY <1>11 DEF AbortUnhealthy, AlarmRings, Exit, vars, authVars, AttemptPhases
  <1> QED BY <1>1, <1>2, <1>3, <1>4, <1>5, <1>6, <1>7, <1>8, <1>9, <1>10, <1>11
          DEF Next, Process, Startup, CommandStep, LoopStep, Environment

(* Every step keeps what holds behind the gates.                            *)
LEMMA GateStep ==
  ASSUME TypeInv, RecordInv, GateInv, [Next]_vars
  PROVE  GateInv'
  <1> USE DEF GateInv, Goto, GatedPhases
  <1>0. auth_state \in AuthStates
    BY DEF TypeInv, TypeOK, WorkerTypeOK
  <1>1. CASE Boot \/ Crash
    BY <1>1 DEF Boot, Crash, NoExit
  <1>2. CASE CapturePollingState \/ IgnoreUpdate \/ HandleBackup
    BY <1>2 DEF CapturePollingState, IgnoreUpdate, HandleBackup, Handling, authVars
  <1>3. CASE StartupAuth \/ HandleAuth \/ HandleAuthCode \/ HandleReauth \/ HandleReauthCode
    <2>1. /\ pc' \in AttemptPhases
          /\ UNCHANGED <<auth_state, is_authenticated, exit_code>>
      BY <1>3 DEF StartupAuth, HandleAuth, HandleAuthCode, HandleReauth, HandleReauthCode,
                  HandleAuthCommand, AttemptAuth, AttemptPhases
    <2> QED BY <2>1 DEF AttemptPhases
  <1>4. CASE StartupAuthDone \/ AuthCommandDone
    <2>1. is_authenticated' => ~auth_state'.reauth_pending
      BY <1>4 DEF StartupAuthDone, AuthCommandDone, ConcludeAttempt, RecordInv,
                  AttemptPhases
    <2>2. exit_code' = exit_code
      BY <1>4 DEF StartupAuthDone, AuthCommandDone
    <2>3. pc' \in GatedPhases => is_authenticated'
      BY <1>4 DEF StartupAuthDone, AuthCommandDone
    <2>4. pc' = "wait" => ~is_authenticated'
      BY <1>4, <2>1 DEF StartupAuthDone, AuthCommandDone
    <2> QED BY <2>1, <2>2, <2>3, <2>4
  <1>5. CASE ProcessReauthReminders
    BY <1>5 DEF ProcessReauthReminders, TypeInv, PhaseOK
  <1>6. CASE PollCommands \/ BatchHandled \/ NothingDue \/ SkipBackup \/ EnterSafetyNet
    BY <1>6 DEF PollCommands, BatchHandled, NothingDue, SkipBackup, EnterSafetyNet, authVars
  <1>7. CASE WaitPoll \/ WaitAgain \/ WaitCompleted
    BY <1>7 DEF WaitPoll, WaitAgain, WaitCompleted, WaitOver, authVars
  <1>8. CASE WaitTimedOut \/ AbortUnhealthy
    BY <1>8 DEF WaitTimedOut, AbortUnhealthy, Exit, authVars
  <1>9. CASE SafetyStep \/ FinishBackup
    BY <1>9 DEF SafetyStep, SafetyNetAlreadyDone, SafetyNetClean, SafetyNetPassed,
                SafetyNetBlocks, FinishBackup, Exit, authVars
  <1>10. CASE AlarmRings \/ UserSends \/ UNCHANGED vars
    BY <1>10 DEF AlarmRings, UserSends, vars, authVars
  <1>11. CASE DaysPass
    <2>1. Older(auth_state).reauth_pending = auth_state.reauth_pending
      BY <1>0, RecordsStaySilenced DEF RecordInv
    <2> QED BY <1>11, <2>1 DEF DaysPass
  <1> QED BY <1>1, <1>2, <1>3, <1>4, <1>5, <1>6, <1>7, <1>8, <1>9, <1>10, <1>11
          DEF Next, Process, Startup, CommandStep, LoopStep, WaitStep, Environment

(* Every step keeps what holds of the flags.                                *)
LEMMA MarkerStep ==
  ASSUME TypeInv, MarkerInv, [Next]_vars
  PROVE  MarkerInv'
  <1> USE DEF MarkerInv, Goto
  <1>1. CASE SafetyNetAlreadyDone
    BY <1>1 DEF SafetyNetAlreadyDone, safetyVars
  <1>2. CASE SafetyNetClean
    BY <1>2 DEF SafetyNetClean, RemoveStaleBlock
  <1>3. CASE SafetyNetPassed
    BY <1>3 DEF SafetyNetPassed, MarkDone
  <1>4. CASE SafetyNetBlocks
    BY <1>4 DEF SafetyNetBlocks, BlockBackup, Exit
  <1>5. CASE UNCHANGED safetyVars /\ (pc' = pc \/ pc' \notin {"safety_passed", "backup"})
    BY <1>5 DEF safetyVars
  <1>6. ASSUME Boot \/ Crash \/ Startup \/ FinishBackup \/ AbortUnhealthy \/ Environment
        PROVE  UNCHANGED safetyVars /\ (pc' = pc \/ pc' \notin {"safety_passed", "backup"})
    BY <1>6 DEF Boot, Crash, Startup, CapturePollingState, StartupAuth, StartupAuthDone,
                FinishBackup, AbortUnhealthy, Exit, Environment, AlarmRings, DaysPass,
                UserSends
  <1>7. ASSUME CommandStep
        PROVE  UNCHANGED safetyVars /\ (pc' = pc \/ pc' \notin {"safety_passed", "backup"})
    BY <1>7 DEF CommandStep, IgnoreUpdate, HandleBackup, HandleAuth, HandleAuthCode,
                HandleReauth, HandleReauthCode, HandleAuthCommand, AuthCommandDone
  <1>8. ASSUME LoopStep \/ WaitStep
        PROVE  UNCHANGED safetyVars /\ (pc' = pc \/ pc' \notin {"safety_passed", "backup"})
    BY <1>8 DEF LoopStep, ProcessReauthReminders, PollCommands, BatchHandled, NothingDue,
                SkipBackup, EnterSafetyNet, WaitStep, WaitPoll, WaitAgain, WaitCompleted,
                WaitTimedOut, Exit
  <1>9. ASSUME UNCHANGED vars
        PROVE  UNCHANGED safetyVars /\ pc' = pc
    BY <1>9 DEF vars
  <1> QED BY <1>1, <1>2, <1>3, <1>4, <1>5, <1>6, <1>7, <1>8, <1>9
          DEF Next, Process, SafetyStep

(* The initial state satisfies the invariant of records, gates and flags.   *)
LEMMA AuthInvInit == Init => AuthInv
  BY DEF Init, SafetyInit, AuthInv, RecordInv, GateInv, MarkerInv, Silenced,
         DefaultAuthState, NoAttempt, NoExit, AttemptPhases, GatedPhases

(* The inductive invariant behind the gates.                                *)
THEOREM AuthInvariant == Spec => [](TypeInv /\ AuthInv)
  <1>1. Init => TypeInv /\ AuthInv
    BY TypeInvInit, AuthInvInit
  <1>2. TypeInv /\ AuthInv /\ [Next]_vars => (TypeInv /\ AuthInv)'
    BY TypeInvStep, RecordStep, GateStep, MarkerStep DEF AuthInv
  <1> QED BY <1>1, <1>2, PTL DEF Spec

(* A backup runs only authenticated, with no reauthentication pending,      *)
(* behind a passed safety net and on a live session.                        *)
THEOREM BackupIsGated == Spec => []BackupGated
  <1>1. AuthInv => BackupGated
    BY DEF AuthInv, RecordInv, GateInv, MarkerInv, BackupGated, GatedPhases
  <1> QED BY <1>1, AuthInvariant, PTL

(* An authenticated process believes the authentication that is on disk;    *)
(* the file is at most a due reminder ahead of it.                          *)
THEOREM AuthenticationIsDurable == Spec => []DurableWhenAuthenticated
  <1>1. AuthInv => DurableWhenAuthenticated
    BY DEF AuthInv, RecordInv, OneAuthentication, DurableWhenAuthenticated, AttemptPhases
  <1> QED BY <1>1, AuthInvariant, PTL

(* The stage that silences the two-day prompt implies the pending flag.     *)
THEOREM PromptStaysPending == Spec => []PromptImpliesPending
  <1>1. AuthInv => PromptImpliesPending
    BY DEF AuthInv, RecordInv, PromptImpliesPending, Silenced
  <1> QED BY <1>1, AuthInvariant, PTL

(* The two flags of the safety net are never both there.                    *)
THEOREM MarkersAreExclusive == Spec => []MarkersExclusive
  <1>1. AuthInv => MarkersExclusive
    BY DEF AuthInv, MarkerInv, MarkersExclusive
  <1> QED BY <1>1, AuthInvariant, PTL

(* An authenticated one-shot run is ready, and never exits with code 3.     *)
THEOREM OneShotIsReady == Spec => []OneShotAuthIsReady
  <1>1. AuthInv => OneShotAuthIsReady
    BY DEF AuthInv, GateInv, OneShotAuthIsReady
  <1> QED BY <1>1, AuthInvariant, PTL

---------------------------------------------------------------------------
(* Telegram's updates                                                       *)

(* The startup capture is behind the process.                               *)
Captured == pc \notin {"down", "exited", "capture"}

(* Everything before the batch is settled; and unless the startup capture   *)
(* left older updates behind, nothing in or after the batch is settled or   *)
(* older than the process.                                                  *)
UpdateInv ==
  /\ forgotten <= settled
  /\ next_update > 0 => next_update - 1 <= settled
  /\ ~cutover_missed /\ cursor # NoCursor =>
       settled < next_update /\ boot_mark < next_update
  /\ ~cutover_missed /\ cursor = NoCursor /\ Captured =>
       settled <= forgotten /\ boot_mark <= forgotten

(* Which polling step goes with which phase.                                *)
LEMMA PollingPhases ==
  ASSUME PhaseOK, [Next]_vars
  PROVE  \/ ForgetPollingState /\ ~Captured'
         \/ CaptureStartupCursor /\ cursor = NoCursor
         \/ ReadCommandBatch /\ Captured /\ ~BatchPending
         \/ SettleUpdate /\ Captured /\ BatchPending
         \/ (\E c \in Commands, b \in BOOLEAN : SendUpdate(c, b)) /\ pc' = pc
         \/ UNCHANGED pollingVars /\ (Captured' => Captured)
  <1> USE DEF Captured, Goto
  <1>1. CASE Boot
    BY <1>1 DEF Boot
  <1>2. CASE CapturePollingState
    BY <1>2 DEF CapturePollingState, PhaseOK
  <1>3. CASE PollCommands \/ WaitPoll
    BY <1>3 DEF PollCommands, WaitPoll, PhaseOK
  <1>4. CASE IgnoreUpdate \/ HandleBackup \/ AuthCommandDone
    BY <1>4 DEF IgnoreUpdate, HandleBackup, Handling, AuthCommandDone, PhaseOK
  <1>5. CASE UserSends
    <2>1. (pc = "backup") \in BOOLEAN
      OBVIOUS
    <2> QED BY <1>5, <2>1 DEF UserSends
  <1>6. CASE Crash \/ AbortUnhealthy \/ AlarmRings \/ DaysPass \/ StartupAuth \/ StartupAuthDone
    BY <1>6 DEF Crash, AbortUnhealthy, Exit, AlarmRings, DaysPass, StartupAuth,
                StartupAuthDone
  <1>7. CASE HandleAuth \/ HandleAuthCode \/ HandleReauth \/ HandleReauthCode
    BY <1>7 DEF HandleAuth, HandleAuthCode, HandleReauth, HandleReauthCode,
                HandleAuthCommand, Handling
  <1>8. CASE \/ ProcessReauthReminders \/ BatchHandled \/ NothingDue
             \/ SkipBackup \/ EnterSafetyNet
    BY <1>8 DEF ProcessReauthReminders, BatchHandled, NothingDue, SkipBackup,
                EnterSafetyNet
  <1>9. CASE WaitAgain \/ WaitCompleted \/ WaitTimedOut
    BY <1>9 DEF WaitAgain, WaitCompleted, WaitTimedOut, Exit
  <1>10. CASE SafetyStep \/ FinishBackup
    BY <1>10 DEF SafetyStep, SafetyNetAlreadyDone, SafetyNetClean, SafetyNetPassed,
                 SafetyNetBlocks, FinishBackup, Exit
  <1>11. CASE UNCHANGED vars
    BY <1>11 DEF vars
  <1> QED BY <1>1, <1>2, <1>3, <1>4, <1>5, <1>6, <1>7, <1>8, <1>9, <1>10, <1>11
          DEF Next, Process, Startup, CommandStep, LoopStep, WaitStep, Environment

(* Every step keeps what holds of the updates.                              *)
LEMMA UpdateStep ==
  ASSUME TypeInv, UpdateInv, [Next]_vars
  PROVE  UpdateInv'
  <1> USE DEF UpdateInv, NoCursor, Later
  <1>0. /\ forgotten \in Nat /\ cursor \in Nat /\ next_update \in Nat /\ settled \in Nat
        /\ Len(updates) \in Nat /\ boot_mark <= Len(updates) /\ settled <= Len(updates)
        /\ boot_mark \in Nat /\ CursorOK
    BY DEF TypeInv, TypeOK, PollingTypeOK
  <1>1. CASE ForgetPollingState /\ ~Captured'
    BY <1>0, <1>1 DEF ForgetPollingState
  <1>2. CASE CaptureStartupCursor /\ cursor = NoCursor
    <2> DEFINE last == Len(updates)
               kept == Later(forgotten, IF last = 0 THEN 0 ELSE last - 1)
    <2>1. CASE /\ cursor' = last + 1 /\ next_update' = last + 1 /\ settled' = last
               /\ forgotten' = kept /\ forgotten < last
               /\ UNCHANGED boot_mark
      BY <1>0, <2>1
    <2>2. CASE /\ forgotten' \in {forgotten, kept}
               /\ settled' = Later(settled, forgotten')
               /\ cutover_missed' = (forgotten' < last)
               /\ UNCHANGED <<cursor, next_update, boot_mark>>
      <3>1. ~cutover_missed' => ~(forgotten' < last)
        BY <2>2
      <3>2. cutover_missed' \/ (settled' <= forgotten' /\ boot_mark' <= forgotten')
        BY <1>0, <2>2, <3>1
      <3>3. forgotten' <= settled' /\ (next_update' > 0 => next_update' - 1 <= settled')
        BY <1>0, <2>2
      <3> QED BY <1>2, <2>2, <3>2, <3>3
    <2> QED BY <1>2, <2>1, <2>2 DEF CaptureStartupCursor
  <1>3. CASE ReadCommandBatch /\ Captured /\ ~BatchPending
    BY <1>0, <1>3 DEF ReadCommandBatch, BatchPending, CursorOK
  <1>4. CASE SettleUpdate /\ Captured /\ BatchPending
    BY <1>0, <1>4 DEF SettleUpdate, BatchPending, CursorOK
  <1>5. CASE (\E c \in Commands, b \in BOOLEAN : SendUpdate(c, b)) /\ pc' = pc
    BY <1>5 DEF SendUpdate, Captured
  <1>6. CASE UNCHANGED pollingVars /\ (Captured' => Captured)
    BY <1>6 DEF pollingVars
  <1> QED BY <1>1, <1>2, <1>3, <1>4, <1>5, <1>6, PollingPhases DEF TypeInv

(* The inductive invariant of the polling cursor.                           *)
THEOREM UpdateInvariant == Spec => [](TypeInv /\ UpdateInv)
  <1>1. Init => TypeInv /\ UpdateInv
    BY TypeInvInit DEF Init, PollingInit, UpdateInv, Captured
  <1>2. TypeInv /\ UpdateInv /\ [Next]_vars => (TypeInv /\ UpdateInv)'
    BY TypeInvStep, UpdateStep
  <1> QED BY <1>1, <1>2, PTL DEF Spec

(* Telegram forgets no update that no process handled or discarded.         *)
THEOREM NoCommandIsLost == Spec => []NoCommandLost
  <1>1. UpdateInv => NoCommandLost
    BY DEF UpdateInv, NoCommandLost
  <1> QED BY <1>1, UpdateInvariant, PTL

(* After a successful startup capture every update handled is new.          *)
THEOREM CommandsAreFresh == Spec => []FreshCommandsOnly
  <1>1. TypeInv /\ UpdateInv => FreshCommandsOnly
    BY DEF FreshCommandsOnly, UpdateInv, TypeInv, TypeOK, PollingTypeOK, CursorOK,
           BatchPending, NoCursor
  <1> QED BY <1>1, UpdateInvariant, PTL

---------------------------------------------------------------------------
(* A pending reauthentication                                               *)

(* An attempt that fails keeps the pending flag of the record it was given. *)
StickyInv ==
  pc \in AttemptPhases /\ auth_state.reauth_pending /\ ~attempt.success
    => attempt.state.reauth_pending

(* Neither a failed target nor a request drops the flag; a reminder drops   *)
(* it outside the warning window only.                                      *)
LEMMA PendingKept ==
  ASSUME NEW s \in AuthStates, s.reauth_pending
  PROVE  /\ AttemptTarget(s, FALSE).reauth_pending
         /\ ReauthRequested(s).reauth_pending
         /\ Older(s).reauth_pending
         /\ ReminderTarget(s).reauth_pending \/ OutsideWarningWindow(s)
  BY DEF AuthStates, AttemptTarget, ReauthRequested, Older, ReminderTarget, PromptDue,
         AlertDue, OutsideWarningWindow

(* An attempt on a pending record that does not succeed stays pending.      *)
LEMMA AttemptKeepsPending ==
  ASSUME auth_state \in AuthStates, auth_state.reauth_pending,
         NEW passed \in {auth_state, ReauthRequested(auth_state)},
         NEW outcomes \in SUBSET [session : Sessions, success : BOOLEAN],
         AttemptAuth(passed, outcomes), ~attempt'.success
  PROVE  attempt'.state.reauth_pending
  <1>1. passed \in AuthStates /\ passed.reauth_pending
    BY PendingKept, RecordsStayRecords
  <1> PICK r \in outcomes :
        \/ attempt' = [state   |-> AttemptTarget(passed, r.success),
                       success |-> r.success]
        \/ attempt' = [state |-> passed, success |-> FALSE]
    BY DEF AttemptAuth
  <1>2. CASE attempt' = [state |-> passed, success |-> FALSE]
    BY <1>1, <1>2
  <1>3. CASE attempt' = [state |-> AttemptTarget(passed, r.success), success |-> r.success]
    <2>1. r.success = FALSE
      BY <1>3
    <2> QED BY <1>1, <1>3, <2>1, PendingKept
  <1> QED BY <1>2, <1>3

(* One step keeps a pending flag, in memory and in the attempt.             *)
LEMMA PendingStep ==
  ASSUME TypeInv, StickyInv, [Next]_vars
  PROVE  /\ StickyInv'
         /\ (/\ Running /\ Running'
             /\ auth_state.reauth_pending /\ ~auth_state'.reauth_pending)
            => is_authenticated' \/ OutsideWarningWindow(auth_state)
  <1> USE DEF Goto, StickyInv, Running
  <1>0. auth_state \in AuthStates /\ attempt \in [state : AuthStates, success : BOOLEAN]
        /\ session \in Sessions
    BY DEF TypeInv, TypeOK, WorkerTypeOK
  <1>1. CASE Boot \/ Crash
    BY <1>1 DEF Boot, Crash, AttemptPhases
  <1>2. CASE StartupAuth
    <2>1. AttemptAuth(auth_state, StartAuthentication) /\ auth_state' = auth_state
      BY <1>2 DEF StartupAuth, AttemptAuth
    <2>2. StartAuthentication \in SUBSET [session : Sessions, success : BOOLEAN]
      BY OutcomesTyped, <1>0
    <2> QED BY <1>0, <2>1, <2>2, AttemptKeepsPending
  <1>3. CASE HandleAuth \/ HandleAuthCode \/ HandleReauth \/ HandleReauthCode
    <2>1. PICK passed \in {auth_state, ReauthRequested(auth_state)},
               outcomes \in {StartAuthentication, CompleteAuthentication(session)} :
            AttemptAuth(passed, outcomes)
      BY <1>3 DEF HandleAuth, HandleAuthCode, HandleReauth, HandleReauthCode,
                  HandleAuthCommand
    <2>2. outcomes \in SUBSET [session : Sessions, success : BOOLEAN]
      BY OutcomesTyped, <1>0
    <2>3. auth_state' = auth_state
      BY <2>1 DEF AttemptAuth
    <2> QED BY <1>0, <2>1, <2>2, <2>3, AttemptKeepsPending
  <1>4. CASE StartupAuthDone \/ AuthCommandDone
    <2>1. pc \in AttemptPhases /\ pc' \notin AttemptPhases /\ ConcludeAttempt
      BY <1>4 DEF StartupAuthDone, AuthCommandDone, AttemptPhases
    <2> QED BY <2>1 DEF ConcludeAttempt
  <1>5. CASE ProcessReauthReminders
    <2>1. auth_state.reauth_pending =>
            ReminderTarget(auth_state).reauth_pending \/ OutsideWarningWindow(auth_state)
      BY <1>0, PendingKept
    <2> QED BY <1>5, <2>1 DEF ProcessReauthReminders, AttemptPhases
  <1>6. CASE DaysPass
    <2>1. auth_state.reauth_pending => Older(auth_state).reauth_pending
      BY <1>0, PendingKept
    <2>2. attempt.state.reauth_pending => Older(attempt.state).reauth_pending
      BY <1>0, PendingKept
    <2>3. Older(auth_state).reauth_pending => auth_state.reauth_pending
      BY <1>0 DEF Older, AuthStates
    <2>4. attempt' = [state |-> Older(attempt.state), success |-> attempt.success]
      BY <1>0, <1>6 DEF DaysPass
    <2> HIDE <1>0
    <2> QED BY <1>6, <2>1, <2>2, <2>3, <2>4 DEF DaysPass, AttemptPhases
  <1>7. CASE UNCHANGED authVars /\ (pc' \in AttemptPhases => pc \in AttemptPhases)
    BY <1>7 DEF authVars
  <1>8. ASSUME CapturePollingState \/ IgnoreUpdate \/ HandleBackup \/ UserSends
        PROVE  UNCHANGED authVars /\ (pc' \in AttemptPhases => pc \in AttemptPhases)
    BY <1>8 DEF CapturePollingState, IgnoreUpdate, HandleBackup, UserSends, AttemptPhases
  <1>9. ASSUME PollCommands \/ BatchHandled \/ NothingDue \/ SkipBackup \/ EnterSafetyNet
        PROVE  UNCHANGED authVars /\ (pc' \in AttemptPhases => pc \in AttemptPhases)
    BY <1>9 DEF PollCommands, BatchHandled, NothingDue, SkipBackup, EnterSafetyNet,
                AttemptPhases
  <1>10. ASSUME WaitStep \/ SafetyStep \/ FinishBackup
         PROVE  UNCHANGED authVars /\ (pc' \in AttemptPhases => pc \in AttemptPhases)
    BY <1>10 DEF WaitStep, WaitPoll, WaitAgain, WaitCompleted, WaitTimedOut, SafetyStep,
                 SafetyNetAlreadyDone, SafetyNetClean, SafetyNetPassed, SafetyNetBlocks,
                 FinishBackup, Exit, AttemptPhases
  <1>11. ASSUME AbortUnhealthy \/ AlarmRings \/ UNCHANGED vars
         PROVE  UNCHANGED authVars /\ (pc' \in AttemptPhases => pc \in AttemptPhases)
    BY <1>11 DEF AbortUnhealthy, AlarmRings, Exit, vars, authVars, AttemptPhases
  <1> QED BY <1>1, <1>2, <1>3, <1>4, <1>5, <1>6, <1>7, <1>8, <1>9, <1>10, <1>11
          DEF Next, Process, Startup, CommandStep, LoopStep, Environment

(* A running process drops a pending reauthentication only by               *)
(* authenticating, or outside the warning window.                           *)
THEOREM ReauthIsSticky == Spec => ReauthPendingSticky
  <1>1. Init => TypeInv /\ StickyInv
    BY TypeInvInit DEF Init, StickyInv, AttemptPhases
  <1>2. TypeInv /\ StickyInv /\ [Next]_vars =>
          /\ (TypeInv /\ StickyInv)'
          /\ [(/\ Running /\ Running'
               /\ auth_state.reauth_pending /\ ~auth_state'.reauth_pending)
              => is_authenticated' \/ OutsideWarningWindow(auth_state)]_vars
    BY TypeInvStep, PendingStep
  <1> QED BY <1>1, <1>2, PTL DEF Spec, ReauthPendingSticky
=============================================================================
