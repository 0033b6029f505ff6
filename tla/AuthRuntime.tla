---------------------------- MODULE AuthRuntime ----------------------------
(***************************************************************************)
(* The persisted authentication record and the decisions auth_runtime.py   *)
(* takes about it: what an authentication attempt writes, and which        *)
(* reminder stage a record is moved to as its age grows.                   *)
(*                                                                         *)
(* The record's timestamp is kept as the number of whole days left before  *)
(* reauthentication, which is all the code ever derives from it.           *)
(***************************************************************************)
EXTENDS Integers

CONSTANTS
  ReauthIntervalDays,  \* REAUTH_INTERVAL_DAYS
  DayStep              \* days that pass in one step of the clock

(* validate_config accepts every interval of at least one day. *)
ASSUME IntervalAssumption ==
  /\ ReauthIntervalDays \in Nat \ {0}
  /\ DayStep \in Nat \ {0}

Stages == {"none", "alert5", "prompt2"}

AuthStates ==
  [days_left      : 0 .. ReauthIntervalDays - 1,
   auth_pending   : BOOLEAN,
   reauth_pending : BOOLEAN,
   reminder_stage : Stages]

(* No file, an unreadable file, or a timestamp that does not parse: the     *)
(* epoch, which no interval reaches.                                        *)
DefaultAuthState ==
  [days_left |-> 0, auth_pending |-> FALSE, reauth_pending |-> FALSE,
   reminder_stage |-> "none"]

(* What a successful attempt records.  Some time has passed when the record *)
(* is next read, so one of the interval's whole days is already gone.       *)
FreshAuthState ==
  [days_left |-> ReauthIntervalDays - 1, auth_pending |-> FALSE,
   reauth_pending |-> FALSE, reminder_stage |-> "none"]

(* Fault: the days left run below zero.                                     *)
OlderBelowZero(s) == [s EXCEPT !.days_left = s.days_left - DayStep]

(* DayStep days later; reauth_days_left never goes below zero.              *)
Older(s) ==
  [s EXCEPT !.days_left = IF s.days_left <= DayStep THEN 0 ELSE s.days_left - DayStep]

---------------------------------------------------------------------------
(* pyicloud's view of the session held by ICloudDriveClient.api.            *)
Sessions == {"none", "accepted", "requires_2fa", "requires_2sa"}

(* start_authentication replaces the session; Apple decides what it needs.  *)
StartAuthentication ==
  {[session |-> s, success |-> s = "accepted"] : s \in Sessions \ {"none"}}

(* complete_authentication with a code: nothing to complete without a       *)
(* session; without a 2FA challenge it succeeds at once; otherwise Apple    *)
(* accepts the code and trusts the session, or the challenge stays.         *)
CompleteAuthentication(session) ==
  {[session |-> s, success |-> s \in {"accepted", "requires_2sa"}] :
     s \in IF session = "requires_2fa" THEN {"requires_2fa", "accepted"}
                                       ELSE {session}}

(* Fault: a failed attempt forgets that reauthentication is pending.        *)
AttemptTargetForgetful(s, success) ==
  IF success THEN FreshAuthState
  ELSE [s EXCEPT !.auth_pending = TRUE, !.reauth_pending = FALSE]

(* Fault: a successful attempt leaves a requested reauthentication pending. *)
AttemptTargetStillPending(s, success) ==
  IF success THEN [FreshAuthState EXCEPT !.reauth_pending = s.reauth_pending]
  ELSE [s EXCEPT !.auth_pending = TRUE]

(* The record an attempt wants to persist, given the record it was passed.  *)
AttemptTarget(s, success) ==
  IF success THEN FreshAuthState ELSE [s EXCEPT !.auth_pending = TRUE]

(* handle_command passes "reauth" a record that already asks for reauth.    *)
ReauthRequested(s) == [s EXCEPT !.reauth_pending = TRUE]

---------------------------------------------------------------------------
OutsideWarningWindow(s) == s.days_left > 5

PromptDue(s) == s.days_left <= 2 /\ s.reminder_stage # "prompt2"

AlertDue(s) == s.days_left <= 5 /\ s.reminder_stage = "none" /\ ~PromptDue(s)

(* Fault: the pending flag is reset as soon as the prompt is not due.       *)
ReminderTargetEager(s) ==
  CASE s.days_left > 2 -> [s EXCEPT !.reminder_stage = "none", !.reauth_pending = FALSE]
    [] PromptDue(s) -> [s EXCEPT !.reminder_stage = "prompt2", !.reauth_pending = TRUE]
    [] OTHER -> s

(* The record process_reauth_reminders wants to persist.                    *)
ReminderTarget(s) ==
  CASE OutsideWarningWindow(s) ->
         [s EXCEPT !.reminder_stage = "none", !.reauth_pending = FALSE]
    [] PromptDue(s) ->
         [s EXCEPT !.reminder_stage = "prompt2", !.reauth_pending = TRUE]
    [] AlertDue(s) -> [s EXCEPT !.reminder_stage = "alert5"]
    [] OTHER -> s
=============================================================================
