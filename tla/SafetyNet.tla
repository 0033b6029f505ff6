----------------------------- MODULE SafetyNet -----------------------------
(***************************************************************************)
(* The first-run safety net (main.enforce_safety_net and                   *)
(* syncer.run_first_time_safety_net): two marker files under /config.      *)
(* What the ownership scan of the output tree finds is arbitrary.          *)
(***************************************************************************)
VARIABLES
  done_marker,     \* the done flag exists
  blocked_marker   \* the blocked flag exists

safetyVars == <<done_marker, blocked_marker>>

SafetyTypeOK ==
  /\ done_marker \in BOOLEAN
  /\ blocked_marker \in BOOLEAN

SafetyInit ==
  /\ done_marker = FALSE
  /\ blocked_marker = FALSE

(* Fault: the stale blocked flag is left behind.                            *)
KeepStaleBlock ==
  /\ ~done_marker
  /\ UNCHANGED <<done_marker, blocked_marker>>

(* The scan is clean: a stale blocked flag is removed first ...             *)
RemoveStaleBlock ==
  /\ ~done_marker
  /\ blocked_marker' = FALSE
  /\ UNCHANGED done_marker

(* ... and the done flag is written after it.                               *)
MarkDone ==
  /\ done_marker' = TRUE
  /\ UNCHANGED blocked_marker

(* The scan finds foreign owners: the first time this is reported and       *)
(* flagged, afterwards the flag silences it.                                *)
BlockBackup ==
  /\ ~done_marker
  /\ blocked_marker' = TRUE
  /\ UNCHANGED done_marker
=============================================================================
