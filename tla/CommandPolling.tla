--------------------------- MODULE CommandPolling ---------------------------
(***************************************************************************)
(* Telegram's update queue and the worker's cursor into it                 *)
(* (command_runtime.poll_command_batch, telegram_bot.fetch_updates and the *)
(* polling state of worker_runtime).                                       *)
(*                                                                         *)
(* Update i is the i-th update ever sent.  Telegram forgets an update once *)
(* getUpdates was called with a larger offset.  The batch being handled is *)
(* the range next_update .. cursor - 1.                                    *)
(***************************************************************************)
EXTENDS Naturals, Sequences

CONSTANTS
  Commands,    \* what an update can ask for; "ignored" is no command at all
  MaxUpdates   \* bound on the number of updates ever sent

ASSUME PollingAssumption ==
  /\ Commands \subseteq
       {"backup", "auth", "auth_code", "reauth", "reauth_code", "ignored"}
  /\ MaxUpdates \in Nat

VARIABLES
  updates,         \* every update ever sent: [command, during_backup]
  forgotten,       \* Telegram no longer returns updates 1 .. forgotten
  cursor,          \* next_update_offset; NoCursor stands for None
  next_update,     \* next update of the batch to handle
  (* history *)
  boot_mark,       \* updates already sent when this process started
  cutover_missed,  \* the startup capture left older updates to be fetched
  settled          \* updates 1 .. settled were handled, or discarded at startup

pollingVars ==
  <<updates, forgotten, cursor, next_update, boot_mark, cutover_missed, settled>>

NoCursor == 0

Updates == [command : Commands, during_backup : BOOLEAN]

Later(a, b) == IF a < b THEN b ELSE a

PollingTypeOK ==
  /\ updates \in Seq(Updates)
  /\ forgotten \in 0 .. Len(updates)
  /\ cursor \in 0 .. Len(updates) + 1
  /\ next_update \in 0 .. Len(updates) + 1
  /\ boot_mark \in 0 .. Len(updates)
  /\ cutover_missed \in BOOLEAN
  /\ settled \in 0 .. Len(updates)

PollingInit ==
  /\ updates = <<>>
  /\ forgotten = 0
  /\ cursor = NoCursor
  /\ next_update = 0
  /\ boot_mark = 0
  /\ cutover_missed = FALSE
  /\ settled = 0

BatchPending == next_update < cursor

Current == updates[next_update].command

---------------------------------------------------------------------------
(* Somebody sends a message to the bot.                                     *)
SendUpdate(c, backup_running) ==
  /\ Len(updates) < MaxUpdates
  /\ updates' = Append(updates, [command |-> c, during_backup |-> backup_running])
  /\ UNCHANGED <<forgotten, cursor, next_update, boot_mark, cutover_missed, settled>>

(* A new process has no cursor and an empty batch.                          *)
ForgetPollingState ==
  /\ cursor' = NoCursor
  /\ next_update' = 0
  /\ boot_mark' = Len(updates)
  /\ cutover_missed' = FALSE
  /\ UNCHANGED <<updates, forgotten, settled>>

(* Fault: the cursor is left at the last update, not behind it.             *)
CaptureStartupCursorShort ==
  /\ forgotten < Len(updates)
  /\ forgotten' = Later(forgotten, Len(updates) - 1)
  /\ cursor' = Len(updates)
  /\ next_update' = Len(updates)
  /\ settled' = Len(updates)
  /\ cutover_missed' = FALSE
  /\ UNCHANGED <<updates, boot_mark>>

(* getUpdates(offset = -1) makes Telegram forget all but the last update    *)
(* and return that one, which the worker discards.  A failed call leaves    *)
(* the cursor unset, whether or not the request reached Telegram.           *)
CaptureStartupCursor ==
  LET last == Len(updates)
      kept == Later(forgotten, IF last = 0 THEN 0 ELSE last - 1)
  IN  /\ \/ /\ forgotten < last
            /\ forgotten' = kept
            /\ cursor' = last + 1
            /\ next_update' = last + 1
            /\ settled' = last
            /\ cutover_missed' = FALSE
         \/ /\ forgotten' \in {forgotten, kept}
            /\ cutover_missed' = (forgotten' < last)
            /\ settled' = Later(settled, forgotten')
            /\ UNCHANGED <<cursor, next_update>>
      /\ UNCHANGED <<updates, boot_mark>>

(* Fault: the call is made with the offset behind the cursor.               *)
ReadCommandBatchBehind ==
  LET confirmed == IF cursor \in 1 .. Len(updates) THEN Later(forgotten, cursor)
                                                   ELSE forgotten
  IN  /\ \/ /\ forgotten' = confirmed
            /\ confirmed < Len(updates)
            /\ next_update' = confirmed + 1
            /\ cursor' = Len(updates) + 1
         \/ /\ forgotten' \in {forgotten, confirmed}
            /\ UNCHANGED <<cursor, next_update>>
      /\ UNCHANGED <<updates, boot_mark, cutover_missed, settled>>

(* getUpdates(offset = cursor): the call confirms everything below the      *)
(* offset; its answer may be lost, and an empty answer keeps the cursor.    *)
ReadCommandBatch ==
  LET confirmed == Later(forgotten, IF cursor = NoCursor THEN 0 ELSE cursor - 1)
  IN  /\ \/ /\ forgotten' = confirmed
            /\ confirmed < Len(updates)
            /\ next_update' = confirmed + 1
            /\ cursor' = Len(updates) + 1
         \/ /\ forgotten' \in {forgotten, confirmed}
            /\ UNCHANGED <<cursor, next_update>>
      /\ UNCHANGED <<updates, boot_mark, cutover_missed, settled>>

(* The handler of the current update is done with it.                       *)
SettleUpdate ==
  /\ next_update' = next_update + 1
  /\ settled' = Later(settled, next_update)
  /\ UNCHANGED <<updates, forgotten, cursor, boot_mark, cutover_missed>>
=============================================================================
