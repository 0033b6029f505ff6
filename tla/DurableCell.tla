---------------------------- MODULE DurableCell ----------------------------
(***************************************************************************)
(* What a persisted state file promises to the rest of the program: a cell *)
(* that holds one whole record or nothing.  A save takes effect in one     *)
(* step or not at all, and is reported as made only if it took effect; a   *)
(* load gives what the cell holds or nothing; the process may die between  *)
(* any two steps without touching the cell.  A loss of power may undo, or  *)
(* turn into nothing, what has not reached the disk.  The specification is *)
(* abstract: StateStore implements it.                                     *)
(***************************************************************************)
CONSTANTS
  Records,  \* what callers save
  Nothing   \* what a load gives when there is no record

VARIABLES
  content,  \* what the cell holds
  at_risk,  \* what it may hold after a loss of power
  call,     \* the call that is under way
  record,   \* what that call is to save
  reply     \* what the last call returned

vars == <<content, at_risk, call, record, reply>>

Contents == Records \union {Nothing}

Init == /\ content \in Contents
        /\ at_risk = {content}
        /\ call = "none"
        /\ record = Nothing
        /\ reply = "none"

Ended(answer) == /\ call' = "none"
                 /\ record' = Nothing
                 /\ reply' = answer

BeginSave == /\ call = "none"
             /\ call' = "saving"
             /\ record' \in Records
             /\ reply' = "none"
             /\ UNCHANGED <<content, at_risk>>

Commit == /\ call = "saving"
          /\ call' = "saved"
          /\ content' = record
          /\ at_risk' = at_risk \union {record, Nothing}
          /\ UNCHANGED <<record, reply>>

SaveSucceeds == /\ call = "saved"
                /\ Ended("saved")
                /\ UNCHANGED <<content, at_risk>>

(* A save may fail also after it took effect. *)
Fail == /\ call \in {"saving", "saved"}
        /\ call' = "failing"
        /\ UNCHANGED <<content, at_risk, record, reply>>

SaveFails == /\ call = "failing"
             /\ Ended("failed")
             /\ UNCHANGED <<content, at_risk>>

BeginLoad == /\ call = "none"
             /\ call' = "loading"
             /\ reply' = "none"
             /\ UNCHANGED <<content, at_risk, record>>

LoadReplies == /\ call = "loading"
               /\ \E answer \in {content, Nothing} : Ended(answer)
               /\ UNCHANGED <<content, at_risk>>

Crash == /\ Ended("none")
         /\ UNCHANGED <<content, at_risk>>

ReachDisk == /\ at_risk' = {content}
             /\ UNCHANGED <<content, call, record, reply>>

PowerLoss == /\ content' \in at_risk
             /\ at_risk' = {content'}
             /\ Ended("none")

Next == \/ BeginSave \/ Commit \/ SaveSucceeds \/ Fail \/ SaveFails
        \/ BeginLoad \/ LoadReplies
        \/ Crash \/ ReachDisk \/ PowerLoss

Spec == Init /\ [][Next]_vars
=============================================================================
