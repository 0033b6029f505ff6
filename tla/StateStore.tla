----------------------------- MODULE StateStore -----------------------------
(***************************************************************************)
(* One JSON state file of app/state.py, the temporary file it is written   *)
(* through and the file a damaged one is set aside to, at the level of the *)
(* operations on the file system: each may fail, and the process or the    *)
(* machine may stop between any two.  The same code keeps the              *)
(* authentication record and the manifest; the main thread is its only     *)
(* caller.                                                                 *)
(***************************************************************************)
CONSTANTS
  Records,  \* what callers save
  Nothing   \* the empty dictionary of a load that finds no record

ASSUME RecordsAssumption == {"missing", "torn", "none", "saved", "failed", Nothing} \cap Records = {}

VARIABLES
  file,       \* the state file: missing, torn (it does not parse) or a record
  tmp,        \* the temporary file beside it
  corrupt,    \* the quarantined file
  survivors,  \* what the state file may be after a loss of power
  pc,         \* where in write_json or read_json the process is
  record,     \* the record being saved
  reply       \* what the last call returned

files == <<file, tmp, corrupt, survivors>>
vars == <<file, tmp, corrupt, survivors, pc, record, reply>>

Files == Records \union {"missing", "torn"}

Init == /\ file \in Files
        /\ tmp \in Files
        /\ corrupt \in {"missing", "torn"}
        /\ survivors = {file}
        /\ pc = "idle"
        /\ record = Nothing
        /\ reply = "none"

Goto(next) == pc' = next /\ UNCHANGED <<record, reply>>
Return(answer) == pc' = "idle" /\ record' = Nothing /\ reply' = answer

-----------------------------------------------------------------------------
(* write_json                                                              *)

Save == /\ pc = "idle"
        /\ pc' = "open"
        /\ record' \in Records
        /\ reply' = "none"
        /\ UNCHANGED files

(* Opening for writing empties what an interrupted save left behind. *)
OpenTemporary == /\ pc = "open"
                 /\ \/ tmp' = "torn" /\ Goto("dump")
                    \/ tmp' = tmp /\ Goto("cleanup")
                 /\ UNCHANGED <<file, corrupt, survivors>>

(* Fault: an error while writing goes unnoticed. *)
DumpUnnoticed == /\ pc = "dump"
                 /\ tmp' \in {record, "torn"}
                 /\ Goto("replace")
                 /\ UNCHANGED <<file, corrupt, survivors>>

Dump == /\ pc = "dump"
        /\ \/ tmp' = record /\ Goto("replace")
           \/ tmp' = "torn" /\ Goto("cleanup")
        /\ UNCHANGED <<file, corrupt, survivors>>

(* Nothing is flushed to the disk before the replacement, nor after it. *)
Replace == /\ pc = "replace"
           /\ file' = tmp
           /\ tmp' = "missing"
           /\ survivors' = survivors \union {tmp, "torn"}
           /\ Goto("log")
           /\ UNCHANGED corrupt

ReplaceFails == /\ pc = "replace"
                /\ Goto("cleanup")
                /\ UNCHANGED files

(* The log line after the replacement is inside the try block: when it     *)
(* cannot be written, the save is reported as failed.                      *)
LogCommit == /\ pc = "log"
             /\ Return("saved") \/ Goto("cleanup")
             /\ UNCHANGED files

Cleanup == /\ pc = "cleanup"
           /\ tmp' \in {tmp, "missing"}
           /\ Return("failed")
           /\ UNCHANGED <<file, corrupt, survivors>>

-----------------------------------------------------------------------------
(* read_json and quarantine_corrupt_json                                   *)

Load == /\ pc = "idle"
        /\ pc' = "read"
        /\ reply' = "none"
        /\ UNCHANGED <<files, record>>

(* Any error of the operating system gives the empty dictionary, also that *)
(* of the log line after the parse.                                        *)
Read == /\ pc = "read"
        /\ \/ file \in Records /\ Return(file)
           \/ Return(Nothing)
        /\ UNCHANGED files

(* Fault: any failing read is taken for a damaged file. *)
ReadTornOrUnreadable == /\ pc = "read"
                        /\ file # "missing"
                        /\ Goto("quarantine")
                        /\ UNCHANGED files

ReadTorn == /\ pc = "read"
            /\ file = "torn"
            /\ Goto("quarantine")
            /\ UNCHANGED files

RemoveQuarantined == /\ pc = "quarantine"
                     /\ \/ corrupt' = "missing" /\ Goto("set_aside")
                        \/ /\ corrupt = "torn"
                           /\ corrupt' \in {"torn", "missing"}
                           /\ Return(Nothing)
                     /\ UNCHANGED <<file, tmp, survivors>>

SetAside == /\ pc = "set_aside"
            /\ \/ /\ corrupt' = file
                  /\ file' = "missing"
                  /\ survivors' = survivors \union {"missing"}
               \/ UNCHANGED <<corrupt, file, survivors>>
            /\ Return(Nothing)
            /\ UNCHANGED tmp

-----------------------------------------------------------------------------
(* The process and the machine                                             *)

(* The process ends: by a signal, or by an exception that leaves state.py, *)
(* such as an error of the log file inside a handler, or a file that is    *)
(* not UTF-8.                                                              *)
Crash == /\ Return("none")
         /\ UNCHANGED files

(* The operating system has written the state file to the disk. *)
ReachDisk == /\ survivors' = {file}
             /\ UNCHANGED <<file, tmp, corrupt, pc, record, reply>>

PowerLoss == /\ file' \in survivors
             /\ survivors' = {file'}
             /\ tmp' \in {tmp, "torn", "missing"}
             /\ corrupt' \in {"torn", "missing"}
             /\ Return("none")

Next == \/ Save \/ OpenTemporary \/ Dump \/ Replace \/ ReplaceFails \/ LogCommit \/ Cleanup
        \/ Load \/ Read \/ ReadTorn \/ RemoveQuarantined \/ SetAside
        \/ Crash \/ ReachDisk \/ PowerLoss

Spec == Init /\ [][Next]_vars

-----------------------------------------------------------------------------
(* Properties                                                              *)

SavePlaces == {"open", "dump", "replace", "log", "cleanup"}
LoadPlaces == {"read", "quarantine", "set_aside"}

(* Every variable has its type; a record is at hand exactly during a save; *)
(* what is about to replace the state file is the whole record, and what   *)
(* is about to be set aside is torn.                                       *)
TypeOK == /\ file \in Files
          /\ tmp \in Files
          /\ corrupt \in {"missing", "torn"}
          /\ survivors \subseteq Files /\ file \in survivors
          /\ pc \in {"idle"} \union SavePlaces \union LoadPlaces
          /\ IF pc \in SavePlaces THEN record \in Records ELSE record = Nothing
          /\ reply \in Records \union {Nothing, "none", "saved", "failed"}
          /\ pc = "replace" => tmp = record
          /\ pc = "log" => file = record
          /\ pc \in {"quarantine", "set_aside"} => file = "torn"

Parsed(f) == IF f \in Records THEN f ELSE Nothing

CallOf == CASE pc = "idle" -> "none"
            [] pc \in LoadPlaces -> "loading"
            [] pc = "log" -> "saved"
            [] pc = "cleanup" -> "failing"
            [] OTHER -> "saving"

(* The state file implements a cell that is written atomically: whatever   *)
(* fails, and wherever write_json, read_json or the quarantine is cut off, *)
(* a record is replaced by a whole record or stays, a save that is         *)
(* reported as made was made, and a load gives what is stored or nothing.  *)
(* Only a loss of power may cost a record, and only one not yet on disk.   *)
Cell == INSTANCE DurableCell WITH
          content <- Parsed(file),
          at_risk <- {Parsed(f) : f \in survivors},
          call <- CallOf

Implements == Cell!Spec
=============================================================================
