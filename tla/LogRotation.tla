----------------------------- MODULE LogRotation -----------------------------
(***************************************************************************)
(* The worker's log file (logger.py): records are stamped by the threads   *)
(* that log, then written one at a time under LOG_EMIT_LOCK; before one is *)
(* written the file may have to make way, under a name with the second in  *)
(* it, to be compressed, and old archives are removed.  Every operation on *)
(* the file system may fail, and the process may end between two.          *)
(*                                                                         *)
(* A line here is the record of one emission: one or several lines of      *)
(* text, of any length, which are appended together.                       *)
(***************************************************************************)
EXTENDS Naturals, Functions

CONSTANTS
  DayTicks,     \* seconds of a day
  KeepDays,     \* LOG_ROTATE_KEEP_DAYS
  MaxBytes,     \* LOG_ROTATE_MAX_MIB, in bytes
  Daily,        \* LOG_ROTATE_DAILY
  MaxRecord,    \* bound on the bytes of a line; the code has none
  MaxClock, MaxLines   \* bounds on time, on lines

ASSUME LoggerAssumption ==
  /\ DayTicks \in Nat \ {0} /\ KeepDays \in Nat \ {0} /\ MaxBytes \in Nat \ {0}
  /\ Daily \in BOOLEAN
  /\ MaxRecord \in Nat \ {0} /\ MaxClock \in Nat /\ MaxLines \in Nat

Times == 0..MaxClock
Lines == [number : 1..MaxLines, stamped : Times, bytes : 1..MaxRecord]
Date(t) == t \div DayTicks

VARIABLES
  clock,
  stamped,      \* how many lines there have been
  waiting,      \* lines whose thread waits for the lock
  place,        \* where the thread that holds the lock is, or "free"
  line,         \* the line it writes
  stamp,        \* the second in the name of the file it rotates
  log,          \* the log file: its lines, their bytes, its last write
  plain,        \* the rotated files, by their second
  archives,     \* the compressed ones; one that is not whole has no lines
  untroubled    \* history: nothing has failed so far

emission == <<place, line, stamp>>
files == <<log, plain, archives>>
logVars == <<clock, stamped, waiting, emission, files, untroubled>>

NoLine == [number |-> 0, stamped |-> 0, bytes |-> 0]
NoLog == [exists |-> FALSE, lines |-> {}, bytes |-> 0, mtime |-> 0]
Logs == [exists : BOOLEAN, lines : SUBSET Lines, bytes : Nat, mtime : Times]
NoFiles == [s \in {} |-> {}]

Places == {"free", "rotate", "open", "compress", "discard_plain", "discard_archive",
           "unlink", "prune", "append"}

LogTypeOK ==
  /\ clock \in Times
  /\ stamped \in 0..MaxLines
  /\ waiting \subseteq Lines
  /\ place \in Places
  /\ line \in Lines \cup {NoLine}
  /\ stamp \in Times
  /\ place \in {"open", "compress", "unlink"} => stamp \in DOMAIN plain
  /\ log \in Logs
  /\ DOMAIN plain \subseteq Times /\ Range(plain) \subseteq SUBSET Lines
  /\ DOMAIN archives \subseteq Times
  /\ Range(archives) \subseteq [lines : SUBSET Lines, mtime : Times]
  /\ untroubled \in BOOLEAN

LogInit ==
  /\ clock = 0 /\ stamped = 0
  /\ waiting = {}
  /\ place = "free" /\ line = NoLine /\ stamp = 0
  /\ log = NoLog /\ plain = NoFiles /\ archives = NoFiles
  /\ untroubled = TRUE

Put(f, s, content) == [x \in DOMAIN f \cup {s} |-> IF x = s THEN content ELSE f[x]]
Without(f, S) == Restrict(f, DOMAIN f \ S)

Fails == untroubled' = FALSE
Succeeds == UNCHANGED untroubled

---------------------------------------------------------------------------
LogTick ==
  /\ clock < MaxClock
  /\ clock' = clock + 1
  /\ UNCHANGED <<stamped, waiting, emission, files, untroubled>>

(* build_log_lines, before the lock is taken.                               *)
StampLine ==
  /\ stamped < MaxLines
  /\ stamped' = stamped + 1
  /\ \E bytes \in 1..MaxRecord :
       waiting' = waiting \cup {[number |-> stamped', stamped |-> clock, bytes |-> bytes]}
  /\ UNCHANGED <<clock, emission, files, untroubled>>

(* Fault: a file of the limit's own size may grow once more.                *)
TooLargeBeyond == log.bytes > MaxBytes

(* The size of the file as it is, not with what is about to be added.       *)
TooLarge == log.bytes >= MaxBytes
FromAnotherDay == Daily /\ Date(log.mtime) # Date(clock)

(* A thread gets the lock and looks at the file; one it cannot look at is   *)
(* not rotated.                                                             *)
Begin(l) ==
  /\ place = "free"
  /\ l \in waiting
  /\ waiting' = waiting \ {l}
  /\ line' = l
  /\ LET due == log.exists /\ (TooLarge \/ FromAnotherDay)
     IN  \/ place' = (IF due THEN "rotate" ELSE "append") /\ Succeeds
         \/ due /\ place' = "append" /\ Fails
  /\ UNCHANGED <<clock, stamped, stamp, files>>

---------------------------------------------------------------------------
(* rotate_log_file, prune_rotated_logs                                      *)

OtherwiseSame == UNCHANGED <<clock, stamped, waiting, line>>

(* Fault: the archive is named by the clock of an earlier rotation.         *)
RenameUnstamped ==
  /\ place = "rotate"
  /\ plain' = Put(plain, clock, log.lines)
  /\ log' = NoLog
  /\ place' = "open"
  /\ Succeeds
  /\ UNCHANGED <<archives, stamp>>
  /\ OtherwiseSame

(* A rotated file of the same second is overwritten.                        *)
Rename ==
  /\ place = "rotate"
  /\ \/ /\ plain' = Put(plain, clock, log.lines)
        /\ log' = NoLog
        /\ stamp' = clock
        /\ place' = "open"
        /\ Succeeds
     \/ /\ place' = "prune"
        /\ Fails
        /\ UNCHANGED <<log, plain, stamp>>
  /\ UNCHANGED archives
  /\ OtherwiseSame

(* The archive is created empty, also in place of one of the same second.   *)
OpenArchive ==
  /\ place = "open"
  /\ \/ /\ archives' = Put(archives, stamp, [lines |-> {}, mtime |-> clock])
        /\ place' = "compress"
        /\ Succeeds
     \/ /\ place' = "discard_plain"
        /\ Fails
        /\ UNCHANGED archives
  /\ UNCHANGED <<log, plain, stamp>>
  /\ OtherwiseSame

Compress ==
  /\ place = "compress"
  /\ \/ /\ archives' = Put(archives, stamp, [lines |-> plain[stamp], mtime |-> clock])
        /\ place' = "unlink"
        /\ Succeeds
     \/ /\ place' = "discard_plain"
        /\ Fails
        /\ UNCHANGED archives
  /\ UNCHANGED <<log, plain, stamp>>
  /\ OtherwiseSame

(* What could not be compressed is given up, and what there is of its       *)
(* archive.                                                                 *)
DiscardPlain ==
  /\ place = "discard_plain"
  /\ place' = "discard_archive"
  /\ plain' \in {plain, Without(plain, {stamp})}
  /\ UNCHANGED <<log, archives, stamp, untroubled>>
  /\ OtherwiseSame

DiscardArchive ==
  /\ place = "discard_archive"
  /\ place' = "prune"
  /\ archives' \in {archives, Without(archives, {stamp})}
  /\ UNCHANGED <<log, plain, stamp, untroubled>>
  /\ OtherwiseSame

UnlinkPlain ==
  /\ place = "unlink"
  /\ place' = "prune"
  /\ \/ plain' = Without(plain, {stamp}) /\ Succeeds
     \/ UNCHANGED plain /\ Fails
  /\ UNCHANGED <<log, archives, stamp>>
  /\ OtherwiseSame

(* Fault: an archive is as old as the day it is named for.                  *)
ExpiredByDate(s) == s - (s % DayTicks) + KeepDays * DayTicks < clock

(* By its modification time, not by its name.                               *)
Expired(s) == archives[s].mtime + KeepDays * DayTicks < clock

Prune ==
  /\ place = "prune"
  /\ place' = "append"
  /\ LET expired == {s \in DOMAIN archives : Expired(s)}
     IN  \E gone \in SUBSET expired :
           /\ archives' = Without(archives, gone)
           /\ IF gone = expired THEN Succeeds ELSE Fails
  /\ UNCHANGED <<log, plain, stamp>>
  /\ OtherwiseSame

---------------------------------------------------------------------------
(* The file is opened for appending, and created if need be; an error goes  *)
(* to whoever logs, and may leave part of the line.                         *)
Append ==
  /\ place = "append"
  /\ place' = "free"
  /\ line' = NoLine
  /\ \/ /\ log' = [exists |-> TRUE, lines |-> log.lines \cup {line},
                   bytes |-> log.bytes + line.bytes, mtime |-> clock]
        /\ Succeeds
     \/ /\ Fails
        /\ \/ UNCHANGED log
           \/ \E n \in 0..line.bytes :
                log' = [exists |-> TRUE, lines |-> log.lines,
                        bytes |-> log.bytes + n, mtime |-> clock]
  /\ UNCHANGED <<clock, stamped, waiting, stamp, plain, archives>>

(* The process ends, and its threads.                                       *)
Crash ==
  /\ place # "free" \/ waiting # {}
  /\ place' = "free"
  /\ line' = NoLine
  /\ waiting' = {}
  /\ Fails
  /\ UNCHANGED <<clock, stamped, stamp, files>>

Emission ==
  \/ \E l \in waiting : Begin(l)
  \/ Rename \/ OpenArchive \/ Compress
  \/ DiscardPlain \/ DiscardArchive \/ UnlinkPlain
  \/ Prune \/ Append

LogNext == LogTick \/ StampLine \/ Emission \/ Crash

LogSpec == LogInit /\ [][LogNext]_logVars

---------------------------------------------------------------------------
Kept ==
  UNION ({log.lines} \cup Range(plain) \cup {a.lines : a \in Range(archives)})

(* A line that was written is not lost, whatever fails or stops between the *)
(* steps of a rotation, before KeepDays have gone by; but for what cannot   *)
(* be compressed, which is given up together with an archive of its second, *)
(* and for two rotations in the same second.                                *)
LinesKept ==
  [][\A l \in Kept \ Kept' :
       \/ l.stamped + KeepDays * DayTicks < clock
       \/ place \in {"discard_plain", "discard_archive"}
       \/ place = "rotate" /\ clock \in DOMAIN plain
       \/ place = "open" /\ stamp \in DOMAIN archives]_logVars

(* If nothing has failed, the log exceeds its limit by less than one        *)
(* record, whichever threads write to it: the size is checked before a      *)
(* record is appended, and the lock is held from the one to the other.      *)
SizeIsBounded == untroubled => log.bytes < MaxBytes + MaxRecord
=============================================================================
