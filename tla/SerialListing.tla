---------------------------- MODULE SerialListing ----------------------------
(***************************************************************************)
(* The listing of the drive by one thread (SYNC_TRAVERSAL_WORKERS=1, the   *)
(* default): icloud_client.list_entries walks depth first in a thread of   *)
(* its own, and syncer.list_entries_with_progress waits for it.  Unlike    *)
(* that of Traversal, the walk gives up on nothing.                        *)
(***************************************************************************)
EXTENDS Naturals, SequencesExt

CONSTANTS
  Nodes, Dirs, Root,  \* the drive: its nodes, the directories among them
  Children,           \* what each directory holds
  Untyped,            \* nodes whose attributes do not tell their kind
  Unresolvable,       \* children the parent does not find by the name it listed
  MaxAttempts,        \* DIR_RETRY_ATTEMPTS
  MaxListings         \* bound on the number of listings

(* Under[n]: what is in n, to any depth; Above[n]: the directories n is in. *)
Closed(S) == \A d \in S \cap Dirs : Children[d] \subseteq S
Under ==
  [n \in Nodes |->
     IF n \notin Dirs THEN {}
     ELSE {m \in Nodes : \A S \in SUBSET Nodes : Children[n] \subseteq S /\ Closed(S) => m \in S}]
Above == [n \in Nodes |-> {d \in Dirs : n \in Under[d]}]

ASSUME DriveAssumption ==
  /\ Dirs \subseteq Nodes /\ Untyped \subseteq Nodes /\ Unresolvable \subseteq Nodes
  /\ Root \in Dirs
  /\ Children \in [Dirs -> SUBSET (Nodes \ {Root})]
  /\ \A d, e \in Dirs : d # e => Children[d] \cap Children[e] = {}
  /\ Under[Root] = Nodes \ {Root}
  /\ MaxAttempts \in Nat \ {0} /\ MaxListings \in Nat

VARIABLES
  caller,        \* list_entries_with_progress
  future,        \* list_entries, in its thread
  listings,      \* how many were started
  stack,         \* the directories being walked, the innermost first
  reading,       \* what is being read: one of these, or a child to be probed
  attempt,
  result,        \* the entries found
  hard_failure,  \* dir_hard_failures > 0
  misread        \* history: directories that answered like something else

walk == <<stack, reading, attempt, result>>
vars == <<caller, future, listings, walk, hard_failure, misread>>

Entry(n, is_dir) == [node |-> n, is_dir |-> is_dir]
Entries == [node : Nodes, is_dir : BOOLEAN]

(* left: the children not yet visited; items: the answer gave their kinds.  *)
Frames == [dir : Dirs, left : SUBSET Nodes, items : BOOLEAN]
Frame(d) == [dir |-> d, left |-> {}, items |-> FALSE]

TypeOK ==
  /\ caller \in {"idle", "waits", "leaves", "listed", "raised"}
  /\ future \in {"none", "running", "done", "timeout", "error"}
  /\ listings \in 0..MaxListings
  /\ stack \in Seq(Frames)
  /\ reading \subseteq Nodes
  /\ attempt \in 1..MaxAttempts
  /\ result \subseteq Entries
  /\ hard_failure \in BOOLEAN
  /\ misread \subseteq Dirs

Init ==
  /\ caller = "idle" /\ future = "none" /\ listings = 0
  /\ stack = <<>> /\ reading = {} /\ attempt = 1 /\ result = {}
  /\ hard_failure = FALSE /\ misread = {}

---------------------------------------------------------------------------
(* list_entries                                                             *)

(* The telemetry is reset; the drive is fetched, or that fails.             *)
BeginListing ==
  /\ caller = "idle"
  /\ listings < MaxListings
  /\ listings' = listings + 1
  /\ caller' = "waits" /\ future' = "running"
  /\ \/ stack' = <<Frame(Root)>> /\ reading' = {Root} /\ hard_failure' = FALSE
     \/ stack' = <<>> /\ reading' = {} /\ hard_failure' = TRUE
  /\ attempt' = 1
  /\ result' = {} /\ misread' = {}

Inner == Head(stack)
Outer == Tail(stack)
VisitsAll(left, items) == stack' = <<[Inner EXCEPT !.left = left, !.items = items]>> \o Outer

Walking == future = "running" /\ stack # <<>> /\ reading = {}

(* A walk of directory d begins inside the others.                          *)
Enter(d, frames) == stack' = <<Frame(d)>> \o frames /\ reading' = {d} /\ attempt' = 1

Visited(c) == <<[Inner EXCEPT !.left = @ \ {c}]>> \o Outer

Found(c, is_dir) == result' = result \cup {Entry(c, is_dir)}

OtherwiseSame == UNCHANGED <<caller, future, listings, hard_failure, misread>>

(* _entries_from_names: a child that is not found is left out; one whose    *)
(* kind its attributes do not tell is probed; a directory is walked.        *)
VisitName(c) ==
  /\ Walking
  /\ c \in Inner.left /\ ~Inner.items
  /\ CASE c \in Unresolvable ->
            stack' = Visited(c) /\ UNCHANGED <<reading, attempt, result>>
       [] c \in Untyped \ Unresolvable ->
            stack' = Visited(c) /\ reading' = {c} /\ attempt' = 1 /\ UNCHANGED result
       [] c \in Dirs \ (Untyped \cup Unresolvable) ->
            Enter(c, Visited(c)) /\ Found(c, TRUE)
       [] c \notin Dirs \cup Untyped \cup Unresolvable ->
            stack' = Visited(c) /\ Found(c, FALSE) /\ UNCHANGED <<reading, attempt>>
  /\ OtherwiseSame

(* _entries_from_directories: a directory is listed, and then looked up; if *)
(* it is not found, it is not walked.                                       *)
VisitItem(c) ==
  /\ Walking
  /\ c \in Inner.left /\ Inner.items
  /\ Found(c, TRUE)
  /\ IF c \in Unresolvable
     THEN stack' = Visited(c) /\ UNCHANGED <<reading, attempt>>
     ELSE Enter(c, Visited(c))
  /\ OtherwiseSame

Leave ==
  /\ Walking
  /\ Inner.left = {}
  /\ stack' = Outer
  /\ UNCHANGED <<reading, attempt, result>>
  /\ OtherwiseSame

Return ==
  /\ future = "running" /\ stack = <<>>
  /\ future' = "done"
  /\ UNCHANGED <<caller, listings, walk, hard_failure, misread>>

(* A lookup of a child, or a line of the log, fails in a way that is not    *)
(* handled; TimeoutError is one of these ways.                              *)
LeaveByException ==
  /\ future = "running" /\ stack # <<>>
  /\ future' \in {"timeout", "error"}
  /\ stack' = <<>> /\ reading' = {}
  /\ UNCHANGED <<caller, listings, attempt, result, hard_failure, misread>>

---------------------------------------------------------------------------
(* _read_dir_payload_with_retry, of the innermost directory or of a child   *)
(* to be probed                                                             *)

ReadingDir == stack # <<>> /\ reading = {Inner.dir}

Reads(n) == future = "running" /\ reading = {n}

Read == reading' = {} /\ attempt' = 1

(* The names of its children.                                               *)
ReadNames ==
  /\ ReadingDir /\ Reads(Inner.dir)
  /\ VisitsAll(Children[Inner.dir], FALSE)
  /\ Read
  /\ UNCHANGED result
  /\ OtherwiseSame

(* _entries_from_files.                                                     *)
FileEntries(files) == {Entry(f, FALSE) : f \in files}

(* Lists of directories and files, or one list of items; in that a          *)
(* directory whose kind the item does not tell passes for a file.           *)
ReadItems ==
  /\ ReadingDir /\ Reads(Inner.dir)
  /\ \E untold \in {{}, Untyped} :
       LET dirs == (Children[Inner.dir] \cap Dirs) \ untold
       IN  /\ VisitsAll(dirs, TRUE)
           /\ result' = result \cup FileEntries(Children[Inner.dir] \ dirs)
           /\ misread' = misread \cup (Children[Inner.dir] \cap untold \cap Dirs)
  /\ Read
  /\ UNCHANGED <<caller, future, listings, hard_failure>>

ProbeAnswers(c) ==
  /\ Reads(c) /\ ~ReadingDir
  /\ IF c \in Dirs THEN Enter(c, stack) /\ Found(c, TRUE)
     ELSE Read /\ Found(c, FALSE) /\ UNCHANGED stack
  /\ OtherwiseSame

(* Fault: one attempt too many.                                             *)
MayRetryOnceMore == attempt <= MaxAttempts

MayRetry == attempt < MaxAttempts

ReadFailsRetryably(n) ==
  /\ Reads(n)
  /\ MayRetry
  /\ attempt' = attempt + 1
  /\ UNCHANGED <<stack, reading, result>>
  /\ OtherwiseSame

(* No answer: a directory lists nothing, a child passes for a file.         *)
Unanswered(n) ==
  /\ Read
  /\ IF ReadingDir THEN UNCHANGED result ELSE Found(n, FALSE)
  /\ UNCHANGED stack

(* Fault: a probe that fails is no failure of the listing.                  *)
ReadFailsHardUncounted(n) ==
  /\ Reads(n)
  /\ Unanswered(n)
  /\ hard_failure' = (hard_failure \/ ReadingDir)
  /\ UNCHANGED <<caller, future, listings, misread>>

(* The last attempt failed, or any attempt with a ValueError.               *)
ReadFailsHard(n) ==
  /\ Reads(n)
  /\ Unanswered(n)
  /\ hard_failure' = TRUE
  /\ UNCHANGED <<caller, future, listings, misread>>

(* AttributeError, NotADirectoryError and TypeError are taken for the       *)
(* answer of something that is no directory, and an answer of unknown form  *)
(* for that of an empty one.                                                *)
ReadNonDirectory(n) ==
  /\ Reads(n)
  /\ Unanswered(n)
  /\ misread' = misread \cup ({n} \cap Dirs)
  /\ UNCHANGED <<caller, future, listings, hard_failure>>

---------------------------------------------------------------------------
(* list_entries_with_progress                                               *)

CallerSame == UNCHANGED <<future, listings, walk, hard_failure, misread>>

(* Fault: an error is taken for "not yet" as well.                          *)
TakeResultIfDone ==
  /\ caller = "waits" /\ future = "done"
  /\ caller' = "listed"
  /\ CallerSame

(* FUTURE.result returns the list, or raises what list_entries raised.  A   *)
(* TimeoutError is taken for "not yet", whoever raised it.                  *)
TakeResult ==
  /\ caller = "waits" /\ future \in {"done", "error"}
  /\ caller' = IF future = "done" THEN "listed" ELSE "raised"
  /\ CallerSame

(* The log cannot be written: the pool is left, which waits for its thread. *)
LogFails ==
  /\ caller = "waits" /\ future \in {"running", "timeout"}
  /\ caller' = "leaves"
  /\ CallerSame

LeavePool ==
  /\ caller = "leaves" /\ future # "running"
  /\ caller' = "raised"
  /\ CallerSame

(* The run goes on by the list, or ends; there is another one.              *)
Consume ==
  /\ caller \in {"listed", "raised"}
  /\ caller' = "idle" /\ future' = "none"
  /\ stack' = <<>> /\ reading' = {} /\ attempt' = 1 /\ result' = {}
  /\ hard_failure' = FALSE /\ misread' = {}
  /\ UNCHANGED listings

---------------------------------------------------------------------------
Walk ==
  \/ \E c \in Nodes : VisitName(c) \/ VisitItem(c)
  \/ Leave \/ Return \/ LeaveByException
  \/ ReadNames \/ ReadItems
  \/ \E n \in Nodes :
       \/ ProbeAnswers(n)
       \/ ReadFailsRetryably(n) \/ ReadFailsHard(n) \/ ReadNonDirectory(n)

Next == BeginListing \/ Walk \/ TakeResult \/ LogFails \/ LeavePool \/ Consume

Spec == Init /\ [][Next]_vars

(* Every request has a timeout, so a read ends, one way or another.         *)
FairSpec == Spec /\ WF_vars(Walk) /\ WF_vars(TakeResult \/ LeavePool)

---------------------------------------------------------------------------
(* The drive as it is listed when some directories were not read, some of   *)
(* them taken for files, and some children not found.                       *)
Listing(unread, misfiled, dropped) ==
  {Entry(n, n \in Dirs \ misfiled) :
     n \in {m \in Nodes \ (dropped \cup {Root}) : Above[m] \cap (unread \cup dropped) = {}}}

(* What the sync takes for granted (module DriveSync): a listing is the     *)
(* drive, but for what is in the directories that could not be read, some   *)
(* of which may be files in it, and it is complete only if each of these    *)
(* answered like something else (or is not found by its name).  An          *)
(* exception gives no listing at all.                                       *)
ListingContract ==
  caller = "listed" =>
    \E unread \in SUBSET Dirs : \E misfiled \in SUBSET unread :
    \E dropped \in SUBSET Unresolvable :
      /\ result = Listing(unread, misfiled, dropped)
      /\ ~hard_failure => unread \subseteq misread \cup Unresolvable

(* Under FairSpec whoever asks for a listing gets one or an error, unless   *)
(* the error is a TimeoutError: then it waits for ever.                     *)
CallerEnds ==
  caller \in {"waits", "leaves"} ~> caller \in {"listed", "raised"} \/ future = "timeout"
=============================================================================
