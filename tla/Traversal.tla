----------------------------- MODULE Traversal -----------------------------
(***************************************************************************)
(* The parallel listing of iCloud Drive (icloud_client.list_entries and    *)
(* _walk_node_parallel): a pool of workers reads directories with bounded  *)
(* retries, the caller's thread collects what they found, and gives up     *)
(* when no worker has made progress for too long.  Reads that were given   *)
(* up on go on in the background, into the next listing.  An exception that *)
(* leaves a read makes the caller wait for all the others, without a limit. *)
(*                                                                         *)
(* The drive does not change while it is listed.  A directory's answer is  *)
(* the list of its child names (what pyicloud's dir() returns), or lists of *)
(* items that tell their kinds.                                            *)
(***************************************************************************)
EXTENDS Naturals, FiniteSets

CONSTANTS
  Nodes, Dirs, Root,  \* the drive: its nodes, the directories among them
  Children,           \* what each directory holds
  Untyped,            \* nodes whose attributes do not tell their kind
  Unresolvable,       \* children the parent does not find by the name it listed
  Workers,            \* traversal_workers, more than one
  MaxAttempts,        \* DIR_RETRY_ATTEMPTS
  StallWaits,         \* the abort threshold, in waits of the caller's thread
  MaxListings         \* bound on the number of listings

ASSUME DriveAssumption ==
  /\ Dirs \subseteq Nodes
  /\ Root \in Dirs
  /\ Children \in [Dirs -> SUBSET (Nodes \ {Root})]
  /\ \A d, e \in Dirs : d # e => Children[d] \cap Children[e] = {}
  /\ \A d \in Dirs : d \notin Children[d]
  /\ Untyped \subseteq Nodes
  /\ Unresolvable \subseteq Nodes

ASSUME BoundAssumption ==
  /\ Workers \in Nat \ {0, 1}
  /\ MaxAttempts \in Nat \ {0}
  /\ StallWaits \in Nat \ {0}
  /\ MaxListings \in Nat

VARIABLES
  listing,       \* how many listings were started
  walking,       \* the current one has not returned
  task,          \* task[l][d]: listing l's read of directory d
  futures,       \* the directories whose results the caller waits for
  result,        \* the entries collected
  hard_failure,  \* dir_hard_failures > 0 in the telemetry of the client
  advanced,      \* the progress counters moved since the last snapshot
  stalled_for,   \* waits since STALL_STARTED_EPOCH, or NotStalled
  raised,        \* the result of a read was asked for, and was an exception
  (* history *)
  quiet,         \* waits since anything last happened, up to StallWaits
  misread        \* directories that once answered like something else

vars == <<listing, walking, task, futures, result, hard_failure, advanced,
          stalled_for, raised, quiet, misread>>

Listings == 1 .. MaxListings
NotStalled == StallWaits
Entries == [node : Nodes, is_dir : BOOLEAN]

(* A task reads its directory first (reading is the directory itself), then *)
(* one child after the other whose kind is not known.                       *)
Tasks ==
  [status   : {"none", "queued", "running", "done", "raised"},
   reading  : Nodes,
   attempt  : 1 .. MaxAttempts,
   unprobed : SUBSET Nodes,
   entries  : SUBSET Entries]

NoTask == [status |-> "none", reading |-> Root, attempt |-> 1,
           unprobed |-> {}, entries |-> {}]

Queued(d) == [NoTask EXCEPT !.status = "queued", !.reading = d]

TypeOK ==
  /\ listing \in 0 .. MaxListings
  /\ walking \in BOOLEAN
  /\ task \in [Listings -> [Dirs -> Tasks]]
  /\ futures \subseteq Dirs
  /\ result \subseteq Entries
  /\ hard_failure \in BOOLEAN
  /\ advanced \in BOOLEAN
  /\ stalled_for \in 0 .. StallWaits
  /\ raised \in BOOLEAN
  /\ quiet \in 0 .. StallWaits
  /\ misread \subseteq Dirs

Init ==
  /\ listing = 0
  /\ walking = FALSE
  /\ task = [l \in Listings |-> [d \in Dirs |-> NoTask]]
  /\ futures = {}
  /\ result = {}
  /\ hard_failure = FALSE
  /\ advanced = FALSE
  /\ stalled_for = NotStalled
  /\ raised = FALSE
  /\ quiet = 0
  /\ misread = {}

---------------------------------------------------------------------------
(* What is known of a directory's children without reading them             *)

Entry(n, is_dir) == [node |-> n, is_dir |-> is_dir]

(* A child that is found to be its own parent is skipped like one that is   *)
(* not found.                                                               *)
Resolved(d) == Children[d] \ Unresolvable

Recognised(d) == {Entry(c, c \in Dirs) : c \in Resolved(d) \ Untyped}

---------------------------------------------------------------------------
(* The caller's thread                                                      *)

(* The telemetry is reset, and the root's read is submitted.                *)
BeginListing ==
  /\ ~walking
  /\ listing < MaxListings
  /\ listing' = listing + 1
  /\ walking' = TRUE
  /\ task' = [task EXCEPT ![listing + 1][Root] = Queued(Root)]
  /\ futures' = {Root}
  /\ result' = {}
  /\ hard_failure' = FALSE
  /\ advanced' = FALSE
  /\ stalled_for' = NotStalled
  /\ raised' = FALSE
  /\ quiet' = 0
  /\ misread' = {}

(* The drive itself cannot be fetched: an empty listing, marked as failed.  *)
DriveRootFails ==
  /\ ~walking
  /\ listing < MaxListings
  /\ listing' = listing + 1
  /\ futures' = {}
  /\ result' = {}
  /\ hard_failure' = TRUE
  /\ raised' = FALSE
  /\ misread' = {}
  /\ UNCHANGED <<walking, task, advanced, stalled_for, quiet>>

Done == {d \in futures : task[listing][d].status \in {"done", "raised"}}

Raising == {d \in Done : task[listing][d].status = "raised"}

FoundBy(D) == UNION {task[listing][d].entries : d \in D}

(* A directory among items is listed even if it is not found by its name.   *)
DirectoriesIn(E) == {n \in Dirs \ Unresolvable : Entry(n, TRUE) \in E}

(* The reads of D are taken off the pool, what they found is submitted.     *)
Submitted(tasks, D) ==
  [d \in Dirs |-> IF d \in DirectoriesIn(FoundBy(D)) THEN Queued(d)
                  ELSE IF d \in D THEN NoTask ELSE tasks[d]]

(* Fault: the snapshot is taken after the counters are updated.             *)
CollectUnnoticed ==
  /\ walking
  /\ Done # {} /\ Raising = {}
  /\ result' = result \cup FoundBy(Done)
  /\ futures' = (futures \ Done) \cup DirectoriesIn(FoundBy(Done))
  /\ task' = [task EXCEPT ![listing] = Submitted(@, Done)]
  /\ advanced' = FALSE
  /\ quiet' = 0
  /\ UNCHANGED <<listing, walking, hard_failure, stalled_for, misread, raised>>

(* wait() returned finished reads: their entries are kept and the           *)
(* directories among them submitted.  The progress snapshot is taken before *)
(* the completed directories are counted, so the next one will differ.      *)
Collect ==
  /\ walking
  /\ Done # {} /\ Raising = {}
  /\ result' = result \cup FoundBy(Done)
  /\ futures' = (futures \ Done) \cup DirectoriesIn(FoundBy(Done))
  /\ task' = [task EXCEPT ![listing] = Submitted(@, Done)]
  /\ advanced' = TRUE
  /\ quiet' = 0
  /\ UNCHANGED <<listing, walking, hard_failure, stalled_for, misread, raised>>

NothingDone == walking /\ futures # {} /\ Done = {}

CountQuietWait == quiet' = IF quiet < StallWaits THEN quiet + 1 ELSE quiet

(* wait() timed out, and some counter has moved: no stall.                  *)
WaitSeesProgress ==
  /\ NothingDone
  /\ advanced
  /\ advanced' = FALSE
  /\ stalled_for' = NotStalled
  /\ CountQuietWait
  /\ UNCHANGED <<listing, walking, task, futures, result, hard_failure, misread, raised>>

(* Fault: the stall clock starts anew with every wait.                      *)
WaitSeesNothingAnew ==
  /\ NothingDone
  /\ ~advanced
  /\ stalled_for = NotStalled \/ stalled_for + 1 < StallWaits
  /\ stalled_for' = 0
  /\ CountQuietWait
  /\ UNCHANGED <<listing, walking, task, futures, result, hard_failure,
                 advanced, misread, raised>>

(* ... and none has: the stall clock starts, or runs on.                    *)
WaitSeesNothing ==
  /\ NothingDone
  /\ ~advanced
  /\ stalled_for = NotStalled \/ stalled_for + 1 < StallWaits
  /\ stalled_for' = IF stalled_for = NotStalled THEN 0 ELSE stalled_for + 1
  /\ CountQuietWait
  /\ UNCHANGED <<listing, walking, task, futures, result, hard_failure,
                 advanced, misread, raised>>

(* shutdown(wait=False, cancel_futures=True): what runs already goes on.    *)
Cancelled(tasks) ==
  [d \in Dirs |-> IF tasks[d].status = "queued" THEN NoTask ELSE tasks[d]]

(* Fault: giving up is not recorded as a failure.                           *)
AbortSilently ==
  /\ NothingDone
  /\ ~advanced
  /\ stalled_for # NotStalled
  /\ stalled_for + 1 >= StallWaits
  /\ walking' = FALSE
  /\ task' = [task EXCEPT ![listing] = Cancelled(@)]
  /\ CountQuietWait
  /\ UNCHANGED <<listing, futures, result, hard_failure, advanced, stalled_for,
                 misread, raised>>

(* The stall clock has reached the threshold: the listing gives up.         *)
AbortStalled ==
  /\ NothingDone
  /\ ~advanced
  /\ stalled_for # NotStalled
  /\ stalled_for + 1 >= StallWaits
  /\ walking' = FALSE
  /\ hard_failure' = TRUE
  /\ task' = [task EXCEPT ![listing] = Cancelled(@)]
  /\ CountQuietWait
  /\ UNCHANGED <<listing, futures, result, advanced, stalled_for, misread, raised>>

(* Every listed directory was read.                                         *)
Finish ==
  /\ walking
  /\ futures = {} /\ ~raised
  /\ walking' = FALSE
  /\ UNCHANGED <<listing, task, futures, result, hard_failure, advanced,
                 stalled_for, quiet, misread, raised>>

(* future.result() raises what left the read.  What was found is lost; the  *)
(* reads the caller met before, and submitted more for, are still in the    *)
(* pool, and nobody will take their results.                                *)
MeetException ==
  /\ walking
  /\ Raising # {}
  /\ \E D \in SUBSET (Done \ Raising) :
       task' = [task EXCEPT ![listing] = Submitted(@, D)]
  /\ raised' = TRUE
  /\ futures' = {} /\ result' = {}
  /\ UNCHANGED <<listing, walking, hard_failure, advanced, stalled_for, quiet,
                 misread>>

(* shutdown(wait=True) before the exception goes on to the caller.          *)
LeavePool ==
  /\ walking /\ raised
  /\ \A d \in Dirs : task[listing][d].status \notin {"queued", "running"}
  /\ walking' = FALSE
  /\ UNCHANGED <<listing, task, futures, result, hard_failure, advanced,
                 stalled_for, raised, quiet, misread>>

---------------------------------------------------------------------------
(* The workers.  Each listing has a pool of its own.                        *)

Busy(l) == {d \in Dirs : task[l][d].status = "running"}

StartTask(l, d) ==
  /\ task[l][d].status = "queued"
  /\ Cardinality(Busy(l)) < Workers
  /\ task' = [task EXCEPT ![l][d].status = "running"]
  /\ UNCHANGED <<listing, walking, futures, result, hard_failure, advanced,
                 stalled_for, quiet, misread, raised>>

(* A task knows these entries and turns to the next child it must probe.    *)
Proceed(t, unprobed, entries) ==
  IF unprobed = {}
  THEN {[t EXCEPT !.status = "done", !.unprobed = {}, !.entries = entries]}
  ELSE {[t EXCEPT !.reading = c, !.attempt = 1, !.unprobed = unprobed \ {c},
                  !.entries = entries] : c \in unprobed}

(* dir() answered: a directory lists its children, a file says it is none.  *)
Answered(d, t) ==
  IF t.reading = d
  THEN Proceed(t, Resolved(d) \cap Untyped, Recognised(d))
  ELSE Proceed(t, t.unprobed, t.entries \cup {Entry(t.reading, t.reading \in Dirs)})

(* No payload: the directory lists nothing, the child passes for a file.    *)
Unanswered(d, t) ==
  IF t.reading = d THEN Proceed(t, {}, {})
  ELSE Proceed(t, t.unprobed, t.entries \cup {Entry(t.reading, FALSE)})

(* Fault: one attempt too many.                                             *)
MayRetryOnceMore(t) == t.attempt <= MaxAttempts

MayRetry(t) == t.attempt < MaxAttempts

(* Every read attempt moves the client's counters, whichever listing its    *)
(* worker belongs to.                                                       *)
ReadStep(l, d, successors) ==
  /\ task[l][d].status = "running"
  /\ \E t \in successors : task' = [task EXCEPT ![l][d] = t]
  /\ advanced' = TRUE
  /\ quiet' = 0
  /\ UNCHANGED <<listing, walking, futures, result, stalled_for, raised>>

ReadOk(l, d) ==
  /\ ReadStep(l, d, Answered(d, task[l][d]))
  /\ UNCHANGED <<hard_failure, misread>>

ReadFailsRetryably(l, d) ==
  /\ MayRetry(task[l][d])
  /\ ReadStep(l, d, {[task[l][d] EXCEPT !.attempt = @ + 1]})
  /\ UNCHANGED <<hard_failure, misread>>

(* Fault: only the read of a directory itself counts, not that of a child.  *)
ReadFailsHardUncounted(l, d) ==
  /\ ReadStep(l, d, Unanswered(d, task[l][d]))
  /\ hard_failure' = (hard_failure \/ task[l][d].reading = d)
  /\ UNCHANGED misread

(* The last attempt failed, or any attempt with a ValueError.               *)
ReadFailsHard(l, d) ==
  /\ ReadStep(l, d, Unanswered(d, task[l][d]))
  /\ hard_failure' = TRUE
  /\ UNCHANGED misread

(* Lists of directories and files, or one list of items; in that a          *)
(* directory whose kind the item does not tell passes for a file.           *)
Items(d, untold) ==
  LET dirs == (Children[d] \cap Dirs) \ untold
  IN  {Entry(c, c \in dirs) : c \in Children[d]}

ReadItems(l, d) ==
  /\ task[l][d].reading = d
  /\ \E untold \in {{}, Untyped} :
       /\ ReadStep(l, d, Proceed(task[l][d], {}, Items(d, untold)))
       /\ misread' = IF l = listing
                     THEN misread \cup (Children[d] \cap Dirs \cap untold)
                     ELSE misread
  /\ UNCHANGED hard_failure

(* AttributeError, NotADirectoryError and TypeError are taken for the       *)
(* answer of something that is no directory, and an answer of unknown form  *)
(* for that of an empty one.                                                *)
ReadNonDirectory(l, d) ==
  /\ ReadStep(l, d, Unanswered(d, task[l][d]))
  /\ misread' = IF l = listing THEN misread \cup ({task[l][d].reading} \cap Dirs)
                ELSE misread
  /\ UNCHANGED hard_failure

(* A lookup of a child, or a line of the log, fails in a way that no        *)
(* handler catches.                                                         *)
ReadRaises(l, d) ==
  /\ task[l][d].status = "running"
  /\ task' = [task EXCEPT ![l][d] = [NoTask EXCEPT !.status = "raised"]]
  /\ UNCHANGED <<listing, walking, futures, result, hard_failure, advanced,
                 stalled_for, raised, quiet, misread>>

---------------------------------------------------------------------------
Wait == WaitSeesProgress \/ WaitSeesNothing \/ AbortStalled

Caller == Collect \/ Wait \/ Finish \/ MeetException \/ LeavePool

Read(l, d) ==
  \/ ReadOk(l, d)
  \/ ReadItems(l, d)
  \/ ReadFailsRetryably(l, d)
  \/ ReadFailsHard(l, d)
  \/ ReadNonDirectory(l, d)
  \/ ReadRaises(l, d)

Worker == \E l \in Listings, d \in Dirs : StartTask(l, d) \/ Read(l, d)

Next == BeginListing \/ DriveRootFails \/ Caller \/ Worker

Spec == Init /\ [][Next]_vars

(* The caller's waits time out.  Nothing is assumed of the workers.         *)
FairSpec == Spec /\ WF_vars(Caller)

---------------------------------------------------------------------------
(* The caller has the list.                                                 *)
Returned == listing > 0 /\ ~walking /\ ~raised

Listed(d) == d = Root \/ Entry(d, TRUE) \in result

(* A listing that returns without a hard failure is closed: every           *)
(* directory it lists was read, and each of its children that resolves is   *)
(* listed as what it is.  The sync deletes what such a listing lacks.       *)
(* Only directories that answered like something else are exempt, or that   *)
(* are not found by their names.                                            *)
CompleteIsClosed ==
  Returned /\ ~hard_failure =>
    \A d \in Dirs \ (misread \cup Unresolvable) : Listed(d) =>
      \A c \in Resolved(d) :
        Entry(c, c \in Dirs) \in result \/ c \in misread

(* At every moment, a directory is collected as a file only when a failure  *)
(* has made the listing incomplete, or when it answered like a file.  The   *)
(* sync replaces the local directory of such an entry with a file.          *)
MisfiledIsFlagged ==
  \A d \in Dirs : Entry(d, FALSE) \in result => hard_failure \/ d \in misread

(* A listing gives up only after a full threshold of waits in which no      *)
(* read was attempted and nothing was collected.                            *)
NoFalseStall ==
  [][walking /\ ~walking' /\ futures # {} => quiet >= StallWaits]_vars

(* Every listing returns, whatever its workers do or fail to do, unless an  *)
(* exception left one of its reads: then the caller waits for the others.   *)
ListingReturns == walking ~> ~walking \/ raised

---------------------------------------------------------------------------
(* What a comment says, and the code does not keep                          *)

(* A failed read is "recorded as a traversal hard failure so callers treat  *)
(* this run as incomplete": the listing of a drive that is not empty is     *)
(* never empty and complete.                                                *)
EmptyIsFlagged ==
  Returned /\ Resolved(Root) # {} /\ result = {} => hard_failure
=============================================================================
