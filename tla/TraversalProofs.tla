-------------------------- MODULE TraversalProofs --------------------------
(***************************************************************************)
(* Proofs about Traversal, for every drive, pool size, retry limit and     *)
(* stall threshold.                                                        *)
(***************************************************************************)
EXTENDS Traversal, TLAPS

---------------------------------------------------------------------------
(* Type correctness                                                         *)

(* What a directory holds are nodes, and what is known of it are entries.   *)
LEMMA DriveTyped ==
  ASSUME NEW d \in Dirs
  PROVE  /\ d \in Nodes
         /\ Resolved(d) \subseteq Nodes
         /\ Recognised(d) \subseteq Entries
         /\ \A n \in Nodes, b \in BOOLEAN : Entry(n, b) \in Entries
  <1>1. d \in Nodes
    BY DriveAssumption
  <1>2. Resolved(d) \subseteq Nodes
    BY DriveAssumption DEF Resolved
  <1>3. \A n \in Nodes, b \in BOOLEAN : Entry(n, b) \in Entries
    BY DEF Entry, Entries
  <1>4. Recognised(d) \subseteq Entries
    <2> SUFFICES ASSUME NEW e \in Recognised(d) PROVE e \in Entries
      OBVIOUS
    <2>1. PICK c \in Resolved(d) \ Untyped : e = Entry(c, c \in Dirs)
      BY DEF Recognised
    <2>2. (c \in Dirs) \in BOOLEAN
      OBVIOUS
    <2> QED BY <1>2, <1>3, <2>1, <2>2
  <1> QED BY <1>1, <1>2, <1>3, <1>4

(* A task without a read, and one that was just submitted, are tasks.       *)
LEMMA NewTasks ==
  NoTask \in Tasks /\ \A d \in Dirs : Queued(d) \in Tasks
  <1>1. NoTask \in Tasks
    <2>1. Root \in Nodes /\ 1 \in 1 .. MaxAttempts
      BY DriveAssumption, BoundAssumption
    <2> QED BY <2>1 DEF NoTask, Tasks
  <1>2. ASSUME NEW d \in Dirs PROVE Queued(d) \in Tasks
    BY <1>1, DriveTyped DEF Queued, Tasks
  <1> QED BY <1>1, <1>2

(* Turning to the next child makes a task of a task.                        *)
LEMMA ProceedTyped ==
  ASSUME NEW t \in Tasks, NEW U \in SUBSET Nodes, NEW E \in SUBSET Entries
  PROVE  Proceed(t, U, E) \subseteq Tasks
  <1> SUFFICES ASSUME NEW r \in Proceed(t, U, E) PROVE r \in Tasks
    OBVIOUS
  <1>1. CASE U = {}
    BY <1>1 DEF Proceed, Tasks
  <1>2. CASE U # {}
    <2>1. PICK c \in U :
            r = [t EXCEPT !.reading = c, !.attempt = 1, !.unprobed = U \ {c},
                          !.entries = E]
      BY <1>2 DEF Proceed
    <2>2. 1 \in 1 .. MaxAttempts
      BY BoundAssumption
    <2> QED BY <2>1, <2>2 DEF Tasks
  <1> QED BY <1>1, <1>2

(* So do an answer and a missing one.                                       *)
LEMMA AnswersTyped ==
  ASSUME NEW d \in Dirs, NEW t \in Tasks
  PROVE  Answered(d, t) \subseteq Tasks /\ Unanswered(d, t) \subseteq Tasks
  <1>1. t.reading \in Nodes /\ t.unprobed \in SUBSET Nodes /\ t.entries \in SUBSET Entries
    BY DEF Tasks
  <1>2. (t.reading \in Dirs) \in BOOLEAN
    OBVIOUS
  <1>3. /\ t.entries \cup {Entry(t.reading, t.reading \in Dirs)} \in SUBSET Entries
        /\ t.entries \cup {Entry(t.reading, FALSE)} \in SUBSET Entries
    <2>1. Entry(t.reading, t.reading \in Dirs) \in Entries
      BY <1>1, <1>2, DriveTyped
    <2>2. Entry(t.reading, FALSE) \in Entries
      BY <1>1, DriveTyped
    <2> QED BY <1>1, <2>1, <2>2
  <1>4. Resolved(d) \cap Untyped \in SUBSET Nodes /\ Recognised(d) \in SUBSET Entries
    BY DriveTyped
  <1>5. {} \in SUBSET Nodes /\ {} \in SUBSET Entries
    OBVIOUS
  <1>6. Answered(d, t) \subseteq Tasks
    BY <1>1, <1>3, <1>4, ProceedTyped DEF Answered
  <1>7. Unanswered(d, t) \subseteq Tasks
    BY <1>1, <1>3, <1>5, ProceedTyped DEF Unanswered
  <1> QED BY <1>6, <1>7

(* Replacing one listing's tasks, or one task of it, keeps the table typed. *)
LEMMA TableTyped ==
  ASSUME NEW table \in [Listings -> [Dirs -> Tasks]], NEW l \in Listings
  PROVE  /\ \A row \in [Dirs -> Tasks] :
              [table EXCEPT ![l] = row] \in [Listings -> [Dirs -> Tasks]]
         /\ \A d \in Dirs, t \in Tasks :
              [table EXCEPT ![l][d] = t] \in [Listings -> [Dirs -> Tasks]]
  OBVIOUS

(* The entries of items whose kinds are told but for those of untold.       *)
LEMMA ItemsTyped ==
  ASSUME NEW d \in Dirs, NEW untold
  PROVE  Items(d, untold) \in SUBSET Entries
  <1> SUFFICES ASSUME NEW c \in Children[d]
               PROVE  Entry(c, c \in (Children[d] \cap Dirs) \ untold) \in Entries
    BY DEF Items
  <1>1. c \in Nodes
    BY DriveAssumption
  <1>2. (c \in (Children[d] \cap Dirs) \ untold) \in BOOLEAN
    OBVIOUS
  <1> QED BY <1>1, <1>2, DriveTyped

(* A step of a worker keeps the types.                                      *)
LEMMA WorkerTyped ==
  ASSUME TypeOK, NEW l \in Listings, NEW d \in Dirs, StartTask(l, d) \/ Read(l, d)
  PROVE  TypeOK'
  <1> DEFINE t == task[l][d]
  <1>1. t \in Tasks
    BY DEF TypeOK
  <1>2. CASE StartTask(l, d)
    <2>1. [t EXCEPT !.status = "running"] \in Tasks
      BY <1>1 DEF Tasks
    <2>2. task' = [task EXCEPT ![l][d] = [t EXCEPT !.status = "running"]]
      BY <1>2 DEF StartTask, TypeOK
    <2>3. task' \in [Listings -> [Dirs -> Tasks]]
      BY <2>1, <2>2, TableTyped DEF TypeOK
    <2> QED BY <1>2, <2>3 DEF StartTask, TypeOK
  <1>3. ASSUME NEW S \in SUBSET Tasks, ReadStep(l, d, S)
        PROVE  /\ task' \in [Listings -> [Dirs -> Tasks]]
               /\ advanced' \in BOOLEAN
               /\ quiet' \in 0 .. StallWaits
               /\ UNCHANGED <<listing, walking, futures, result, stalled_for, raised>>
    <2>1. PICK r \in S : task' = [task EXCEPT ![l][d] = r]
      BY <1>3 DEF ReadStep
    <2>2. task' \in [Listings -> [Dirs -> Tasks]]
      BY <2>1, TableTyped DEF TypeOK
    <2> QED BY <1>3, <2>2, BoundAssumption DEF ReadStep
  <1>4. CASE ReadOk(l, d)
    BY <1>1, <1>3, <1>4, AnswersTyped DEF ReadOk, TypeOK
  <1>5. CASE ReadFailsRetryably(l, d)
    <2>1. [t EXCEPT !.attempt = @ + 1] \in Tasks
      BY <1>1, <1>5, BoundAssumption DEF ReadFailsRetryably, MayRetry, Tasks
    <2>2. {[t EXCEPT !.attempt = @ + 1]} \in SUBSET Tasks
      BY <2>1
    <2> QED BY <1>3, <1>5, <2>2 DEF ReadFailsRetryably, TypeOK
  <1>6. CASE ReadFailsHard(l, d)
    BY <1>1, <1>3, <1>6, AnswersTyped DEF ReadFailsHard, TypeOK
  <1>7. CASE ReadNonDirectory(l, d)
    BY <1>1, <1>3, <1>7, AnswersTyped DEF ReadNonDirectory, TypeOK
  <1>8. CASE ReadRaises(l, d)
    <2>1. [NoTask EXCEPT !.status = "raised"] \in Tasks
      BY NewTasks DEF Tasks
    <2>2. task' \in [Listings -> [Dirs -> Tasks]]
      BY <1>8, <2>1, TableTyped DEF ReadRaises, TypeOK
    <2> QED BY <1>8, <2>2 DEF ReadRaises, TypeOK
  <1>9. CASE ReadItems(l, d)
    <2>1. PICK untold \in {{}, Untyped} :
            ReadStep(l, d, Proceed(t, {}, Items(d, untold)))
      BY <1>9 DEF ReadItems, Items
    <2>2. Proceed(t, {}, Items(d, untold)) \in SUBSET Tasks
      BY <1>1, ItemsTyped, ProceedTyped
    <2>3. misread' \subseteq Dirs /\ UNCHANGED hard_failure
      BY <1>9 DEF ReadItems, TypeOK
    <2> QED BY <1>3, <2>1, <2>2, <2>3 DEF TypeOK
  <1> QED BY <1>2, <1>4, <1>5, <1>6, <1>7, <1>8, <1>9 DEF Read

(* Init establishes the types.                                              *)
LEMMA TypeInit == Init => TypeOK
  <1> SUFFICES ASSUME Init PROVE TypeOK
    OBVIOUS
  <1>1. task \in [Listings -> [Dirs -> Tasks]]
    BY NewTasks DEF Init
  <1>2. /\ listing \in 0 .. MaxListings
        /\ stalled_for \in 0 .. StallWaits
        /\ quiet \in 0 .. StallWaits
    BY BoundAssumption DEF Init, NotStalled
  <1>3. futures \subseteq Dirs /\ result \subseteq Entries /\ misread \subseteq Dirs
    BY DEF Init
  <1>4. /\ walking \in BOOLEAN /\ hard_failure \in BOOLEAN
        /\ advanced \in BOOLEAN /\ raised \in BOOLEAN
    BY DEF Init
  <1> QED BY <1>1, <1>2, <1>3, <1>4 DEF TypeOK

(* A listing that is walked was started, and one that met an exception waits *)
(* for no result.                                                           *)
TypeInv == TypeOK /\ (walking => listing > 0) /\ (raised => futures = {})

(* Submitting what finished reads found leaves a row of tasks.              *)
LEMMA SubmittedTyped ==
  ASSUME TypeOK, listing \in Listings, NEW D \in SUBSET Dirs
  PROVE  /\ FoundBy(D) \in SUBSET Entries
         /\ Submitted(task[listing], D) \in [Dirs -> Tasks]
  <1>1. \A d \in Dirs : task[listing][d] \in Tasks
    BY DEF TypeOK
  <1>2. FoundBy(D) \in SUBSET Entries
    BY <1>1 DEF FoundBy, Tasks
  <1>3. Submitted(task[listing], D) \in [Dirs -> Tasks]
    BY <1>1, NewTasks DEF Submitted
  <1> QED BY <1>2, <1>3

(* A step of the caller's thread keeps the types.                           *)
LEMMA CallerTyped ==
  ASSUME TypeInv, BeginListing \/ DriveRootFails \/ Caller
  PROVE  TypeOK'
  <1> TypeOK
    BY DEF TypeInv
  <1>0. walking => listing \in Listings
    BY DEF TypeInv, TypeOK, Listings
  <1>q. CountQuietWait => quiet' \in 0 .. StallWaits
    BY BoundAssumption DEF CountQuietWait, TypeOK
  <1>1. CASE BeginListing
    <2>1. listing + 1 \in Listings
      BY <1>1, BoundAssumption DEF BeginListing, TypeOK, Listings
    <2>2. task' \in [Listings -> [Dirs -> Tasks]]
      BY <1>1, <2>1, NewTasks, TableTyped, DriveAssumption DEF BeginListing, TypeOK
    <2>3. /\ listing' \in 0 .. MaxListings
          /\ stalled_for' \in 0 .. StallWaits
          /\ quiet' \in 0 .. StallWaits
      BY <1>1, BoundAssumption DEF BeginListing, TypeOK, NotStalled
    <2> QED BY <1>1, <2>2, <2>3, DriveAssumption DEF BeginListing, TypeOK
  <1>2. CASE DriveRootFails
    <2>1. listing' \in 0 .. MaxListings
      BY <1>2, BoundAssumption DEF DriveRootFails, TypeOK
    <2>2. task' \in [Listings -> [Dirs -> Tasks]]
      BY <1>2 DEF DriveRootFails, TypeOK
    <2> QED BY <1>2, <2>1, <2>2 DEF DriveRootFails, TypeOK
  <1>3. CASE Collect
    <2>1. listing \in Listings /\ Done \in SUBSET Dirs
      BY <1>0, <1>3 DEF Collect, Done, TypeOK
    <2>2. task' = [task EXCEPT ![listing] = Submitted(task[listing], Done)]
      BY <1>3, <2>1 DEF Collect, TypeOK
    <2>3. task' \in [Listings -> [Dirs -> Tasks]]
      BY <2>1, <2>2, SubmittedTyped, TableTyped DEF TypeOK
    <2>4. futures' \subseteq Dirs
      BY <1>3 DEF Collect, TypeOK, DirectoriesIn
    <2> QED BY <1>3, <2>1, <2>3, <2>4, SubmittedTyped, BoundAssumption
            DEF Collect, TypeOK
  <1>4. CASE WaitSeesProgress
    <2>1. stalled_for' \in 0 .. StallWaits
      BY <1>4, BoundAssumption DEF WaitSeesProgress, NotStalled
    <2> QED BY <1>4, <1>q, <2>1 DEF WaitSeesProgress, TypeOK
  <1>5. CASE WaitSeesNothing
    <2>1. stalled_for' \in 0 .. StallWaits
      BY <1>5, BoundAssumption DEF WaitSeesNothing, NotStalled, TypeOK
    <2> QED BY <1>5, <1>q, <2>1 DEF WaitSeesNothing, TypeOK
  <1>6. CASE AbortStalled
    <2>1. listing \in Listings
      BY <1>0, <1>6 DEF AbortStalled, NothingDone
    <2>2. Cancelled(task[listing]) \in [Dirs -> Tasks]
      <3>1. \A d \in Dirs : task[listing][d] \in Tasks
        BY <2>1 DEF TypeOK
      <3> QED BY <3>1, NewTasks DEF Cancelled
    <2>3. task' \in [Listings -> [Dirs -> Tasks]]
      BY <1>6, <2>1, <2>2, TableTyped DEF AbortStalled, TypeOK
    <2> QED BY <1>6, <1>q, <2>3 DEF AbortStalled, TypeOK
  <1>7. CASE Finish
    BY <1>7 DEF Finish, TypeOK
  <1>8. CASE MeetException
    <2>1. listing \in Listings
      BY <1>0, <1>8 DEF MeetException
    <2>2. PICK D \in SUBSET (Done \ Raising) :
            task' = [task EXCEPT ![listing] = Submitted(task[listing], D)]
      BY <1>8, <2>1 DEF MeetException, TypeOK
    <2>3. D \in SUBSET Dirs
      BY DEF Done, TypeOK
    <2>4. task' \in [Listings -> [Dirs -> Tasks]]
      BY <2>1, <2>2, <2>3, SubmittedTyped, TableTyped DEF TypeOK
    <2> QED BY <1>8, <2>4 DEF MeetException, TypeOK
  <1>9. CASE LeavePool
    BY <1>9 DEF LeavePool, TypeOK
  <1> QED BY <1>1, <1>2, <1>3, <1>4, <1>5, <1>6, <1>7, <1>8, <1>9 DEF Caller, Wait

(* Every reachable state is typed, and a listing that is walked was started.*)
THEOREM TypeInvariant == Spec => []TypeInv
  <1>1. Init => TypeInv
    BY TypeInit DEF Init, TypeInv
  <1>2. TypeInv /\ [Next]_vars => TypeInv'
    <2> SUFFICES ASSUME TypeInv, [Next]_vars PROVE TypeInv'
      OBVIOUS
    <2>1. CASE BeginListing \/ DriveRootFails \/ Caller
      <3>1. TypeOK'
        BY <2>1, CallerTyped
      <3>2. walking' => listing' > 0
        <4>1. CASE BeginListing
          BY <4>1 DEF BeginListing, TypeInv, TypeOK
        <4>2. CASE DriveRootFails
          BY <4>2 DEF DriveRootFails
        <4>3. CASE Caller
          BY <4>3 DEF Caller, Wait, Collect, WaitSeesProgress, WaitSeesNothing,
                      AbortStalled, Finish, MeetException, LeavePool, NothingDone,
                      TypeInv
        <4> QED BY <2>1, <4>1, <4>2, <4>3
      <3>3. raised' => futures' = {}
        <4>1. CASE Collect
          BY <4>1 DEF Collect, Done, TypeInv
        <4>2. CASE ~Collect
          BY <2>1, <4>2 DEF BeginListing, DriveRootFails, Caller, Wait,
                      WaitSeesProgress, WaitSeesNothing, AbortStalled, Finish,
                      MeetException, LeavePool, TypeInv
        <4> QED BY <4>1, <4>2
      <3> QED BY <3>1, <3>2, <3>3 DEF TypeInv
    <2>2. CASE Worker
      <3>1. PICK l \in Listings, d \in Dirs : StartTask(l, d) \/ Read(l, d)
        BY <2>2 DEF Worker
      <3>2. TypeOK'
        BY <3>1, WorkerTyped DEF TypeInv
      <3>3. UNCHANGED <<listing, walking, futures, raised>>
        BY <3>1 DEF StartTask, Read, ReadOk, ReadItems, ReadFailsRetryably, ReadFailsHard,
                    ReadNonDirectory, ReadStep, ReadRaises
      <3> QED BY <3>2, <3>3 DEF TypeInv
    <2>3. CASE UNCHANGED vars
      BY <2>3 DEF vars, TypeInv, TypeOK
    <2> QED BY <2>1, <2>2, <2>3 DEF Next
  <1> QED BY <1>1, <1>2, PTL DEF Spec

(* Every variable stays within its type; in particular no task attempts a   *)
(* read more often than MaxAttempts.                                        *)
THEOREM TypeCorrect == Spec => []TypeOK
  <1>1. TypeInv => TypeOK
    BY DEF TypeInv
  <1> QED BY <1>1, TypeInvariant, PTL

---------------------------------------------------------------------------
(* What a task has learnt.  failed and mis stand for hard_failure and       *)
(* misread, which only grow while a listing lasts.                          *)

(* No entry is misfiled without a reason.                                   *)
EntriesOK(d, E, failed, mis) ==
  \A e \in E :
    ~e.is_dir /\ e.node \in Dirs => failed \/ e.node \in mis

(* Every child outside rest is among the entries.                           *)
Closed(d, E, rest, mis) ==
  \A c \in Resolved(d) \ rest : Entry(c, c \in Dirs) \in E \/ c \in mis

(* A running task still has to learn only the child it probes and those it  *)
(* has not probed; a done one has nothing left, unless its directory did    *)
(* not answer like one.                                                     *)
TaskOK(d, t, failed, mis) ==
  /\ t.unprobed \subseteq Resolved(d)
  /\ EntriesOK(d, t.entries, failed, mis)
  /\ t.status = "running" =>
       \/ t.reading = d
       \/ /\ t.reading \in Resolved(d)
          /\ failed \/ Closed(d, t.entries, t.unprobed \cup {t.reading}, mis)
  /\ t.status = "queued" => t.reading = d
  /\ t.status = "done" => failed \/ d \in mis \/ Closed(d, t.entries, {}, mis)

(* A failure or a misreading elsewhere takes nothing back.                  *)
LEMMA TaskStaysOK ==
  ASSUME NEW d, NEW t, NEW f, NEW g, NEW m, NEW n,
         TaskOK(d, t, f, m), f => g, m \subseteq n
  PROVE  TaskOK(d, t, g, n)
  BY DEF TaskOK, EntriesOK, Closed

(* A task that has not begun has learnt nothing, and claims nothing.        *)
LEMMA NewTasksOK ==
  ASSUME NEW d, NEW f, NEW m
  PROVE  TaskOK(d, NoTask, f, m) /\ TaskOK(d, Queued(d), f, m)
  BY DEF TaskOK, NoTask, Queued, EntriesOK, Closed

(* Turning to the next child keeps a task sound when the entries and the    *)
(* children left to probe are all there is.                                 *)
LEMMA ProceedOK ==
  ASSUME NEW d, NEW t \in Tasks, NEW f, NEW m, NEW E, NEW U \in SUBSET Resolved(d),
         t.status = "running",
         EntriesOK(d, E, f, m),
         U # {} => f \/ Closed(d, E, U, m),
         U = {} => f \/ d \in m \/ Closed(d, E, {}, m),
         NEW r \in Proceed(t, U, E)
  PROVE  TaskOK(d, r, f, m)
  <1>1. CASE U = {}
    <2>1. r = [t EXCEPT !.status = "done", !.unprobed = {}, !.entries = E]
      BY <1>1 DEF Proceed
    <2>2. r.status = "done" /\ r.unprobed = {} /\ r.entries = E
      BY <2>1 DEF Tasks
    <2> QED BY <1>1, <2>2 DEF TaskOK
  <1>2. CASE U # {}
    <2>1. PICK c \in U :
            r = [t EXCEPT !.reading = c, !.attempt = 1, !.unprobed = U \ {c},
                          !.entries = E]
      BY <1>2 DEF Proceed
    <2>2. /\ r.status = "running" /\ r.reading = c
          /\ r.unprobed = U \ {c} /\ r.entries = E
      BY <2>1 DEF Tasks
    <2>3. r.unprobed \cup {r.reading} = U
      BY <2>2
    <2> QED BY <1>2, <2>2, <2>3 DEF TaskOK
  <1> QED BY <1>1, <1>2

(* The entry of a node carries its name and its kind.                       *)
LEMMA EntryTells ==
  ASSUME NEW n
  PROVE  /\ Entry(n, n \in Dirs).node = n
         /\ ~Entry(n, n \in Dirs).is_dir => n \notin Dirs
  <1>1. CASE n \in Dirs
    <2>1. (n \in Dirs) = TRUE
      BY <1>1
    <2> QED BY <2>1 DEF Entry
  <1>2. CASE n \notin Dirs
    BY <1>2 DEF Entry
  <1> QED BY <1>1, <1>2

(* An answer tells the kind of what was read.                               *)
LEMMA AnsweredOK ==
  ASSUME NEW d \in Dirs, NEW t \in Tasks, NEW f, NEW m,
         TaskOK(d, t, f, m), t.status = "running", NEW r \in Answered(d, t)
  PROVE  TaskOK(d, r, f, m)
  <1>1. CASE t.reading = d
    <2>1. EntriesOK(d, Recognised(d), f, m)
      BY EntryTells DEF EntriesOK, Recognised
    <2>2. Closed(d, Recognised(d), Resolved(d) \cap Untyped, m)
      BY DEF Closed, Recognised
    <2>3. Resolved(d) \cap Untyped = {} => Closed(d, Recognised(d), {}, m)
      BY <2>2 DEF Closed
    <2>4. Resolved(d) \cap Untyped \in SUBSET Resolved(d)
      OBVIOUS
    <2>5. r \in Proceed(t, Resolved(d) \cap Untyped, Recognised(d))
      BY <1>1 DEF Answered
    <2> QED BY <2>1, <2>2, <2>3, <2>4, <2>5, ProceedOK
  <1>2. CASE t.reading # d
    <2> DEFINE E == t.entries \cup {Entry(t.reading, t.reading \in Dirs)}
    <2>1. t.reading \in Resolved(d) /\ t.unprobed \in SUBSET Resolved(d)
      BY <1>2 DEF TaskOK
    <2>2. EntriesOK(d, E, f, m)
      BY <2>1, EntryTells DEF EntriesOK, TaskOK
    <2>3. f \/ Closed(d, E, t.unprobed, m)
      BY <1>2 DEF Closed, TaskOK
    <2>4. r \in Proceed(t, t.unprobed, E)
      BY <1>2 DEF Answered
    <2> HIDE DEF E
    <2> QED BY <2>1, <2>2, <2>3, <2>4, ProceedOK
  <1> QED BY <1>1, <1>2

(* A missing answer leaves the directory unlisted, or the child misfiled,   *)
(* and one of the two records says so.                                      *)
LEMMA UnansweredOK ==
  ASSUME NEW d \in Dirs, NEW t \in Tasks, NEW f, NEW m,
         TaskOK(d, t, f, m), t.status = "running",
         f \/ (t.reading \in Dirs => t.reading \in m),
         NEW r \in Unanswered(d, t)
  PROVE  TaskOK(d, r, f, m)
  <1>1. CASE t.reading = d
    <2>1. EntriesOK(d, {}, f, m) /\ {} \in SUBSET Resolved(d)
      BY DEF EntriesOK
    <2>2. f \/ d \in m
      BY <1>1
    <2>3. r \in Proceed(t, {}, {})
      BY <1>1 DEF Unanswered
    <2> QED BY <2>1, <2>2, <2>3, ProceedOK
  <1>2. CASE t.reading # d
    <2> DEFINE E == t.entries \cup {Entry(t.reading, FALSE)}
    <2>1. t.reading \in Resolved(d) /\ t.unprobed \in SUBSET Resolved(d)
      BY <1>2 DEF TaskOK
    <2>2. EntriesOK(d, E, f, m)
      BY <2>1 DEF EntriesOK, Entry, TaskOK
    <2>3. f \/ Closed(d, E, t.unprobed, m)
      <3> SUFFICES ASSUME ~f, NEW c \in Resolved(d) \ t.unprobed
                   PROVE  Entry(c, c \in Dirs) \in E \/ c \in m
        BY DEF Closed
      <3>1. CASE c = t.reading /\ c \in Dirs
        BY <3>1
      <3>2. CASE c = t.reading /\ c \notin Dirs
        <4>1. (c \in Dirs) = FALSE
          BY <3>2
        <4> QED BY <3>2, <4>1
      <3>3. CASE c # t.reading
        BY <1>2, <3>3 DEF Closed, TaskOK
      <3> QED BY <3>1, <3>2, <3>3
    <2>4. r \in Proceed(t, t.unprobed, E)
      BY <1>2 DEF Unanswered
    <2> HIDE DEF E
    <2> QED BY <2>1, <2>2, <2>3, <2>4, ProceedOK
  <1> QED BY <1>1, <1>2

(* So do items, whose untold directories are on record.                     *)
LEMMA ItemsOK ==
  ASSUME NEW d \in Dirs, NEW t \in Tasks, NEW f, NEW m, NEW untold,
         t.status = "running", Children[d] \cap Dirs \cap untold \subseteq m,
         NEW r \in Proceed(t, {}, Items(d, untold))
  PROVE  TaskOK(d, r, f, m)
  <1> DEFINE dirs == (Children[d] \cap Dirs) \ untold
             E == Items(d, untold)
  <1>1. \A e \in E : \E c \in Children[d] : e = Entry(c, c \in dirs)
    BY DEF Items
  <1>2. EntriesOK(d, E, f, m)
    <2> SUFFICES ASSUME NEW e \in E, ~e.is_dir, e.node \in Dirs PROVE e.node \in m
      BY DEF EntriesOK
    <2>1. PICK c \in Children[d] : e = Entry(c, c \in dirs)
      BY <1>1
    <2>2. e.node = c
      BY <2>1 DEF Entry
    <2>3. c \notin dirs
      <3> SUFFICES ASSUME c \in dirs PROVE FALSE
        OBVIOUS
      <3>1. (c \in dirs) = TRUE
        OBVIOUS
      <3> QED BY <2>1, <3>1 DEF Entry
    <2> QED BY <2>2, <2>3
  <1>3. Closed(d, E, {}, m)
    <2> SUFFICES ASSUME NEW c \in Resolved(d), c \notin m PROVE Entry(c, c \in Dirs) \in E
      BY DEF Closed
    <2>1. c \in Children[d] /\ (c \in dirs <=> c \in Dirs)
      BY DEF Resolved
    <2>2. (c \in dirs) = (c \in Dirs)
      BY <2>1
    <2>3. Entry(c, c \in dirs) \in E
      BY <2>1 DEF Items
    <2> QED BY <2>2, <2>3
  <1> HIDE DEF E
  <1>4. {} \in SUBSET Resolved(d) /\ r \in Proceed(t, {}, E)
    BY DEF E
  <1> QED BY <1>2, <1>3, <1>4, ProceedOK

---------------------------------------------------------------------------
(* The listing                                                              *)

(* Later listings have not begun.                                           *)
FreshTasks ==
  \A l \in Listings, d \in Dirs : l > listing => task[l][d] = NoTask

TasksOK ==
  listing > 0 => \A d \in Dirs : TaskOK(d, task[listing][d], hard_failure, misread)

(* A listed directory is still waited for, or all its children are listed,  *)
(* if it was found.                                                         *)
CollectedOK ==
  listing > 0 /\ ~raised => \A d \in Dirs \ Unresolvable : Listed(d) =>
    d \in futures \/ hard_failure \/ d \in misread \/ Closed(d, result, {}, misread)

(* Nothing is waited for after a return, unless the listing gave up.        *)
ReturnedOK == Returned => hard_failure \/ futures = {}

(* The inductive invariant.  What was collected is closed only because what *)
(* every task holds is; what a task holds is closed up to the children it   *)
(* has yet to probe.                                                        *)
WalkInv == FreshTasks /\ TasksOK /\ CollectedOK /\ MisfiledIsFlagged /\ ReturnedOK

(* A listing begins with the root's read, and a failed root ends it.        *)
LEMMA BeginStep ==
  ASSUME TypeInv, WalkInv, BeginListing \/ DriveRootFails
  PROVE  WalkInv'
  <1>1. /\ listing \in Nat /\ listing' = listing + 1
        /\ listing' \in Listings
        /\ result' = {}
    BY BoundAssumption DEF BeginListing, DriveRootFails, TypeInv, TypeOK, Listings
  <1>2. \A d \in Dirs : task[listing'][d] = NoTask
    BY <1>1 DEF WalkInv, FreshTasks
  <1>3. CASE BeginListing
    <2>1. \A l \in Listings, d \in Dirs :
            task'[l][d] = IF l = listing' /\ d = Root THEN Queued(Root) ELSE task[l][d]
      BY <1>1, <1>3, DriveAssumption DEF BeginListing, TypeInv, TypeOK
    <2>2. FreshTasks'
      BY <1>1, <2>1 DEF FreshTasks, WalkInv, Listings
    <2>3. TasksOK'
      BY <1>1, <1>2, <2>1, NewTasksOK DEF TasksOK
    <2>4. CollectedOK'
      BY <1>1, <1>3 DEF CollectedOK, Listed, BeginListing
    <2>5. MisfiledIsFlagged' /\ ReturnedOK'
      BY <1>1, <1>3 DEF MisfiledIsFlagged, ReturnedOK, Returned, BeginListing
    <2> QED BY <2>2, <2>3, <2>4, <2>5 DEF WalkInv
  <1>4. CASE DriveRootFails
    <2>1. FreshTasks'
      BY <1>1, <1>4 DEF FreshTasks, WalkInv, DriveRootFails, Listings
    <2>2. TasksOK'
      BY <1>2, <1>4, NewTasksOK DEF TasksOK, DriveRootFails
    <2>3. CollectedOK' /\ MisfiledIsFlagged' /\ ReturnedOK'
      BY <1>4 DEF CollectedOK, MisfiledIsFlagged, ReturnedOK, DriveRootFails
    <2> QED BY <2>1, <2>2, <2>3 DEF WalkInv
  <1> QED BY <1>3, <1>4

(* A done task hands over all it promised; what it lists is waited for.     *)
LEMMA CollectStep ==
  ASSUME TypeInv, WalkInv, Collect
  PROVE  WalkInv'
  <1> DEFINE found == FoundBy(Done)
  <1>1. /\ listing > 0 /\ listing \in Listings
        /\ UNCHANGED <<listing, walking, hard_failure, misread, raised>>
        /\ walking /\ ~raised
        /\ result' = result \cup found
        /\ futures' = (futures \ Done) \cup DirectoriesIn(found)
    BY DEF Collect, Done, TypeInv, TypeOK, Listings
  <1>2. \A l \in Listings, d \in Dirs :
          task'[l][d] = IF l # listing THEN task[l][d]
                        ELSE IF d \in DirectoriesIn(found) THEN Queued(d)
                        ELSE IF d \in Done THEN NoTask ELSE task[listing][d]
    BY <1>1 DEF Collect, Submitted, TypeInv, TypeOK
  <1>3. \A d \in Done : /\ d \in Dirs /\ d \in futures
                        /\ task[listing][d].status = "done"
                        /\ task[listing][d].entries \subseteq found
    BY DEF Collect, Done, Raising, FoundBy, TypeInv, TypeOK
  <1>4. \A e \in found : \E d \in Done : e \in task[listing][d].entries
    BY DEF FoundBy
  <1> HIDE DEF found
  <1>5. \A d \in Dirs : TaskOK(d, task[listing][d], hard_failure, misread)
    BY <1>1 DEF WalkInv, TasksOK
  <1>6. FreshTasks'
    BY <1>1, <1>2 DEF FreshTasks, WalkInv, Listings
  <1>7. TasksOK'
    BY <1>1, <1>2, <1>5, NewTasksOK DEF TasksOK
  <1>8. CollectedOK'
    <2> SUFFICES ASSUME NEW d \in Dirs \ Unresolvable, Listed(d)', ~hard_failure, d \notin misread,
                        d \notin futures'
                 PROVE  Closed(d, result', {}, misread)
      BY <1>1 DEF CollectedOK
    <2>1. Listed(d)
      BY <1>1 DEF Listed, DirectoriesIn
    <2>2. CASE d \in Done
      <3>1. Closed(d, task[listing][d].entries, {}, misread)
        BY <1>3, <1>5, <2>2 DEF TaskOK
      <3> QED BY <1>1, <1>3, <2>2, <3>1 DEF Closed
    <2>3. CASE d \notin Done
      <3>1. Closed(d, result, {}, misread)
        BY <1>1, <2>1, <2>3 DEF WalkInv, CollectedOK
      <3> QED BY <1>1, <3>1 DEF Closed
    <2> QED BY <2>2, <2>3
  <1>9. MisfiledIsFlagged'
    <2> SUFFICES ASSUME NEW d \in Dirs, Entry(d, FALSE) \in found, ~hard_failure
                 PROVE  d \in misread
      BY <1>1 DEF MisfiledIsFlagged, WalkInv
    <2>1. PICK p \in Done : Entry(d, FALSE) \in task[listing][p].entries
      BY <1>4
    <2>2. EntriesOK(p, task[listing][p].entries, hard_failure, misread)
      BY <1>3, <1>5, <2>1 DEF TaskOK
    <2> QED BY <2>1, <2>2 DEF EntriesOK, Entry
  <1>10. ReturnedOK'
    BY <1>1 DEF ReturnedOK, Returned
  <1> QED BY <1>6, <1>7, <1>8, <1>9, <1>10 DEF WalkInv

(* An exception leaves nothing collected, and whatever stays in the pool is *)
(* as good as it was.                                                       *)
LEMMA ExceptionStep ==
  ASSUME TypeInv, WalkInv, MeetException
  PROVE  WalkInv'
  <1>1. /\ listing > 0 /\ listing \in Listings
        /\ UNCHANGED <<listing, walking, hard_failure, misread>>
        /\ raised' /\ result' = {}
    BY DEF MeetException, TypeInv, TypeOK, Listings
  <1>2. PICK D \in SUBSET (Done \ Raising) :
          task' = [task EXCEPT ![listing] = Submitted(@, D)]
    BY DEF MeetException
  <1>3. \A l \in Listings, d \in Dirs :
          \/ task'[l][d] = task[l][d]
          \/ l = listing /\ task'[l][d] \in {NoTask, Queued(d)}
    BY <1>1, <1>2 DEF Submitted, TypeInv, TypeOK
  <1>4. FreshTasks'
    BY <1>1, <1>3 DEF FreshTasks, WalkInv, Listings
  <1>5. TasksOK'
    BY <1>1, <1>3, NewTasksOK DEF TasksOK, WalkInv
  <1>6. CollectedOK' /\ MisfiledIsFlagged' /\ ReturnedOK'
    BY <1>1 DEF CollectedOK, MisfiledIsFlagged, ReturnedOK, Returned
  <1> QED BY <1>4, <1>5, <1>6 DEF WalkInv

(* Waiting and returning change no task; giving up cancels some and marks   *)
(* the listing.                                                             *)
LEMMA WaitStep ==
  ASSUME TypeInv, WalkInv, Wait \/ Finish \/ LeavePool
  PROVE  WalkInv'
  <1>2. UNCHANGED hard_failure \/ hard_failure'
    BY DEF Wait, WaitSeesProgress, WaitSeesNothing, AbortStalled, Finish, LeavePool
  <1>3. \A l \in Listings, d \in Dirs :
          task'[l][d] = task[l][d] \/ task'[l][d] = NoTask
    <2>1. CASE AbortStalled
      BY <2>1 DEF AbortStalled, Cancelled, TypeInv, TypeOK
    <2>2. CASE UNCHANGED task
      BY <2>2
    <2> QED BY <2>1, <2>2 DEF Wait, WaitSeesProgress, WaitSeesNothing, Finish, LeavePool
  <1>4. UNCHANGED <<listing, futures, result, misread, raised>>
    BY DEF Wait, WaitSeesProgress, WaitSeesNothing, AbortStalled, Finish, LeavePool
  <1>5. FreshTasks'
    BY <1>3, <1>4 DEF FreshTasks, WalkInv
  <1>6. TasksOK'
    <2> SUFFICES ASSUME listing > 0, NEW d \in Dirs
                 PROVE  TaskOK(d, task'[listing][d], hard_failure', misread)
      BY <1>4 DEF TasksOK
    <2>1. listing \in Listings
      BY DEF TypeInv, TypeOK, Listings
    <2>2. TaskOK(d, task[listing][d], hard_failure', misread)
      BY <1>2, TaskStaysOK DEF WalkInv, TasksOK
    <2> QED BY <1>3, <2>1, <2>2, NewTasksOK
  <1>7. CollectedOK' /\ MisfiledIsFlagged'
    <2>1. CASE UNCHANGED hard_failure
      BY <1>4, <2>1 DEF CollectedOK, MisfiledIsFlagged, Listed, Closed, WalkInv
    <2>2. CASE hard_failure'
      BY <2>2 DEF CollectedOK, MisfiledIsFlagged
    <2> QED BY <1>2, <2>1, <2>2
  <1>8. ReturnedOK'
    BY <1>4 DEF ReturnedOK, Returned, WalkInv, Wait, WaitSeesProgress,
                WaitSeesNothing, AbortStalled, Finish, LeavePool
  <1> QED BY <1>5, <1>6, <1>7, <1>8 DEF WalkInv

(* A read keeps its own task sound, and may only add failures for others.   *)
LEMMA WorkerStep ==
  ASSUME TypeInv, WalkInv, NEW l \in Listings, NEW d \in Dirs,
         StartTask(l, d) \/ Read(l, d)
  PROVE  WalkInv'
  <1> DEFINE t == task[l][d]
  <1>1. /\ UNCHANGED <<listing, walking, futures, result, raised>>
        /\ hard_failure => hard_failure'
        /\ misread \subseteq misread'
    BY DEF StartTask, Read, ReadOk, ReadItems, ReadFailsRetryably, ReadFailsHard,
           ReadNonDirectory, ReadRaises, ReadStep
  <1>2. t \in Tasks /\ t.status # "none"
    BY DEF StartTask, Read, ReadOk, ReadItems, ReadFailsRetryably, ReadFailsHard,
           ReadNonDirectory, ReadRaises, ReadStep, TypeInv, TypeOK
  <1>3. l <= listing
    BY <1>2 DEF WalkInv, FreshTasks, NoTask, TypeInv, TypeOK, Listings
  <1>4. PICK r : /\ task' = [task EXCEPT ![l][d] = r]
                 /\ l = listing /\ TaskOK(d, t, hard_failure, misread)
                      => TaskOK(d, r, hard_failure', misread')
    <2>1. CASE StartTask(l, d)
      <3> DEFINE r == [t EXCEPT !.status = "running"]
      <3>1. task' = [task EXCEPT ![l][d] = r]
        BY <2>1 DEF StartTask, TypeInv, TypeOK
      <3>2. /\ r.status = "running" /\ r.reading = t.reading
            /\ r.unprobed = t.unprobed /\ r.entries = t.entries
        BY <1>2 DEF Tasks
      <3>3. TaskOK(d, t, hard_failure, misread) => TaskOK(d, r, hard_failure, misread)
        BY <2>1, <3>2 DEF TaskOK, StartTask
      <3>4. UNCHANGED <<hard_failure, misread>>
        BY <2>1 DEF StartTask
      <3> QED BY <3>1, <3>3, <3>4
    <2>2. CASE ReadOk(l, d)
      <3>1. PICK r \in Answered(d, t) : task' = [task EXCEPT ![l][d] = r]
        BY <2>2 DEF ReadOk, ReadStep
      <3>2. t.status = "running" /\ UNCHANGED <<hard_failure, misread>>
        BY <2>2 DEF ReadOk, ReadStep
      <3> QED BY <1>2, <3>1, <3>2, AnsweredOK
    <2>3. CASE ReadFailsRetryably(l, d)
      <3> DEFINE r == [t EXCEPT !.attempt = @ + 1]
      <3>1. task' = [task EXCEPT ![l][d] = r]
        BY <2>3 DEF ReadFailsRetryably, ReadStep
      <3>2. /\ r.status = t.status /\ r.reading = t.reading
            /\ r.unprobed = t.unprobed /\ r.entries = t.entries
        BY <1>2 DEF Tasks
      <3>3. UNCHANGED <<hard_failure, misread>>
        BY <2>3 DEF ReadFailsRetryably
      <3>4. TaskOK(d, t, hard_failure, misread) => TaskOK(d, r, hard_failure, misread)
        BY <3>2 DEF TaskOK
      <3> QED BY <3>1, <3>3, <3>4
    <2>4. CASE ReadFailsHard(l, d) \/ ReadNonDirectory(l, d)
      <3>1. PICK r \in Unanswered(d, t) : task' = [task EXCEPT ![l][d] = r]
        BY <2>4 DEF ReadFailsHard, ReadNonDirectory, ReadRaises, ReadStep
      <3>2. /\ t.status = "running"
            /\ l = listing => hard_failure' \/ (t.reading \in Dirs => t.reading \in misread')
        BY <2>4 DEF ReadFailsHard, ReadNonDirectory, ReadRaises, ReadStep
      <3>3. TaskOK(d, t, hard_failure, misread) => TaskOK(d, t, hard_failure', misread')
        BY <1>1, TaskStaysOK
      <3> QED BY <1>2, <3>1, <3>2, <3>3, UnansweredOK
    <2>5. CASE ReadRaises(l, d)
      <3> DEFINE r == [NoTask EXCEPT !.status = "raised"]
      <3>1. task' = [task EXCEPT ![l][d] = r]
        BY <2>5 DEF ReadRaises
      <3>2. TaskOK(d, r, hard_failure', misread')
        BY DEF TaskOK, NoTask, EntriesOK
      <3> QED BY <3>1, <3>2
    <2>6. CASE ReadItems(l, d)
      <3>1. PICK untold \in {{}, Untyped} :
              /\ ReadStep(l, d, Proceed(t, {}, Items(d, untold)))
              /\ l = listing => Children[d] \cap Dirs \cap untold \subseteq misread'
        BY <2>6 DEF ReadItems
      <3>2. t.status = "running" /\ t.reading = d /\ UNCHANGED hard_failure
        BY <2>6 DEF ReadItems, ReadStep
      <3>3. PICK r \in Proceed(t, {}, Items(d, untold)) : task' = [task EXCEPT ![l][d] = r]
        BY <3>1 DEF ReadStep
      <3>4. l = listing => TaskOK(d, r, hard_failure', misread')
        BY <1>2, <3>1, <3>2, <3>3, ItemsOK
      <3> QED BY <3>3, <3>4
    <2> QED BY <2>1, <2>2, <2>3, <2>4, <2>5, <2>6 DEF Read
  <1>5. \A k \in Listings, e \in Dirs :
          task'[k][e] = IF k = l /\ e = d THEN r ELSE task[k][e]
    BY <1>4 DEF TypeInv, TypeOK
  <1>6. FreshTasks'
    BY <1>1, <1>3, <1>5 DEF FreshTasks, WalkInv, TypeInv, TypeOK, Listings
  <1>7. TasksOK'
    <2> SUFFICES ASSUME listing > 0, NEW e \in Dirs
                 PROVE  TaskOK(e, task'[listing][e], hard_failure', misread')
      BY <1>1 DEF TasksOK
    <2>1. listing \in Listings
      BY DEF TypeInv, TypeOK, Listings
    <2>2. TaskOK(e, task[listing][e], hard_failure, misread)
      BY DEF WalkInv, TasksOK
    <2>3. TaskOK(e, task[listing][e], hard_failure', misread')
      BY <1>1, <2>2, TaskStaysOK
    <2> QED BY <1>4, <1>5, <2>1, <2>2, <2>3
  <1>8. CollectedOK'
    <2> SUFFICES ASSUME listing > 0, ~raised, NEW e \in Dirs \ Unresolvable, Listed(e)
                 PROVE  \/ e \in futures \/ hard_failure' \/ e \in misread'
                        \/ Closed(e, result, {}, misread')
      BY <1>1 DEF CollectedOK, Listed
    <2>1. \/ e \in futures \/ hard_failure \/ e \in misread
          \/ Closed(e, result, {}, misread)
      BY DEF WalkInv, CollectedOK
    <2> QED BY <1>1, <2>1 DEF Closed
  <1>9. MisfiledIsFlagged' /\ ReturnedOK'
    BY <1>1 DEF MisfiledIsFlagged, ReturnedOK, Returned, WalkInv
  <1> QED BY <1>6, <1>7, <1>8, <1>9 DEF WalkInv

(* The invariant holds throughout.                                          *)
THEOREM WalkInvariant == Spec => []WalkInv
  <1>1. Init => WalkInv
    BY DEF Init, WalkInv, FreshTasks, TasksOK, CollectedOK, MisfiledIsFlagged,
           ReturnedOK, Returned
  <1>2. TypeInv /\ WalkInv /\ [Next]_vars => WalkInv'
    <2> SUFFICES ASSUME TypeInv, WalkInv, [Next]_vars PROVE WalkInv'
      OBVIOUS
    <2>1. CASE BeginListing \/ DriveRootFails
      BY <2>1, BeginStep
    <2>2. CASE Collect
      BY <2>2, CollectStep
    <2>3. CASE Wait \/ Finish \/ LeavePool
      BY <2>3, WaitStep
    <2>4. CASE Worker
      BY <2>4, WorkerStep DEF Worker
    <2>5. CASE MeetException
      BY <2>5, ExceptionStep
    <2>6. CASE UNCHANGED vars
      BY <2>6 DEF vars, WalkInv, FreshTasks, TasksOK, CollectedOK, Listed,
                  MisfiledIsFlagged, ReturnedOK, Returned, TaskOK, EntriesOK, Closed
    <2> QED BY <2>1, <2>2, <2>3, <2>4, <2>5, <2>6 DEF Next, Caller
  <1> QED BY <1>1, <1>2, TypeInvariant, PTL DEF Spec

(* A complete listing lists every child of every directory it lists, so     *)
(* what it lacks is not on the drive, below directories that were read.     *)
THEOREM CompleteListingIsClosed == Spec => []CompleteIsClosed
  <1>1. TypeInv /\ WalkInv => CompleteIsClosed
    BY DEF TypeInv, WalkInv, CollectedOK, ReturnedOK, Returned, CompleteIsClosed, Closed
  <1> QED BY <1>1, TypeInvariant, WalkInvariant, PTL

(* A directory passes for a file only with a failure or a misreading.       *)
THEOREM MisfilingIsFlagged == Spec => []MisfiledIsFlagged
  <1>1. WalkInv => MisfiledIsFlagged
    BY DEF WalkInv
  <1> QED BY <1>1, WalkInvariant, PTL

---------------------------------------------------------------------------
(* The stall clock                                                          *)

(* While no counter has moved, the clock has counted quiet waits only.      *)
StallInv == ~advanced /\ stalled_for # NotStalled => quiet >= stalled_for + 1

(* The stall clock never runs ahead of the quiet waits.                     *)
LEMMA StallStep ==
  ASSUME TypeOK, StallInv, [Next]_vars
  PROVE  StallInv'
  <1>1. /\ stalled_for \in 0 .. StallWaits /\ quiet \in 0 .. StallWaits
        /\ StallWaits \in Nat \ {0}
    BY BoundAssumption DEF TypeOK
  <1>2. CASE UNCHANGED <<advanced, stalled_for, quiet>>
    BY <1>2 DEF StallInv, NotStalled
  <1>3. CASE advanced'
    BY <1>3 DEF StallInv
  <1>4. CASE stalled_for' = NotStalled
    BY <1>4 DEF StallInv, NotStalled
  <1>5. CASE WaitSeesNothing
    <2>1. ~advanced /\ (stalled_for # NotStalled => quiet >= stalled_for + 1)
      BY <1>5 DEF WaitSeesNothing, StallInv
    <2>2. quiet' >= stalled_for' + 1
      BY <1>1, <1>5, <2>1 DEF WaitSeesNothing, CountQuietWait, NotStalled
    <2> QED BY <2>2 DEF StallInv
  <1>6. CASE AbortStalled
    <2>1. ~advanced /\ (stalled_for # NotStalled => quiet >= stalled_for + 1)
      BY <1>6 DEF AbortStalled, StallInv
    <2>2. stalled_for' # NotStalled /\ quiet' >= stalled_for' + 1
      BY <1>1, <1>6, <2>1 DEF AbortStalled, CountQuietWait, NotStalled
    <2> QED BY <2>2 DEF StallInv
  <1>7. CASE Worker
    <2>1. UNCHANGED <<advanced, stalled_for, quiet>> \/ advanced'
      BY <1>7 DEF Worker, StartTask, Read, ReadOk, ReadItems, ReadFailsRetryably,
                  ReadFailsHard, ReadNonDirectory, ReadRaises, ReadStep
    <2> QED BY <1>2, <1>3, <2>1
  <1>8. CASE \/ BeginListing \/ DriveRootFails \/ Collect \/ WaitSeesProgress
            \/ Finish \/ MeetException \/ LeavePool
    <2>1. \/ UNCHANGED <<advanced, stalled_for, quiet>>
          \/ advanced'
          \/ stalled_for' = NotStalled
      BY <1>8 DEF BeginListing, DriveRootFails, Collect, WaitSeesProgress,
                  Finish, MeetException, LeavePool
    <2> QED BY <1>2, <1>3, <1>4, <2>1
  <1> QED BY <1>2, <1>5, <1>6, <1>7, <1>8 DEF Next, Caller, Wait, vars

(* A listing gives up only after a full threshold of quiet waits.           *)
THEOREM StallsAreReal == Spec => NoFalseStall
  <1>1. Init => StallInv
    BY DEF Init, StallInv
  <1>2. TypeInv /\ StallInv /\ [Next]_vars => StallInv'
    BY StallStep DEF TypeInv
  <1>3. TypeInv /\ StallInv /\ [Next]_vars =>
          [walking /\ ~walking' /\ futures # {} => quiet >= StallWaits]_vars
    <2> SUFFICES ASSUME TypeInv, StallInv, Next, walking, ~walking', futures # {}
                 PROVE  quiet >= StallWaits
      BY DEF vars
    <2>1. AbortStalled
      BY DEF Next, BeginListing, DriveRootFails, Caller, Collect, Wait,
             WaitSeesProgress, WaitSeesNothing, Finish, MeetException, LeavePool,
             TypeInv, Worker, StartTask, Read,
             ReadOk, ReadItems, ReadFailsRetryably, ReadFailsHard, ReadNonDirectory, ReadRaises, ReadStep
    <2>2. ~advanced /\ stalled_for # NotStalled /\ quiet >= stalled_for + 1
      BY <2>1 DEF AbortStalled, StallInv
    <2>3. stalled_for + 1 >= StallWaits
      BY <2>1 DEF AbortStalled
    <2>4. stalled_for \in Nat /\ quiet \in Nat /\ StallWaits \in Nat
      BY BoundAssumption DEF TypeInv, TypeOK
    <2> QED BY <2>2, <2>3, <2>4
  <1> QED BY <1>1, <1>2, <1>3, TypeInvariant, PTL DEF Spec, NoFalseStall
=============================================================================
