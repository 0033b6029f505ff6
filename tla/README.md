# A TLA+ model of PyiCloDoc Drive

PyiCloDoc Drive is a container that copies an iCloud drive to a local directory,
once or on a schedule, and is controlled by messages to a Telegram bot. This
directory holds a TLA+ model of the program in `app/`, the TLC configurations
that check it on small instances, and proofs of its main safety properties for
every instance.

- [The system](#the-system): its parts, their state, how they interact, what is hard
- [The modules](#the-modules): what each models and how it corresponds to the code
- [The runs](#the-runs): what TLC checks, with which bounds
- [Fairness](#fairness)
- [The proofs](#the-proofs)
- [Findings](#findings): where a document and the code disagree, with a counterexample
- [Observations](#observations): what else a reader of the code should know
- [What is not modelled](#what-is-not-modelled)
- [Plan](#plan)

`PROJECT.json` lists the components, the runs, for every property a mutation of
the model that violates it (the definitions whose comment begins with "Fault"),
the source lines of every definition, the findings, the hazards of the code with
the properties that guard against them, and the theorems.

## The system

| Part | Source | State | Operations |
|---|---|---|---|
| Worker runtime | `main.py`, `worker_runtime.py` | authentication record and flag, polling cursor, requested backup, next due time | start, one-shot run, scheduled loop, exit codes 0 to 5 |
| Authentication | `auth_runtime.py` | the record in `auth_state.json` | attempt with or without a code, reminders as the record ages |
| Telegram | `telegram_bot.py`, `command_runtime.py` | update offset | startup cut-over, poll, handle `backup`, `auth`, `reauth` |
| Safety net | `main.py`, `syncer.py` | two marker files | ownership scan before the first backup |
| Traversal | `icloud_client.py`, `syncer.py` | a pool of readers or one thread, telemetry shared by all listings | list the drive, retry, give up on a stall |
| Downloads | `icloud_client.py`, `syncer.py` | local files and partial files | download a file, walk a package, retry |
| Sync | `syncer.py`, `backup_runtime.py` | local tree, manifest | plan, transfer, prune, save the manifest |
| State files | `state.py` | JSON files | atomic write, read with quarantine |
| Heartbeat | `main.py`, `healthcheck.sh` | telemetry of a thread, a file's time | touch, two liveness checks |
| Scheduler | `scheduler.py`, `time_utils.py` | none | next run in five modes |
| Configuration | `config.py`, `config_validation.py` | none | parse, validate |
| Logging | `logger.py` | log file, rotated files, archives | write, rotate, compress, prune |
| Credentials, messages | `credential_store.py`, `telegram_messages.py` | keyring | store, format |

**How they interact.** One main thread runs the worker. It calls the others in
turn and keeps what they return: authentication gives a record and a flag, the
poll a batch of commands and a cursor, the safety net a verdict, the backup a
summary. A backup calls the traversal and gets a list of entries; how complete
it is, the sync reads separately from the client's telemetry. Concurrency is
inside a backup (readers of directories, then a pool of downloads), in the
heartbeat thread, and in the log, which all threads write. What survives a
process is on disk: the authentication record, the two markers, the manifest,
the local tree with its partial files, the heartbeat file and the logs; and at
Telegram, which forgets an update once a poll with a larger offset was made.

**What is hard.**

- The process may die between any two steps, and each of the files above is
  written at a different moment than the others.
- Every remote call may fail before or after it had its effect: a poll whose
  answer is lost has confirmed updates; a failed probe makes a folder look like
  a file; a read that was given up goes on and counts into the next listing.
- An empty or partial listing and an empty drive look alike, and what the
  listing lacks may be deleted.
- The manifest says what was transferred, not what is there now.
- The drive changes between the listing and the download of an entry, and
  between two attempts of the download.
- Commands arrive at any moment, also while a backup runs for hours, and so do
  due times.
- Wall-clock times repeat and are skipped; ages are truncated to seconds and
  compared with limits as small as the interval they measure.

**What makes each part correct.** The worker: a backup runs only behind all its
gates, no older record is revived by a restart, no command is lost or handled
twice, a due backup is eventually run. The traversal: a listing that says it is
complete holds all that it should, nothing is misfiled without a trace, giving
up is justified, and every listing returns. A transfer: nobody sees half a file,
no file goes back, and a success is complete. The sync: what the next run would
skip is really there, a run without errors leaves a mirror, an incomplete
listing deletes nothing but what an entry of the other kind stands in for. The
schedule: no slot is passed over, and outside the repeated hour none is served
twice. The heartbeat: the worker never reports a punctual thread, nor does the
container if its limit exceeds the interval; a failing one ends the process. The
log: lines stay as long as they should, and the file exceeds its limit by less
than one record.

## The modules

| Module | Models |
|---|---|
| `AuthRuntime` | the authentication record, an attempt's target, the reminder stages |
| `CommandPolling` | Telegram's queue, the cursor, the batch |
| `SafetyNet` | the two markers |
| `Worker` | the process that composes these three, with crashes and restarts |
| `Traversal` | the parallel listing |
| `SerialListing` | the listing by one thread, and the wait for it |
| `SmallDrive` | the drive both of them are checked on |
| `Transfer` | the download of one entry, step by step |
| `DriveSync` | the backup: local tree, manifest, transfers, pruning, crashes |
| `DurableCell` | what a state file promises: a cell written atomically |
| `StateStore` | the steps of a save, a load and the quarantine, with crashes and loss of power |
| `Scheduler` | the next run of every mode, on local times |
| `ScheduledLoop` | the loop that computes these times and waits for them |
| `Heartbeat` | the heartbeat thread, the worker's check, the container's check |
| `LogRotation` | the log file, its rotation and its archives |
| `WorkerProofs`, `TraversalProofs`, `TransferProofs`, `DriveSyncProofs`, `SerialListingProofs`, `StateStoreProofs`, `ScheduledLoopProofs` | theorems about these |
| `HousekeepingProofs` | theorems about `Heartbeat` and `LogRotation`, whose names begin with `Log` where they would meet |
| `MCWorker`, `MCTraversal`, `MCSerialListing`, `MCTransfer`, `MCDriveSync`, `MCStateStore`, `MCScheduledLoop` | the instances TLC checks |

How they fit together: `Worker` extends the three modules of its parts.
`ScheduledLoop` extends `Scheduler` and is the same loop again, seen for its due
times, which `Worker` lets come at any moment. The backup is one state of
`Worker`; `DriveSync` is what happens in it. The listing is one step of
`DriveSync`; what that step may give is `ListingContract`, an invariant of
`SerialListing`. A transfer is one step of `DriveSync` that may leave what a
sequence of `Transfer`'s steps leaves. `StateStore` implements `DurableCell`.

### AuthRuntime, CommandPolling, SafetyNet and Worker

`AuthRuntime` is pure: it says what an attempt writes (`AttemptTarget`) and to
what record the reminders move (`ReminderTarget`). All the code derives from the
record's timestamp is the number of whole days left, so that number is kept in
its place; a day's passing (`Older`) decreases it, never below zero, as
`reauth_days_left` does.

`CommandPolling` numbers the updates ever sent. `forgotten` is how far Telegram
has dropped them, which a poll causes by its offset whether or not its answer
arrives. `cursor` is the worker's next offset; the startup capture asks with
offset -1, which makes Telegram forget all but the last update.

`Worker` has a program counter (`pc`) with one value per place of
`worker_runtime.py` where something else may happen in between: the startup
capture, the startup attempt, the loop's reminders, poll, command handlers,
decision, safety net, and the backup. An attempt takes two steps, because the
record is saved (`AttemptAuth`) before the caller has the result
(`ConcludeAttempt`), with the notification in between. A save that is reported
as failed keeps the record passed in and withdraws the authentication; it may
have taken effect all the same (`SaveAuthState`), so that the file is ahead of
the process. `Boot` may find the file unreadable. `Crash` is possible
everywhere: it stands for signals and for the exceptions nothing catches, such
as those of pyicloud's constructor.

Due times and the one-shot deadline are an `alarm` that rings at any moment, so
the model covers every schedule; the liveness check may fail whenever it is made.

### Traversal and SerialListing

In `Traversal` the caller's thread and the workers are separate actions. A task
reads its directory. The answer is a list of names, whose kinds must then be
found, by attributes or by one more read each, or a list of items that give
them (`ReadItems`), in which a directory whose kind is not told passes for a
file. Each read is one step that succeeds, fails retryably, fails for good, or
answers like something that is no directory; an answer of unknown form counts as
that of an empty directory. A lookup may also raise something nobody handles
(`ReadRaises`): the exception stays in the task until the caller asks for its
result, leaves the loop (`MeetException`), waits for every read that still runs,
now without the stall clock (`LeavePool`), and loses the listing (`raised`).

The progress counters are one flag, `advanced`: whether they moved since the
last snapshot. The caller's `wait` with a timeout is an action that may be taken
whenever nothing is finished; `StallWaits` of them without progress are the
abort threshold. `task[l]` keeps the reads of listing `l` after it was given up,
and their steps move the counters of listing `l + 1` as they do in the code.
`quiet` and `misread` are history variables; no action reads them.

`SerialListing` is the default, `SYNC_TRAVERSAL_WORKERS=1`: `list_entries` walks
depth first in a thread of its own. `stack` holds the recursion, a frame per
directory, with the children left to visit and whether the answer was of items;
`reading` is the one read under way. The caller waits for the future in a loop
that takes a `TimeoutError` for "not yet", also one that the walk has raised
(`future = "timeout"`): then it waits for ever, which `CallerEnds` exempts.

### Transfer

One entry: a file, a folder taken for one, or a package, whose parent's metadata
may list its members (`payload`). `plan` is the order in which the code tries
the download as a file and as a tree, `doing` and `todo` where it is. What is in
the way is cleared first, perhaps half of it; a file is written under its
partial name and replaced into place; a tree is walked and its directories made
one by one; a member that is missing or fails fails the attempt; an attempt that
fails is repeated. The drive changes at any moment, also the kind of things.
Files are missing, torn or whole in one version.

`steady` and `hollow` are history variables that say when a success must be
complete: `steady` that the drive stood still during the attempt, `hollow` that
a folder of a package gave no answer, which the code takes for an empty one.

### DriveSync

The drive is a map from paths to nodes that changes at any moment. A run goes
through the phases of `perform_incremental_sync`; in the phase `transfers` the
workers' steps and the coordinator's are interleaved over all entries, and
`work[p]` is how far entry `p` has come. A file has a version, which is also its
modification time and, in the manifest, its signature; a local file has the
version of its content and the time it was stamped with, which may have failed.

What the listing may be is what `SerialListing` shows it to be: any set of
folders may be unread, those whose kind is probed may be taken for files, names
may not be found, and a listing may be called complete although the reads that
answered like a file's made it lack something. Downloads take the version the
drive has now, the manifest records the one that was listed. A removal of a
directory may fail half way.

`lost` and `unsaved_loss` are history variables: the files this run, or earlier
runs that did not save their manifest, removed and did not replace.

Abstractions: all versions of a file have the same size, so the time alone
decides whether a local file is aligned; the number of transfer workers and of
retries is left open (any interleaving, any number of retries), which allows
more than the code does; partial files are left to `Transfer`.

### DurableCell and StateStore

`StateStore` is `write_json`, `read_json`, `quarantine_corrupt_json` and
`cleanup_temporary_state_file`, one action per operation on the file system;
`pc` is the place in these functions. A file is missing, torn, or holds a record
(what a record says is of no concern here: the same code keeps the
authentication record and the manifest). Every action that the file system may
refuse has a second disjunct for it. `Crash` is the end of the process between
any two operations, by a signal or by an exception no handler of `state.py`
catches: of a log file that cannot be written in a handler, or of a state file
that is not UTF-8. Since nothing is flushed to the disk, a power loss may leave
the old content, the new one or a torn file; `survivors` holds what is possible,
until the operating system has written the file (`ReachDisk`).

`DurableCell` says what callers may rely on: a save takes effect at once or not
at all, success is reported only of a save that took effect, a load gives what
is stored or nothing, a crash changes nothing, and a power loss takes only what
had not reached the disk. `Implements` states that `StateStore` implements it,
where the cell's content is the state file if it parses and nothing otherwise.
Two things the cell does not promise, because the code does not: that a save
reported as failed had no effect (the log line after the replacement is written
inside the `try`), and that a save reported as made outlives a power loss.
`Worker` and `DriveSync` take their saves as such a cell: `SaveAuthState` may
take effect and report failure, after which the process goes on with the older
record, and `SaveManifest` stands for a save whatever it reports, as a run only
logs that. Their files do not go back by a loss of power.

### Scheduler and ScheduledLoop

`Scheduler` is pure. An aware datetime is its wall-clock time and its `fold`,
and the operators do to these what Python's do: `replace` keeps the fold, adding
a timedelta forgets it, `timestamp` reads a skipped time with the offset before
the change. A zone changes its offset once, either way. `CalendarNextRun` has
the four calendar modes, `Validated` what `config_validation.py` lets through.
What a schedule means is said a second time, without the computation: a
scheduled day of a monthly schedule is one of its weekday in the n-th seven days
of its month, or in the last seven (`InWeek`), and a slot (`SlotsOf`) is the
scheduled time of such a day, in its first pass if the hour is repeated.

`ScheduledLoop` is the loop of `worker_runtime.py` over these times. The clock
moves on between any two steps, also between the decision's reading of it and
the scheduler's own, and during a backup, which may outlast several slots. The
next run is computed before the gates are looked at. `settled` is a history
variable: the instant up to which slots have been dealt with. The definitions
are tabulated by setting, zone and instant (`NextRun`, `SlotTimes`), as TLC
would evaluate them again in each state; the slots are those of the `Days` that
a local clock may show at an instant, one more on either side. A zone that
repeats or skips an hour does so within one day (`ChangeAssumption`).

### Heartbeat

Three parties: the writer thread, which touches a file and leaves what it did in
fields, one per action and without a lock; the worker, which reads
the clock and then the fields, one per action; and the container, which compares
two truncated epochs. A touch may succeed, fail or hang; the logging of a
failure, in the directory that has just refused the touch, may end the thread.
`main`'s `finally` stops the writer and joins it. Epochs are kept as ages, so
the model is finite: an age beyond every limit stays at `Oldest`. `InTime` says
how late threads that do not hang may be: `Delay` ticks, less than half a second.

### LogRotation

A line is stamped by the thread that logs it and then waits for the lock; the
thread that holds the lock looks at the file, renames it if it must make way,
compresses it, removes the rotated file, prunes old archives and appends, each
an action that may fail in the way its handler expects, with a crash in between.
A line is one record, of one or several lines of text and any length up to
`MaxRecord` bytes (a bound of the model: the code has none), appended as a whole
after the file alone was measured; a failed append may leave part of it.
A rotated file and its archive are named by the second, so a rotation in the
same second overwrites.

## The runs

| Run | Instance | States | Shows |
|---|---|---|---|
| `worker_scheduled` | 2 updates of 3 commands, interval of 7 days in steps of 3 | 4,461,918 | every safety property of the worker |
| `worker_one_shot` | 2 updates of 4 commands, interval of 1 day | 417,024 | the one-shot wait ends; an authenticated process is ready |
| `traversal` | the small drive, 2 workers, 2 attempts, 2 waits to a stall, 2 listings | 415,246 | completeness, misfiling, stalls, termination |
| `serial_listing` | the small drive, 2 attempts, 2 listings | 3,439 | what the sync may expect of a listing; the caller's wait ends |
| `transfer` | one entry of any kind with a folder and two members, 2 attempts, 2 versions, 1 change, 2 transfers | 240,596 | whole files, complete successes, no going back |
| `sync` | 3 paths in 2 levels, 2 versions, 2 changes of the drive, 2 runs | 1,596,453 | what is skipped, mirrored, kept |
| `schedule` | 12 settings in 9 scenes, 13 instants around a change of the clock at the end of a month | 186,045 | no slot missed; none served twice but in the repeated hour; a due run is taken |
| `heartbeat` | 3 ticks a second, interval of 2 seconds, limits of 1 to 3 | 142,704 | both checks at the smallest limits; a failing writer is noticed |
| `log_rotation` | 3 records of 1 or 2 bytes, a limit of 2 bytes, days of 2 seconds, 1 day kept, 5 seconds | 6,177,574 | lines are kept; the file exceeds its limit by less than a record |
| `state_store` | 2 records, every initial content of the three files | 1,032 | a state file behaves like an atomic cell |
| `traversal_empty_root`, `sync_default_delete` | as `traversal`, `sync` | | the findings below |

Why the bounds suffice. *Worker*: two updates are what it takes for one to be
confirmed by the poll that fetches the other, and for a batch to be cut short
between its commands; an interval of 7 days in steps of 3 passes through
"outside the window", "five days" and "two days". The one-shot instance uses an
interval of one day, where the two-day prompt is due from the beginning.
*Traversal* and *SerialListing*: the root holds a directory of known kind
(`docs`), one that must be probed (`library`) and one that its parent does not
find by the name it lists (`padded`), and one of their files must be probed too;
two listings are what it takes for reads of one to disturb the next; with two
workers and three directories reads queue up and are cancelled. *Transfer*: two
attempts are what it takes for one to find what the other left, two transfers
for one to find what a crash left, two versions for a file to go back, and one
change for the kind to differ between two reads. *Sync*: a folder with a file in
it whose kind must be probed and whose name may not be found, and a document
with a package suffix; two runs are what it takes for the second to be misled by
what the first left behind, and two changes let a path disappear and return, or
change its kind and change it back. *Schedule*: a day has four ticks and the
clock changes by two, forward or back, so that a backup time can be in the hour
that is skipped, in the one that is repeated, next to either or away from both;
the days are the last and the first of two months, with the last Monday and the
first Tuesday among them, for the monthly mode. *Heartbeat*: a limit below the
interval is refused, one equal to it and one above it are the two cases of the
properties. *Log*: with one or two records to a file and two seconds to a day, a
rotation may be due by size, by date or by both, and a second rotation may come
in the same second; a file one byte below its limit that gets a record of two is
the case in which the limit is exceeded. *State store*: the model is finite once
the records are, and two are what it takes to tell the old from the new.

The runs of `Traversal`, `SerialListing`, `Transfer`, `DriveSync` and
`LogRotation` do not check for deadlock, since these models stop when the bounds
on listings, transfers, runs and lines are reached. The others do.

## Fairness

`Worker!FairSpec` assumes weak fairness of the process as a whole and of the
alarm. The process never waits without a bound: each request has a timeout, the
sleeps are finite, and a backup ends (its listing by `ListingReturns`, its
transfers by `TransferEnds`); the clock reaches every epoch. Nothing is assumed
of the user, of Apple's or Telegram's answers, or of saves. A crash is always
possible, so `WaitEnds` promises something only while the process stays waiting.

`Traversal!FairSpec` assumes weak fairness of the caller's thread only, whose
waits have a timeout. No worker need ever make a step: a hung read is a possible
behaviour, and `ListingReturns` holds all the same, because the stall clock runs.
After an exception the caller waits for the reads without that clock, and the
property promises nothing (`raised`).

`SerialListing!FairSpec` assumes weak fairness of the walk, each of whose reads
has a timeout of its own, and of the caller. `Transfer!FairSpec` assumes it of
the steps of an attempt, which are requests with timeouts and file operations.
`ScheduledLoop!FairSpec` assumes it of the process and of the clock;
`Heartbeat!FairSpec` of the writer, of the main thread and of the clock. There a
touch that hangs is an action that leads to a state without a next step of the
writer, so fairness does not exclude it.

## The proofs

The theorems are in eight modules. They hold for every value of the constants
that satisfies the modules' assumptions, and in particular without the bounds of
the runs: any interval of at least one day, any number of updates; any drive in
which each node has one parent, any number of workers, attempts, waits and
listings; any finite entry to transfer, however deep; any tree of paths, any
number of versions, changes, runs and attempts; any limit of the heartbeat and
of the log; any set of records; any settings that validation lets through, any
offset of a zone and any change of it within a day, any length of a day, and any
calendar with months of 28 to 31 days.

**Worker.** Three invariants build on each other.

- `TypeInv` is the type invariant with two facts: the cursor's relation to the
  updates (`CursorOK`), and what holds at which place of the program
  (`PhaseOK`), such as that a process that is capturing has no cursor.
- `AuthInv` relates the record, the gates and the markers. `BackupGated` is not
  inductive, as the gates are passed several steps before the backup begins:
  `GateInv` says what is already known at each step between. The durability of
  the record (`RecordInv`) speaks also of the attempt that has not returned:
  there memory and disk differ by the attempt, and elsewhere at most by one
  reminder whose save was reported as failed (`AheadByReminder`). That relation
  outlives the days that pass (`AgeKeepsAhead`) and further reminders
  (`ReminderKeepsAhead`), and the next attempt ends it. `MarkerInv` knows that
  the blocked flag is gone while the done flag is about to be written.
- `UpdateInv` bounds `forgotten`, `settled`, the cursor and the batch against
  each other; `NoCommandLost` and `FreshCommandsOnly` follow.

`ReauthPendingSticky` is an action property and is proved from `StickyInv`: that
an attempt not yet concluded still carries the pending flag unless it succeeded.

**Traversal.** `TypeInv` adds that a listing is being walked only once one was
begun, and that one that met an exception awaits nothing. `WalkInv` is the
argument of the pool: unfinished tasks are fresh (`FreshTasks`); a task's entries
together with the children it has yet to probe are all that resolve, unless a
failure was flagged or the directory was misread (`TasksOK`); what was collected
is closed but for the directories still awaited (`CollectedOK`); and what a
returned listing keeps (`ReturnedOK`). The lemma `ItemsOK` says of an answer of
items what the probes establish for one of names. `CompleteIsClosed` and
`MisfiledIsFlagged` are consequences. `StallInv` ties the stall clock to the
waits since anything happened, for `NoFalseStall`.

**Transfer.** `FilesInv` types the drive, the local and the partial files
(`FileTypes`), and knows that an attempt has a plan (`PlanOK`), that local files
are whole, in a version the drive has reached (`FilesOK`), and that what is
being written is a version the drive has had since the file in its place was
written, whole when it takes that place (`WritingOK`). `FilesAreWhole` and
`FilesAdvance` follow, the second as an action property. `PhaseOK` and
`CallTypes` say what is known at each place of an attempt, which with `FilesInv`
gives `TypeCorrect`.

`SuccessComplete` needs what holds in the middle of a walk (`CompleteInv`): as
long as the drive stands still and every folder answers, whatever exists in the
entry is in place, or is in or below something yet to visit (`ProgressOK`); the
copy under way is of the drive's version (`CopyOK`), and what the parent's
metadata said is still so (`TreeOK`). The step to a folder puts its children in
its place; the lemmas on `Under` say that nothing of it is lost by that. In
which order the children come does not matter to the proof (`SetToSeq` is some
order, of which nothing more is known). That only the entry itself is called a
package (`KindsOK`) is an assumption about `FirstDrives`: to the code, a package
in an entry is a file like any other.

**SerialListing.** The walk is a stack of frames, and the listing the union of
what it has found and what it will find. `ListingInv` says so: the result is the
part of the drive that is neither in nor below anything yet to visit (`Todo`:
the children left in the frames, and what is in the directory being read), nor
below a failure (`PartOf`); nothing that waits is a failure or below one, and the
failures were flagged unless the directory answered like a file. `PlaceOK` knows that
what is yet to visit does not overlap, so that nothing is found twice, and that
no directory is walked inside itself. At the end nothing is left to visit, and
`PartOf` is `ListingContract`. The types and the invariant need each other
(`TypesAndListing`).

What is below a node, in this module and in `Transfer`, is the least set that
holds its children and, with a directory, that directory's children (`Under`). With it,
induction over the depth of a tree is the choice of such a set, which the
provers can follow; no theorem of the library is needed for it. The assumption
`Under[Root] = Nodes \ {Root}` says that the drive hangs together.

**DriveSync.** `SkipIsSafe` speaks of one manifest and one file; what makes it
hold is an order of versions that many steps keep together (`SyncInv`). No
version anywhere is ahead of the drive's (`VersionsOK`). A record of a file that
was not lost is no newer than the local file, or it is *overtaken*: older than
what the drive has, so that no run will skip by it (`RecordsOK`, of the manifest
and of the one being built; `LossRecordsOK` for what this run has removed). The
records come from the listing, so its versions must be no older than the
manifest's (`ListedVersionOK`). The rest says what a run may have removed so
far: only what is gone (`LossOK`), nothing that is listed but packages under way
(`ListedLossOK`), in a tree whose files are in directories (`TreeOK`,
`ListingOK`), in the phases where it may (`RunOK`, `PruneOK`).
`SkippingIsSafe` and `IncompleteKeeps` follow. The first excepts what the code
does skip though it is not there: files removed by runs that ended without
saving their manifest (`unsaved_loss`), and paths that may be packages and whose
kind must be probed.

`CleanRunsMirror` follows each entry through a run that is clean so far
(`MirrorInv`). A listed directory is made, with those above it, from the first
phase on (`MadeOK`). A listed file is on its way with nothing of the other kind
in its place, or it is good: the drive's version, or a package's folder; what is
skipped is good by `SyncInv`, or taken on trust (`DoneOK`). What is not listed
is in the set that the delete phase has yet to go through, files before
directories, and gone after it (`StrayOK`); a directory is removed only when
nothing is below it, and as the strays below it went before, what is left there
is no stray. A step that fails, a change of the drive or an edit ends the
cleanness (`CleanBefore` shows that it never begins again within a run).
TLC checked `ListingInv` and `MirrorInv` before they were proved, the second also
with a nested tree and with three runs.

The property excepts what is `TakenOnTrust`: an entry skipped by its record
alone, which was recorded as a package, was lost by a run that did not save its
manifest, or may be a package of a kind that must be probed. The last is needed
by a history that the attempt to prove the property without it brought to light,
and that takes three runs, one more than `sync` has. A document with a package
suffix that becomes a folder is listed as a file when its kind cannot be probed;
its former file is removed, its record kept, and when it comes back as the file
it was, it is skipped.

**State store.** `TypeOK` knows what the code takes for granted at each place:
that the temporary file holds the whole record when it replaces the state file,
and that what is set aside is torn. `ImplementsCell` maps every step to one of
the cell or to none: opening and filling the temporary file and finding the
state file torn are none, the replacement is the commit.

**ScheduledLoop.** Most of the argument is about the modes. A mode's result is
the next run if it is a scheduled local time ahead of the clock (`IsNextRun`)
and no slot that is ahead comes before it (`ReachedFirst`): `DailyRun`,
`WeeklyRun`, `TwiceWeeklyRun` and `MonthlyRun` show both, and
`NextRunIsFirstSlot` collects them. `MonthlyDayIsNth` is what the arithmetic of
the monthly mode computes. Two lemmas carry these over to instants: a target on
an earlier day, or the same, is no later (`TargetNotLate`), and a target ahead
of the local clock is ahead of the instant and is the instant of its slot
(`TargetIsAhead`). The second fails in the repeated hour for a time of that hour:
the weekly modes give such a target the fold 0 and thus put it in the past, the
daily and monthly modes the fold 1, where its slot has been served already;
hence the exception in `StaysPinnedOutsideRepeat` (`ForRepeatedHour`). The first
needs `ChangeAssumption`, and the monthly mode a calendar that goes on for two
months after each day (`CalendarAssumption`), since it looks that far ahead.

The loop then needs little: while it runs, its next run is the one computed from
`settled`, every instant since then has been observed (`NextRunInv`), and a turn
that goes on has found a due run or a request (`DecisionInv`). `NoSlotMissed`
follows from what the next run is; `StaysPinned` from that and from
`NextRunJustified`: a next run that has come is a slot after `settled`.
TLC checked `LoopInv` first. That a step is taken at each instant is in the
model's `Tick`; the code may sleep over several, which changes nothing of what
it computes, since it reads the clock at each turn.

**Heartbeat.** `TypeInv` bounds the age of the last attempt at each place of the
writer by what `InTime` lets pass there. `SuccessInv` says that the file is no
older than the last success, and that unless touches fail the success is the
last attempt's, or the one's before while a touch is under way. So a success is
never older than an interval and two delays (`SuccessIsRecent`), less than a
second more than the interval, and the two ways of truncating to seconds
(`WholeSecondsBound`) stay within the limit: at the limit for the worker, one
below it for the container, hence the stronger premise of the second.

**LogRotation.** `SizeInv`: whoever appends found the file below its limit and
has held the lock since, or has just seen it renamed; so the one record that is
appended then is all that can be too much. `AgeInv`: no line is
younger than what holds it, so an archive that is too old holds only lines that
are. `ArchivedInv`: an archive is empty until it is written, and the rotated
file that is removed is in it.

**Only model-checked.** The liveness properties (`WaitEnds`, `ListingReturns`,
`CallerEnds`, `TransferEnds`, `DueRunTaken`, `FailingEnds`), which are out of
the prover's reach. Every other property of a passing run is a theorem.

## Findings

Two runs end in a counterexample to what a document or a comment says.

- `traversal_empty_root`: some failures to read the root give a complete and
  empty listing.
- `sync_default_delete`: with mirror delete off, a folder taken for a file costs
  the local copies of the files in it, and as the manifest of that run is not
  saved, the next runs skip them as unchanged.

## Observations

What the models were built around, without a run of its own. Where a property
has to exempt it, the property is named.

*Commands and authentication*

- After a failed startup poll (`command_runtime.py:153`) commands sent before
  the start are executed; `OPERATIONS.md:298-299` says they are not.
  `FreshCommandsOnly` exempts it by `cutover_missed`.
- A `backup` command sent while a backup runs is read afterwards and starts
  another (`worker_runtime.py:667`); see `TELEGRAM.md:75-76`.
- A session that asks for two-step authentication counts as authenticated after
  any code (`icloud_client.py:718`, `:729`); see `OPERATIONS.md:311`.

*Listing*

- An exception in a parallel walk makes its caller wait for all reads under way
  without the stall clock (`icloud_client.py:938-939`). `ListingReturns`.
- A `TimeoutError` raised by `list_entries` is taken for "not yet", for ever
  (`syncer.py:863`; the comment at `:835-837` has the wait's own timeout in
  mind). `CallerEnds`.
- An answer of unknown form counts as an empty directory that was read
  (`icloud_client.py:1209`). `CompleteIsClosed`, `ListingContract`.
- A directory listed by its item but not found by its name is listed, not
  walked, and no failure is counted. An item whose kind is not told passes for
  a file.

*Transfers and the sync*

- A path that changed its kind twice, around a run without a saved manifest, is
  skipped though what it was has been removed (`syncer.py:314`;
  `OPERATIONS.md:306-307`). `SkipIsSafe` exempts what was lost unsaved.
- A path with a package suffix, a folder by now and misfiled, loses its former
  file and keeps its record; when it comes back as that file, it is skipped.
  `SkipIsSafe` exempts such paths, and `CleanRunMirrors` those it skips.
- A member of a package that changed its kind is never replaced, so the package
  never succeeds (`OPERATIONS.md:306-307`).
- A failed attempt that made the package's directory lets the next one pass as
  "package_reconciled" without its files (`syncer.py:1399`).
- A folder of a package that cannot be read is taken for empty
  (`icloud_client.py:1803`). `SuccessIsComplete` exempts it by `hollow`.
- The size of a download is not compared with what was listed; two names that
  trim to the same one share a partial file.

*Time*

- A next run that is computed in the second pass through the repeated hour, by a
  manual run or a restart, for a time of that hour: the weekly modes put it in
  the past, so a backup starts at once (`scheduler.py:141-152`); the daily and
  monthly modes keep the fold (`scheduler.py:116`, `:269`) and serve the slot of
  the first pass once more. `SCHEDULING.md:105-106` has every mode pinned to the
  next slot. `StaysPinnedOutsideRepeat` exempts both by `ForRepeatedHour`.
- `SCHEDULE_BACKUP_TIME` is not validated in the weekly modes
  (`config_validation.py:33-60`; `SCHEDULING.md:114`): if it does not parse, a
  run is due at once, every time. `StaysPinnedOutsideRepeat` exempts it.
- `HEALTHCHECK_MAX_AGE_SECONDS` may equal the interval of the heartbeat
  (`config_validation.py:80`); the container's check, which subtracts two
  truncated epochs (`healthcheck.sh:15`), may then report a worker that is on
  time. `HealthyLooksHealthy` requires a greater limit.
- A heartbeat writer that hangs keeps the ending process from ending
  (`main.py:83`; `worker_runtime.py:156-157`). `FailingEnds`.
- A log written across midnight, between the check and the append, is rotated a
  day late (`logger.py:288`; `OPERATIONS.md:79`).
- The log's size is compared before a record is written, of whatever length
  (`logger.py:328`, `:187-189`): it may exceed its limit by almost that record.

## What is not modelled

- The session directory's links, the keyring, the container's scripts: thin
  wrappers without state of their own. pyicloud itself is modelled by how
  `icloud_client.py` uses it.
- The content of messages, logs and summaries, and whether they are sent; log
  levels and the console.
- Parsing of the configuration, and all settings but those that the models take
  as constants.
- A system clock that is set back, and a zone whose offset changes twice.
- Pages of Telegram's answers: 100 updates at once are more than the models send.
- The trimming of names, but for its consequence that a parent may not find a
  child by the name it lists.
- In `Worker` and `DriveSync`, a loss of power: only `StateStore` has it.

## Plan

1. Done: the modules above, their runs, and theorems that state every safety
   and action property of the passing runs.
2. `Worker` and `DriveSync` with a loss of power, which may take back a record
   the process had saved.
3. `DriveSync` as an implementation of an abstract backup, in which files of the
   local tree only become what the drive has held; the composition of `Worker`
   with `DriveSync`.
