----------------------------- MODULE DriveSync -----------------------------
(***************************************************************************)
(* The incremental backup of a drive to a local tree                       *)
(* (syncer.perform_incremental_sync and backup_runtime.run_backup): list,  *)
(* make directories, transfer what the manifest does not know, prune what  *)
(* the listing lacks, save the manifest.  The drive changes meanwhile, the *)
(* process may crash between any two steps, and each step may fail.        *)
(*                                                                         *)
(* The listing is what the walks of the drive may give (ListingContract    *)
(* of module SerialListing, and Traversal's properties).  A directory's    *)
(* answer is a list of names, as there, so a package cannot be read from   *)
(* its parent's metadata and is downloaded like a file.                    *)
(***************************************************************************)
EXTENDS Naturals, FiniteSets

CONSTANTS
  Paths,          \* the paths that ever occur, in the drive or below /output
  Under,          \* Under[p]: the paths strictly below p
  Untyped,        \* paths of folders whose kind the traversal must probe
  Unresolvable,   \* paths whose parent may not find them by the name it lists
  Known,          \* paths with a suffix of KNOWN_PACKAGE_SUFFIXES
  DeleteRemoved,  \* BACKUP_DELETE_REMOVED
  FirstDrive,     \* the drive at first: the kind at every path
  MaxVersion, MaxChanges, MaxRuns  \* bounds on edits, on changes, on runs

ASSUME TreeAssumption ==
  /\ Under \in [Paths -> SUBSET Paths]
  /\ \A p \in Paths : p \notin Under[p]
  /\ \A p \in Paths : \A q \in Under[p] : Under[q] \subseteq Under[p]
  /\ \A p, q \in Paths : Under[p] \cap Under[q] # {} =>
       p = q \/ p \in Under[q] \/ q \in Under[p]
  /\ Untyped \subseteq Paths /\ Unresolvable \subseteq Paths
  /\ Known \subseteq Paths
  /\ DeleteRemoved \in BOOLEAN
  /\ FirstDrive \in [Paths -> {"none", "file", "folder"}]

ASSUME BoundAssumption ==
  /\ MaxVersion \in Nat \ {0}
  /\ MaxChanges \in Nat
  /\ MaxRuns \in Nat

Versions == 1 .. MaxVersion

VARIABLES
  remote,        \* the drive: what is at each path, and which version of the file
  changes,       \* how often it changed
  local,         \* /output: what is at each path, and its modification time
  manifest,      \* the manifest file
  runs, phase,   \* how many backups were started, where the current one is
  listing,       \* the entries the traversal returned
  complete,      \* TRAVERSAL_COMPLETE
  old,           \* MANIFEST, as loaded
  new_manifest,  \* NEW_MANIFEST
  work,          \* what became of each entry so far
  todo,          \* the local paths the delete phase has yet to look at
  prune_failed,  \* DELETE_ERRORS > 0
  (* history *)
  lost,          \* files this run removed from /output and did not replace
  unsaved_loss,  \* ... and earlier runs that did not save their manifest
  steady         \* the drive has not changed since this run began

drive == <<remote, changes, steady>>
output == <<local, lost, unsaved_loss>>
run == <<runs, listing, complete, old>>
pruning == <<todo, prune_failed>>
vars == <<drive, output, run, pruning, manifest, phase, new_manifest, work>>

RemoteNodes == [kind : {"none", "file", "folder"}, version : Versions]

(* A local file has the content of one version of the remote file; its      *)
(* modification time is that of a version, or 0 when it was not set.        *)
LocalNodes == [kind : {"none", "file", "dir"}, version : 0 .. MaxVersion,
               mtime : 0 .. MaxVersion]
Missing == [kind |-> "none", version |-> 0, mtime |-> 0]
Directory == [kind |-> "dir", version |-> 0, mtime |-> 0]
File(v) == [kind |-> "file", version |-> v, mtime |-> 0]

Entries == [kind : {"none", "file", "dir"}, version : 0 .. MaxVersion]
NoEntry == [kind |-> "none", version |-> 0]

Records == [kind : {"none", "file", "package", "dir"}, version : 0 .. MaxVersion]
NoRecord == [kind |-> "none", version |-> 0]
NoManifest == [p \in Paths |-> NoRecord]

Phases == {"idle", "directories", "transfers", "prune_files", "prune_dirs", "saving"}

Outcomes ==
  {"none", "mkdir", "made", "blocked",     \* of a directory
   "skipped",                              \* of a file, by the plan
   "queued", "cleared",                    \* on its way
   "file", "package", "failed",            \* what its worker returned
   "done", "kept"}                         \* what the coordinator made of it

NoWork == [p \in Paths |-> "none"]

TypeOK ==
  /\ remote \in [Paths -> RemoteNodes]
  /\ changes \in 0 .. MaxChanges
  /\ local \in [Paths -> LocalNodes]
  /\ manifest \in [Paths -> Records]
  /\ runs \in 0 .. MaxRuns
  /\ phase \in Phases
  /\ listing \in [Paths -> Entries]
  /\ complete \in BOOLEAN
  /\ old \in [Paths -> Records]
  /\ new_manifest \in [Paths -> Records]
  /\ work \in [Paths -> Outcomes]
  /\ todo \subseteq Paths
  /\ prune_failed \in BOOLEAN
  /\ lost \subseteq Paths
  /\ unsaved_loss \subseteq Paths
  /\ steady \in BOOLEAN

Init ==
  /\ remote = [p \in Paths |-> [kind |-> FirstDrive[p], version |-> 1]]
  /\ changes = 0
  /\ local = [p \in Paths |-> Missing]
  /\ manifest = NoManifest
  /\ runs = 0
  /\ phase = "idle"
  /\ listing = [p \in Paths |-> NoEntry]
  /\ complete = FALSE
  /\ old = NoManifest
  /\ new_manifest = NoManifest
  /\ work = NoWork
  /\ todo = {}
  /\ prune_failed = FALSE
  /\ lost = {}
  /\ unsaved_loss = {}
  /\ steady = TRUE

---------------------------------------------------------------------------
(* The drive                                                                *)

Above(p) == {q \in Paths : p \in Under[q]}

Exists(p) ==
  /\ remote[p].kind # "none"
  /\ \A q \in Above(p) : remote[q].kind = "folder"

(* What is at p disappears, comes back (a file as it was), or is replaced.  *)
Change(p) ==
  /\ changes < MaxChanges
  /\ changes' = changes + 1
  /\ \E kind \in {"none", "file", "folder"} \ {remote[p].kind} :
       remote' = [remote EXCEPT ![p].kind = kind]
  /\ steady' = FALSE
  /\ UNCHANGED <<output, run, pruning, manifest, phase, new_manifest, work>>

(* A new version has a new modification time.                               *)
Edit(p) ==
  /\ changes < MaxChanges
  /\ remote[p].kind = "file"
  /\ remote[p].version < MaxVersion
  /\ changes' = changes + 1
  /\ remote' = [remote EXCEPT ![p].version = @ + 1]
  /\ steady' = FALSE
  /\ UNCHANGED <<output, run, pruning, manifest, phase, new_manifest, work>>

---------------------------------------------------------------------------
(* The listing                                                              *)

Folders == {p \in Paths : Exists(p) /\ remote[p].kind = "folder"}

(* A traversal that could not read some folders, took some of these for     *)
(* files, and did not find some children by their names.                    *)
Listing(unread, misfiled, dropped) ==
  [p \in Paths |->
    IF ~Exists(p) \/ p \in dropped \/ Above(p) \cap (unread \cup dropped) # {}
    THEN NoEntry
    ELSE IF remote[p].kind = "file"
    THEN [kind |-> "file", version |-> remote[p].version]
    ELSE [kind |-> IF p \in misfiled THEN "file" ELSE "dir", version |-> 0]]

Full == Listing({}, {}, {})

ListedAs(kind) == {p \in Paths : listing[p].kind = kind}

(* The manifest is loaded (as empty when it cannot be read), the drive is   *)
(* listed.  A read that failed makes the listing incomplete, unless it      *)
(* failed the way a read of a file does (misread), and a child that is not  *)
(* found does not; a stall or a probe's failure makes a listing incomplete  *)
(* that lacks nothing.                                                      *)
BeginRun ==
  /\ phase = "idle"
  /\ runs < MaxRuns
  /\ runs' = runs + 1
  /\ phase' = "directories"
  /\ old' \in {manifest, NoManifest}
  /\ \E unread \in SUBSET Folders : \E misfiled \in SUBSET (unread \cap Untyped) :
     \E dropped \in SUBSET Unresolvable :
       /\ listing' = Listing(unread, misfiled, dropped)
       /\ complete' \in BOOLEAN
  /\ work' = [p \in Paths |-> IF listing'[p].kind = "dir" THEN "mkdir" ELSE "none"]
  /\ steady' = TRUE
  /\ UNCHANGED <<output, pruning, remote, changes, manifest, new_manifest>>

---------------------------------------------------------------------------
(* Changes below /output, and what they lose                                *)

Replaced(tree, D, node) == [p \in Paths |-> IF p \in D THEN node ELSE tree[p]]

WithParents(p, tree) == Replaced(tree, Above(p), Directory)

(* mkdir(parents=True) needs every path above to be a directory or missing. *)
Reachable(p) == \A q \in Above(p) : local[q].kind # "file"

SetLocal(tree) ==
  /\ local' = tree
  /\ lost' = {p \in Paths : /\ tree[p].kind # "file"
                            /\ local[p].kind = "file" \/ p \in lost}
  /\ unsaved_loss' = {p \in unsaved_loss : tree[p].kind # "file"}

(* change_conflicting_local_path: a directory or a file in the way of the   *)
(* other is removed.                                                        *)
InTheWay(p, expected) == local[p].kind \notin {"none", expected}

Cleared(p, expected) ==
  IF InTheWay(p, expected) THEN Replaced(local, {p} \cup Under[p], Missing) ELSE local

(* ... or only some of it is, and the rest is in the way still.             *)
ClearFails(p, expected) ==
  /\ InTheWay(p, expected)
  /\ \E gone \in SUBSET {q \in Under[p] : local[q].kind = "file"} :
       SetLocal(Replaced(local, gone, Missing))

---------------------------------------------------------------------------
(* ensure_directories                                                       *)

EnsureDirectory(p) ==
  /\ phase = "directories"
  /\ work[p] = "mkdir"
  /\ \/ /\ Reachable(p)
        /\ SetLocal([WithParents(p, Cleared(p, "dir")) EXCEPT ![p] = Directory])
        /\ work' = [work EXCEPT ![p] = "made"]
     \/ /\ ClearFails(p, "dir")
        /\ work' = [work EXCEPT ![p] = "blocked"]
  /\ UNCHANGED <<drive, run, pruning, manifest, phase, new_manifest>>

---------------------------------------------------------------------------
(* The plan                                                                 *)

needs_transfer(p) ==
  \/ old[p].kind \notin {"file", "package"}
  \/ old[p].version # listing[p].version

(* is_local_file_aligned_with_remote; all versions have the same size.      *)
Aligned(p) == local[p].kind = "file" /\ local[p].mtime = listing[p].version

(* Fault: an existing local file counts as aligned.                         *)
MustTransferUnlessThere(p) ==
  needs_transfer(p) /\ ~(old = NoManifest /\ local[p].kind = "file")

(* With an empty manifest, what is there already is taken for transferred.  *)
MustTransfer(p) == needs_transfer(p) /\ ~(old = NoManifest /\ Aligned(p))

(* Fault: directories are recorded by the drive's word for them.            *)
RecordAsFolder(kind, p) ==
  [kind |-> IF kind = "dir" THEN "folder" ELSE kind, version |-> listing[p].version]

RecordAs(kind, p) == [kind |-> kind, version |-> listing[p].version]

PlanTransfers ==
  /\ phase = "directories"
  /\ \A p \in Paths : work[p] # "mkdir"
  /\ phase' = "transfers"
  /\ work' = [p \in Paths |->
       IF p \notin ListedAs("file") THEN work[p]
       ELSE IF MustTransfer(p) THEN "queued" ELSE "skipped"]
  /\ new_manifest' = [p \in Paths |->
       IF p \notin ListedAs("file") \/ MustTransfer(p) THEN NoRecord
       ELSE RecordAs(IF old[p].kind = "package" THEN "package" ELSE "file", p)]
  /\ UNCHANGED <<drive, output, run, pruning, manifest>>

---------------------------------------------------------------------------
(* The transfer of one file, by one of the workers                          *)

Expected(p) == IF p \in Known THEN "dir" ELSE "file"

(* An attempt first removes what is in the way of the kind it expects.      *)
ClearConflict(p) ==
  /\ phase = "transfers"
  /\ work[p] = "queued"
  /\ \/ /\ SetLocal(Cleared(p, Expected(p)))
        /\ work' = [work EXCEPT ![p] = "cleared"]
     \/ /\ ClearFails(p, Expected(p))
        /\ work' = [work EXCEPT ![p] = "failed"]
  /\ UNCHANGED <<drive, run, pruning, manifest, phase, new_manifest>>

Transferring(p) == phase = "transfers" /\ work[p] = "cleared"

(* download_file, through a partial file that replaces the local one.       *)
DownloadFile(p) ==
  /\ Transferring(p)
  /\ Exists(p) /\ remote[p].kind = "file"
  /\ Reachable(p) /\ local[p].kind # "dir"
  /\ SetLocal([WithParents(p, local) EXCEPT ![p] = File(remote[p].version)])
  /\ work' = [work EXCEPT ![p] = "file"]
  /\ UNCHANGED <<drive, run, pruning, manifest, phase, new_manifest>>

(* What is below a folder of the drive, down to the paths of S.             *)
WalkedInto(p, S) ==
  [q \in Paths |->
     IF q \in S /\ remote[q].kind = "file" THEN File(remote[q].version)
     ELSE IF q = p \/ q \in S THEN Directory
     ELSE local[q]]

(* What a walk of p finds that gets no answer from some folders.            *)
Found(p, unread) == {q \in Under[p] : Exists(q) /\ Above(q) \cap unread = {}}

(* The entry is a folder after all: download_package_tree walks it, and     *)
(* fails when it does not get everything it finds.  A folder that does not  *)
(* answer is taken for empty.                                               *)
DownloadTree(p) ==
  /\ Transferring(p)
  /\ p \in Folders
  /\ Reachable(p) /\ local[p].kind # "file"
  /\ \E unread \in SUBSET (Folders \cap (Under[p] \cup {p})) :
       \E S \in SUBSET Found(p, unread) :
         /\ \A q \in S : Above(q) \cap Under[p] \subseteq S
         /\ \A q \in S : local[q].kind # (IF remote[q].kind = "file" THEN "dir" ELSE "file")
         /\ SetLocal(WithParents(p, WalkedInto(p, S)))
         /\ \E outcome \in IF S = Found(p, unread) THEN {"package"} ELSE {"failed", "queued"} :
              work' = [work EXCEPT ![p] = outcome]
  /\ UNCHANGED <<drive, run, pruning, manifest, phase, new_manifest>>

(* What looks like a package cannot be walked, or is not found, but its     *)
(* directory is there from before: that is taken for a success.             *)
ReconcilePackage(p) ==
  /\ Transferring(p)
  /\ local[p].kind = "dir"
  /\ work' = [work EXCEPT ![p] = "package"]
  /\ UNCHANGED <<drive, output, run, pruning, manifest, phase, new_manifest>>

(* Nothing could be downloaded.                                             *)
FailTransfer(p) ==
  /\ Transferring(p)
  /\ work' = [work EXCEPT ![p] = "failed"]
  /\ UNCHANGED <<drive, output, run, pruning, manifest, phase, new_manifest>>

(* A retryable exception: the attempt is made again from its beginning.     *)
RetryTransfer(p) ==
  /\ Transferring(p)
  /\ work' = [work EXCEPT ![p] = "queued"]
  /\ UNCHANGED <<drive, output, run, pruning, manifest, phase, new_manifest>>

---------------------------------------------------------------------------
(* The coordinator takes the results                                        *)

(* apply_remote_modified_time, which may fail.                              *)
Stamped(p) == {local, [local EXCEPT ![p].mtime =
                         IF local[p].kind = "file" THEN listing[p].version ELSE 0]}

RecordSuccess(p) ==
  /\ phase = "transfers"
  /\ work[p] \in {"file", "package"}
  /\ local' \in Stamped(p)
  /\ new_manifest' = [new_manifest EXCEPT ![p] = RecordAs(work[p], p)]
  /\ work' = [work EXCEPT ![p] = "done"]
  /\ UNCHANGED <<drive, run, pruning, lost, unsaved_loss, manifest, phase>>

(* Fault: a failed transfer is recorded with what the drive lists.          *)
RecordFailureAsListed(p) ==
  /\ phase = "transfers"
  /\ work[p] = "failed"
  /\ new_manifest' = [new_manifest EXCEPT ![p] = RecordAs("file", p)]
  /\ work' = [work EXCEPT ![p] = "kept"]
  /\ UNCHANGED <<drive, output, run, pruning, manifest, phase>>

(* A failed transfer keeps what the manifest said.                          *)
RecordFailure(p) ==
  /\ phase = "transfers"
  /\ work[p] = "failed"
  /\ new_manifest' = [new_manifest EXCEPT ![p] = old[p]]
  /\ work' = [work EXCEPT ![p] = "kept"]
  /\ UNCHANGED <<drive, output, run, pruning, manifest, phase>>

---------------------------------------------------------------------------
(* The delete phase                                                         *)

PackageRoots == ListedAs("file") \cap Known

Protected(p) ==
  \/ local[p].kind = "file" /\ p \in ListedAs("file")
  \/ local[p].kind = "dir" /\ p \in ListedAs("dir") \cup PackageRoots
  \/ Above(p) \cap PackageRoots # {}

Unprotected(kind) == {p \in Paths : local[p].kind = kind /\ ~Protected(p)}

(* Fault: an incomplete listing is pruned by.                               *)
FinishTransfersAlways ==
  /\ phase = "transfers"
  /\ \A p \in Paths : work[p] \notin {"queued", "cleared", "file", "package", "failed"}
  /\ new_manifest' = [p \in Paths |-> IF p \in ListedAs("dir") THEN RecordAs("dir", p)
                                      ELSE new_manifest[p]]
  /\ phase' = IF DeleteRemoved THEN "prune_files" ELSE "saving"
  /\ todo' = IF DeleteRemoved THEN Unprotected("file") ELSE {}
  /\ UNCHANGED <<drive, output, run, prune_failed, manifest, work>>

(* The pool is empty: directories are recorded, and the delete phase begins *)
(* if it is enabled and the listing complete.                               *)
FinishTransfers ==
  /\ phase = "transfers"
  /\ \A p \in Paths : work[p] \notin {"queued", "cleared", "file", "package", "failed"}
  /\ new_manifest' = [p \in Paths |-> IF p \in ListedAs("dir") THEN RecordAs("dir", p)
                                      ELSE new_manifest[p]]
  /\ phase' = IF DeleteRemoved /\ complete THEN "prune_files" ELSE "saving"
  /\ todo' = IF DeleteRemoved /\ complete THEN Unprotected("file") ELSE {}
  /\ UNCHANGED <<drive, output, run, prune_failed, manifest, work>>

(* unlink, or its failure.                                                  *)
PruneFile(p) ==
  /\ phase = "prune_files"
  /\ p \in todo
  /\ todo' = todo \ {p}
  /\ \/ /\ SetLocal([local EXCEPT ![p] = Missing])
        /\ UNCHANGED prune_failed
     \/ /\ prune_failed' = TRUE
        /\ UNCHANGED output
  /\ UNCHANGED <<drive, run, manifest, phase, new_manifest, work>>

FinishFiles ==
  /\ phase = "prune_files"
  /\ todo = {}
  /\ phase' = "prune_dirs"
  /\ todo' = Unprotected("dir")
  /\ UNCHANGED <<drive, output, run, prune_failed, manifest, new_manifest, work>>

(* Deepest first: rmdir, which leaves what is not empty, or its failure.    *)
PruneDirectory(p) ==
  /\ phase = "prune_dirs"
  /\ p \in todo
  /\ Under[p] \cap todo = {}
  /\ todo' = todo \ {p}
  /\ \/ /\ \A q \in Under[p] : local[q].kind = "none"
        /\ SetLocal([local EXCEPT ![p] = Missing])
        /\ UNCHANGED prune_failed
     \/ /\ \E q \in Under[p] : local[q].kind # "none"
        /\ UNCHANGED <<output, prune_failed>>
     \/ /\ prune_failed' = TRUE
        /\ UNCHANGED output
  /\ UNCHANGED <<drive, run, manifest, phase, new_manifest, work>>

FinishDirectories ==
  /\ phase = "prune_dirs"
  /\ todo = {}
  /\ phase' = "saving"
  /\ UNCHANGED <<drive, output, run, pruning, manifest, new_manifest, work>>

---------------------------------------------------------------------------
(* The end of a run                                                         *)

Forget ==
  /\ phase' = "idle"
  /\ listing' = [p \in Paths |-> NoEntry]
  /\ complete' = FALSE
  /\ old' = NoManifest
  /\ new_manifest' = NoManifest
  /\ work' = NoWork
  /\ todo' = {}
  /\ prune_failed' = FALSE
  /\ lost' = {}

Unsaved == unsaved_loss' = unsaved_loss \cup lost

(* The manifest is replaced, whatever the save reports: a run only logs it. *)
SaveManifest ==
  /\ phase = "saving"
  /\ complete
  /\ manifest' = new_manifest
  /\ unsaved_loss' = {p \in unsaved_loss : new_manifest[p].kind = "file"}
  /\ Forget
  /\ UNCHANGED <<drive, local, runs>>

(* The listing was incomplete, or the save failed.                          *)
EndUnsaved ==
  /\ phase = "saving"
  /\ Unsaved
  /\ Forget
  /\ UNCHANGED <<drive, local, runs, manifest>>

(* The process ends, for any reason and at any step.                        *)
Crash ==
  /\ phase # "idle"
  /\ Unsaved
  /\ Forget
  /\ UNCHANGED <<drive, local, runs, manifest>>

---------------------------------------------------------------------------
Drive == \E p \in Paths : Change(p) \/ Edit(p)

Transfer(p) ==
  \/ ClearConflict(p)
  \/ DownloadFile(p)
  \/ DownloadTree(p)
  \/ ReconcilePackage(p)
  \/ FailTransfer(p)
  \/ RetryTransfer(p)
  \/ RecordSuccess(p)
  \/ RecordFailure(p)

Prune ==
  \/ \E p \in Paths : PruneFile(p) \/ PruneDirectory(p)
  \/ FinishFiles
  \/ FinishDirectories

Run ==
  \/ BeginRun
  \/ \E p \in Paths : EnsureDirectory(p) \/ Transfer(p)
  \/ PlanTransfers
  \/ FinishTransfers
  \/ Prune
  \/ SaveManifest
  \/ EndUnsaved
  \/ Crash

Next == Drive \/ Run

Spec == Init /\ [][Next]_vars

---------------------------------------------------------------------------
(* A file the manifest would have a run skip is there, as it is in the      *)
(* drive, unless a run that did not save its manifest removed it.  Excepted *)
(* are documents that may be packages and may be listed as files while they *)
(* are folders: the file they once were is removed, and its record kept.    *)
SkipIsSafe ==
  \A p \in Paths \ (lost \cup unsaved_loss \cup (Known \cap Untyped)) :
    /\ manifest[p].kind = "file"
    /\ remote[p].kind = "file"
    /\ manifest[p].version = remote[p].version
    => /\ local[p].kind = "file"
       /\ local[p].version = remote[p].version

Clean ==
  /\ steady
  /\ listing = Full
  /\ ~prune_failed
  /\ \A p \in Paths : work[p] \notin {"kept", "blocked"}

Saves == phase = "saving" /\ phase' = "idle" /\ complete /\ manifest' = new_manifest

Mirrored(p) ==
  CASE Full[p].kind = "file" ->
         \/ local[p].kind = "file" /\ local[p].version = remote[p].version
         \/ p \in Known /\ local[p].kind = "dir"
    [] Full[p].kind = "dir"  -> local[p].kind = "dir"
    [] OTHER -> \/ local[p].kind = "none"
                \/ ~DeleteRemoved
                \/ Above(p) \cap PackageRoots # {}

(* Skipped by its record alone, which may be wrong.                         *)
TakenOnTrust(p) ==
  /\ work[p] = "skipped"
  /\ old[p].kind = "package" \/ p \in unsaved_loss \cup (Known \cap Untyped)

(* A run without errors, in which the drive did not change and was listed   *)
(* in full, leaves a mirror of the drive.  Excepted is what it skipped as   *)
(* unchanged and either was recorded as a package, may be one, or was       *)
(* removed by a run that did not save its manifest.                         *)
CleanRunMirrors ==
  [][Saves /\ Clean => \A p \in Paths : TakenOnTrust(p) \/ Mirrored(p)]_vars

(* A run whose listing is incomplete removes no local file that the listing *)
(* merely lacks: only one that an entry of the other kind stands in for.    *)
IncompleteRunsKeep ==
  [][phase # "idle" /\ ~complete =>
       \A p \in Paths : local[p].kind = "file" /\ local'[p].kind # "file" =>
         \/ p \in ListedAs("dir")
         \/ p \in ListedAs("file") \cap Known
         \/ Above(p) \cap ListedAs("file") # {}]_vars

---------------------------------------------------------------------------
(* What the documentation says, and the code does not keep                  *)

(* "By default, local files are not deleted just because they disappear     *)
(* from iCloud": much less those that are there all the time.               *)
NothingDeletedByDefault ==
  [][~DeleteRemoved =>
       \A p \in Paths \ Known :
         local[p].kind = "file" /\ local'[p].kind # "file" =>
           ~(Exists(p) /\ remote[p].kind = "file")]_vars
=============================================================================
