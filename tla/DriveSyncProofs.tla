-------------------------- MODULE DriveSyncProofs --------------------------
(***************************************************************************)
(* The types of DriveSync, that what the manifest lets a run skip is in    *)
(* place, that a run by an incomplete listing keeps what that lacks, and   *)
(* that a clean run leaves a mirror of the drive.                          *)
(***************************************************************************)
EXTENDS DriveSync, TLAPS

---------------------------------------------------------------------------
(* The invariant                                                           *)

(* The local tree is a tree: a file is in directories only.                *)
TreeOK ==
  \A p \in Paths : local[p].kind = "file" => \A q \in Above(p) : local[q].kind = "dir"

(* No version is ahead of the drive's, no time ahead of its version.       *)
VersionsOK ==
  \A p \in Paths :
    /\ local[p].kind = "file" => /\ local[p].version <= remote[p].version
                                /\ local[p].mtime <= local[p].version
    /\ listing[p].version <= remote[p].version
    /\ manifest[p].version <= remote[p].version
    /\ new_manifest[p].version <= remote[p].version

(* Nothing is listed below what is listed as a file.                       *)
ListingOK ==
  \A p, q \in Paths :
    listing[q].kind = "file" /\ q \in Above(p) => listing[p].kind = "none"

(* What is removed is gone.                                                *)
LossOK == \A p \in lost \cup unsaved_loss : local[p].kind # "file"

(* The outcomes of an entry on its way, until the coordinator takes it.    *)
Moving == {"queued", "cleared", "file", "package", "failed"}

(* The phases of a run: what is known of the manifests and of the work.    *)
RunOK ==
  /\ phase # "idle" => old \in {manifest, NoManifest}
  /\ phase \in {"idle", "directories"} => new_manifest = NoManifest
  /\ phase = "idle" => lost = {}
  /\ phase \in {"prune_files", "prune_dirs"} => complete
  /\ \A p \in Paths :
       /\ new_manifest[p].kind = "file" => listing[p].kind = "file"
       /\ work[p] = "mkdir" => listing[p].kind = "dir"
       /\ work[p] \in Moving =>
            /\ listing[p].kind = "file"
            /\ new_manifest[p] = NoRecord
            /\ old[p].kind = "file" => old[p].version # listing[p].version
       /\ work[p] = "file" =>
            local[p].kind = "file" /\ listing[p].version <= local[p].version
       /\ work[p] = "package" => local[p].kind = "dir"
       /\ phase # "transfers" => work[p] \notin Moving

(* The delete phase looks only at what the listing lacks.                  *)
PruneOK ==
  \A p \in todo :
    /\ phase = "prune_files" => local[p].kind = "file" /\ listing[p].kind # "file"
    /\ phase = "prune_dirs" => local[p].kind = "dir"

Plain == Paths \ (Known \cap Untyped)

(* What cannot be misfiled is listed with the drive's version, which no    *)
(* record exceeds.                                                         *)
ListedVersionOK ==
  \A p \in Paths \ Untyped :
    phase # "idle" /\ listing[p].kind = "file" => manifest[p].version <= listing[p].version

(* Of the files that are listed, a run removes only those that may be      *)
(* packages, once it transfers them.                                       *)
ListedLossOK ==
  \A p \in lost :
    listing[p].kind = "file" =>
      /\ phase # "directories"
      /\ phase = "transfers" => p \in Known

Overtaken(record, p) == record.version < remote[p].version

(* A record of a file is of what is there, or of an older version.         *)
RecordsOK(records) ==
  \A p \in Plain \ (lost \cup unsaved_loss) :
    records[p].kind = "file" =>
      \/ local[p].kind = "file" /\ records[p].version <= local[p].version
      \/ Overtaken(records[p], p)

(* What this run removed and recorded all the same is of an older version. *)
LossRecordsOK ==
  \A p \in Plain \cap lost :
    new_manifest[p].kind = "file" => Overtaken(new_manifest[p], p)

SyncInv ==
  /\ TypeOK
  /\ TreeOK /\ VersionsOK /\ ListingOK /\ LossOK /\ RunOK /\ PruneOK
  /\ ListedVersionOK /\ ListedLossOK
  /\ RecordsOK(manifest) /\ RecordsOK(new_manifest) /\ LossRecordsOK

---------------------------------------------------------------------------
(* The shape of the tree                                                   *)

LEMMA AboveIsOrdered ==
  ASSUME NEW p \in Paths
  PROVE  /\ Above(p) \subseteq Paths /\ p \notin Above(p)
         /\ \A q \in Above(p) : Above(q) \subseteq Above(p)
         /\ \A q, r \in Above(p) : q = r \/ q \in Above(r) \/ r \in Above(q)
  BY TreeAssumption DEF Above

LEMMA UnderIsBelow ==
  ASSUME NEW p \in Paths, NEW q \in Paths
  PROVE  q \in Under[p] <=> p \in Above(q)
  BY DEF Above

---------------------------------------------------------------------------
(* Types                                                                   *)

LEMMA NodeTypes ==
  /\ Missing \in LocalNodes /\ Directory \in LocalNodes
  /\ \A v \in Versions : File(v) \in LocalNodes
  /\ NoEntry \in Entries /\ NoRecord \in Records
  /\ NoManifest \in [Paths -> Records] /\ NoWork \in [Paths -> Outcomes]
  BY BoundAssumption
  DEF Missing, Directory, File, LocalNodes, NoEntry, Entries, NoRecord, Records,
      NoManifest, NoWork, Outcomes, Versions

LEMMA ListingTypes ==
  ASSUME TypeOK, NEW unread, NEW misfiled, NEW dropped
  PROVE  Listing(unread, misfiled, dropped) \in [Paths -> Entries]
<1>1. \A p \in Paths : [kind |-> "file", version |-> remote[p].version] \in Entries
  BY BoundAssumption DEF TypeOK, RemoteNodes, Entries, Versions
<1>2. /\ [kind |-> "file", version |-> 0] \in Entries
      /\ [kind |-> "dir", version |-> 0] \in Entries
      /\ NoEntry \in Entries
  BY BoundAssumption DEF Entries, NoEntry
<1> QED
  BY <1>1, <1>2 DEF Listing

LEMMA ReplacedTypes ==
  ASSUME NEW tree \in [Paths -> LocalNodes], NEW D, NEW node \in LocalNodes
  PROVE  Replaced(tree, D, node) \in [Paths -> LocalNodes]
  BY DEF Replaced

LEMMA SetLocalTypes ==
  ASSUME TypeOK, NEW tree \in [Paths -> LocalNodes], SetLocal(tree)
  PROVE  /\ local' = tree /\ local' \in [Paths -> LocalNodes]
         /\ lost' \subseteq Paths /\ unsaved_loss' \subseteq Paths
  BY DEF TypeOK, SetLocal

LEMMA ForgetTypes ==
  ASSUME Forget
  PROVE  /\ phase' \in Phases /\ listing' \in [Paths -> Entries] /\ complete' \in BOOLEAN
         /\ old' \in [Paths -> Records] /\ new_manifest' \in [Paths -> Records]
         /\ work' \in [Paths -> Outcomes] /\ todo' \subseteq Paths
         /\ prune_failed' \in BOOLEAN /\ lost' \subseteq Paths
  BY NodeTypes DEF Forget, Phases

LEMMA TypeInit == Init => TypeOK
<1> SUFFICES ASSUME Init PROVE TypeOK
  OBVIOUS
<1>1. remote \in [Paths -> RemoteNodes]
  BY TreeAssumption, BoundAssumption DEF Init, RemoteNodes, Versions
<1>2. local \in [Paths -> LocalNodes] /\ listing \in [Paths -> Entries]
  BY NodeTypes DEF Init
<1>3. changes \in 0 .. MaxChanges /\ runs \in 0 .. MaxRuns
  BY BoundAssumption DEF Init
<1>4. complete \in BOOLEAN /\ prune_failed \in BOOLEAN /\ steady \in BOOLEAN
  BY DEF Init
<1> QED
  BY <1>1, <1>2, <1>3, <1>4, NodeTypes DEF Init, TypeOK, Phases

LEMMA TypeStep ==
  ASSUME TypeOK, [Next]_vars
  PROVE  TypeOK'
<1> USE TypeOK
<1>1. ASSUME NEW p \in Paths, Change(p)
      PROVE  TypeOK'
  <2>1. PICK kind \in {"none", "file", "folder"} : remote' = [remote EXCEPT ![p].kind = kind]
    BY <1>1 DEF Change
  <2>2. [remote[p] EXCEPT !.kind = kind] \in RemoteNodes
    BY DEF TypeOK, RemoteNodes
  <2>3. remote' \in [Paths -> RemoteNodes] /\ changes' \in 0 .. MaxChanges
    BY <1>1, <2>1, <2>2, BoundAssumption DEF Change, TypeOK
  <2> QED
    BY <1>1, <2>3 DEF Change, TypeOK, output, run, pruning
<1>2. ASSUME NEW p \in Paths, Edit(p)
      PROVE  TypeOK'
  <2>1. remote' \in [Paths -> RemoteNodes] /\ changes' \in 0 .. MaxChanges
    BY <1>2, BoundAssumption DEF Edit, TypeOK, RemoteNodes, Versions
  <2> QED
    BY <1>2, <2>1 DEF Edit, TypeOK, output, run, pruning
<1>3. CASE BeginRun
  <2>1. listing' \in [Paths -> Entries]
    BY <1>3, ListingTypes DEF BeginRun
  <2> QED
    BY <1>3, <2>1, NodeTypes, BoundAssumption
    DEF BeginRun, TypeOK, output, pruning, Phases, Outcomes
<1>4. ASSUME NEW p \in Paths, EnsureDirectory(p)
      PROVE  TypeOK'
  <2>1. \A D : Replaced(local, D, Missing) \in [Paths -> LocalNodes]
    BY NodeTypes, ReplacedTypes DEF TypeOK
  <2>2. [WithParents(p, Cleared(p, "dir")) EXCEPT ![p] = Directory] \in [Paths -> LocalNodes]
    BY <2>1, NodeTypes, ReplacedTypes DEF Cleared, WithParents, TypeOK
  <2>3. local' \in [Paths -> LocalNodes] /\ lost' \subseteq Paths /\ unsaved_loss' \subseteq Paths
    BY <1>4, <2>1, <2>2, SetLocalTypes DEF EnsureDirectory, ClearFails
  <2> QED
    BY <1>4, <2>3 DEF EnsureDirectory, TypeOK, drive, run, pruning, Outcomes
<1>5. CASE PlanTransfers
  BY <1>5, NodeTypes DEF PlanTransfers, TypeOK, drive, output, run, pruning, Phases,
     Outcomes, RecordAs, Records, Entries
<1>6. ASSUME NEW p \in Paths, ClearConflict(p)
      PROVE  TypeOK'
  <2>1. \A D : Replaced(local, D, Missing) \in [Paths -> LocalNodes]
    BY NodeTypes, ReplacedTypes DEF TypeOK
  <2>2. local' \in [Paths -> LocalNodes] /\ lost' \subseteq Paths /\ unsaved_loss' \subseteq Paths
    BY <1>6, <2>1, SetLocalTypes DEF ClearConflict, ClearFails, Cleared, TypeOK
  <2> QED
    BY <1>6, <2>2 DEF ClearConflict, TypeOK, drive, run, pruning, Outcomes
<1>7. ASSUME NEW p \in Paths, DownloadFile(p)
      PROVE  TypeOK'
  <2>1. [WithParents(p, local) EXCEPT ![p] = File(remote[p].version)] \in [Paths -> LocalNodes]
    BY NodeTypes, ReplacedTypes DEF WithParents, TypeOK, RemoteNodes
  <2>2. local' \in [Paths -> LocalNodes] /\ lost' \subseteq Paths /\ unsaved_loss' \subseteq Paths
    BY <1>7, <2>1, SetLocalTypes DEF DownloadFile
  <2> QED
    BY <1>7, <2>2 DEF DownloadFile, TypeOK, drive, run, pruning, Outcomes
<1>8. ASSUME NEW p \in Paths, DownloadTree(p)
      PROVE  TypeOK'
  <2>1. \A S : WithParents(p, WalkedInto(p, S)) \in [Paths -> LocalNodes]
    <3>1. \A S : WalkedInto(p, S) \in [Paths -> LocalNodes]
      BY NodeTypes DEF WalkedInto, TypeOK, RemoteNodes
    <3> QED
      BY <3>1, NodeTypes, ReplacedTypes DEF WithParents
  <2>2. local' \in [Paths -> LocalNodes] /\ lost' \subseteq Paths /\ unsaved_loss' \subseteq Paths
    BY <1>8, <2>1, SetLocalTypes DEF DownloadTree
  <2>3. work' \in [Paths -> Outcomes]
    BY <1>8 DEF DownloadTree, TypeOK, Outcomes
  <2> QED
    BY <1>8, <2>2, <2>3 DEF DownloadTree, TypeOK, drive, run, pruning
<1>9. ASSUME NEW p \in Paths, ReconcilePackage(p) \/ FailTransfer(p) \/ RetryTransfer(p)
      PROVE  TypeOK'
  BY <1>9 DEF ReconcilePackage, FailTransfer, RetryTransfer, TypeOK, drive, output, run,
     pruning, Outcomes
<1>10. ASSUME NEW p \in Paths, RecordSuccess(p)
       PROVE  TypeOK'
  <2>1. local' \in [Paths -> LocalNodes]
    <3>1. \A t \in 0 .. MaxVersion : [local[p] EXCEPT !.mtime = t] \in LocalNodes
      BY DEF TypeOK, LocalNodes
    <3>2. listing[p].version \in 0 .. MaxVersion /\ 0 \in 0 .. MaxVersion
      BY BoundAssumption DEF TypeOK, Entries
    <3> QED
      BY <1>10, <3>1, <3>2 DEF RecordSuccess, Stamped, TypeOK
  <2>2. RecordAs(work[p], p) \in Records
    BY <1>10 DEF RecordSuccess, RecordAs, TypeOK, Records, Entries
  <2> QED
    BY <1>10, <2>1, <2>2 DEF RecordSuccess, TypeOK, drive, run, pruning, Outcomes
<1>11. ASSUME NEW p \in Paths, RecordFailure(p)
       PROVE  TypeOK'
  BY <1>11 DEF RecordFailure, TypeOK, drive, output, run, pruning, Outcomes
<1>12. CASE FinishTransfers
  BY <1>12 DEF FinishTransfers, TypeOK, drive, output, run, pruning, Phases, RecordAs,
     Records, Entries, Unprotected
<1>13. ASSUME NEW p \in Paths, PruneFile(p) \/ PruneDirectory(p)
       PROVE  TypeOK'
  <2>1. /\ local' \in [Paths -> LocalNodes]
        /\ lost' \subseteq Paths /\ unsaved_loss' \subseteq Paths
    <3>1. [local EXCEPT ![p] = Missing] \in [Paths -> LocalNodes]
      BY NodeTypes DEF TypeOK
    <3> QED
      BY <1>13, <3>1, SetLocalTypes DEF PruneFile, PruneDirectory, TypeOK, output
  <2>2. prune_failed' \in BOOLEAN /\ todo' \subseteq Paths
    BY <1>13 DEF PruneFile, PruneDirectory, TypeOK
  <2> QED
    BY <1>13, <2>1, <2>2 DEF PruneFile, PruneDirectory, TypeOK, drive, run
<1>14. CASE FinishFiles \/ FinishDirectories
  BY <1>14 DEF FinishFiles, FinishDirectories, TypeOK, drive, output, run, pruning,
     Phases, Unprotected
<1>15. CASE SaveManifest \/ EndUnsaved \/ Crash
  <2>1. unsaved_loss' \subseteq Paths /\ manifest' \in [Paths -> Records]
    BY <1>15 DEF SaveManifest, EndUnsaved, Crash, Unsaved, TypeOK
  <2>2. Forget /\ UNCHANGED <<drive, local, runs>>
    BY <1>15 DEF SaveManifest, EndUnsaved, Crash
  <2> QED
    BY <2>1, <2>2, ForgetTypes DEF TypeOK, drive
<1>16. CASE UNCHANGED vars
  BY <1>16 DEF vars, TypeOK, drive, output, run, pruning
<1> QED
  BY <1>1, <1>2, <1>3, <1>4, <1>5, <1>6, <1>7, <1>8, <1>9, <1>10, <1>11, <1>12, <1>13,
     <1>14, <1>15, <1>16
  DEF Next, Drive, Run, Transfer, Prune

(* Every variable keeps its type, for every tree of paths.                 *)
THEOREM TypeCorrect == Spec => []TypeOK
  BY TypeInit, TypeStep, PTL DEF Spec

---------------------------------------------------------------------------
(* Changes below /output                                                   *)

(* Nothing but the drive's present versions is written.                    *)
Rewritten(tree) ==
  \A p \in Paths :
    tree[p].kind = "file" => tree[p] = local[p] \/ tree[p] = File(remote[p].version)

LEMMA VersionTypes ==
  ASSUME TypeOK
  PROVE  \A p \in Paths :
           /\ remote[p].version \in Nat
           /\ local[p].version \in Nat /\ local[p].mtime \in Nat
           /\ listing[p].version \in Nat /\ manifest[p].version \in Nat
           /\ new_manifest[p].version \in Nat /\ old[p].version \in Nat
  BY BoundAssumption DEF TypeOK, RemoteNodes, LocalNodes, Entries, Records, Versions

(* What was removed is remembered, so the records stay true.               *)
LEMMA RecordsSurvive ==
  ASSUME TypeOK, LossOK, NEW tree \in [Paths -> LocalNodes], SetLocal(tree), Rewritten(tree),
         UNCHANGED remote,
         NEW records \in [Paths -> Records], RecordsOK(records),
         \A p \in Paths : records[p].version <= remote[p].version
  PROVE  \A p \in Plain \ (lost' \cup unsaved_loss') :
           records[p].kind = "file" =>
             \/ local'[p].kind = "file" /\ records[p].version <= local'[p].version
             \/ records[p].version < remote'[p].version
<1> SUFFICES ASSUME NEW p \in Plain \ (lost' \cup unsaved_loss'), records[p].kind = "file"
             PROVE  \/ local'[p].kind = "file" /\ records[p].version <= local'[p].version
                    \/ records[p].version < remote'[p].version
  OBVIOUS
<1>1. p \in Paths /\ local' = tree
  BY DEF Plain, SetLocal
<1>2. CASE tree[p].kind = "file"
  <2>1. CASE tree[p] = local[p]
    <3>1. p \notin lost \cup unsaved_loss
      BY <1>1, <1>2, <2>1 DEF LossOK
    <3> QED
      BY <1>1, <2>1, <3>1 DEF RecordsOK, Overtaken
  <2>2. CASE tree[p] = File(remote[p].version)
    BY <1>1, <2>2 DEF File
  <2> QED
    BY <1>1, <1>2, <2>1, <2>2 DEF Rewritten
<1>3. CASE tree[p].kind # "file"
  <2>1. local[p].kind # "file" /\ p \notin lost \cup unsaved_loss
    BY <1>1, <1>3 DEF SetLocal
  <2> QED
    BY <1>1, <2>1 DEF RecordsOK, Overtaken
<1> QED
  BY <1>2, <1>3

LEMMA LocalChange ==
  ASSUME SyncInv, NEW tree \in [Paths -> LocalNodes], SetLocal(tree), Rewritten(tree),
         UNCHANGED <<remote, listing, manifest, new_manifest>>
  PROVE  VersionsOK' /\ LossOK' /\ RecordsOK(manifest)' /\ RecordsOK(new_manifest)'
<1>1. local' = tree
  BY DEF SetLocal
<1>2. VersionsOK'
  <2>1. \A p \in Paths : tree[p].kind = "file" =>
          tree[p].version <= remote[p].version /\ tree[p].mtime <= tree[p].version
    BY VersionTypes DEF SyncInv, VersionsOK, Rewritten, File
  <2> QED
    BY <1>1, <2>1 DEF SyncInv, VersionsOK
<1>3. LossOK'
  BY DEF SetLocal, LossOK, SyncInv, TypeOK
<1>4. manifest \in [Paths -> Records] /\ new_manifest \in [Paths -> Records]
  BY DEF SyncInv, TypeOK
<1>5. \A p \in Paths : /\ manifest[p].version <= remote[p].version
                       /\ new_manifest[p].version <= remote[p].version
  BY DEF SyncInv, VersionsOK
<1>6. RecordsOK(manifest)'
  BY <1>4, <1>5, RecordsSurvive DEF SyncInv, RecordsOK, Overtaken
<1>7. RecordsOK(new_manifest)'
  BY <1>4, <1>5, RecordsSurvive DEF SyncInv, RecordsOK, Overtaken
<1> QED
  BY <1>2, <1>3, <1>6, <1>7

LEMMA LocalSame ==
  ASSUME SyncInv, UNCHANGED <<remote, output, listing, manifest>>
  PROVE  /\ TreeOK' /\ LossOK' /\ RecordsOK(manifest)'
         /\ \A p \in Paths : local[p].kind = "file" =>
              local'[p].version <= remote'[p].version /\ local'[p].mtime <= local'[p].version
  BY DEF SyncInv, TreeOK, LossOK, RecordsOK, Overtaken, VersionsOK, output, Above

---------------------------------------------------------------------------
(* The invariant is kept: drive, begin and end of a run                    *)

LEMMA InvInit == Init => SyncInv
<1> SUFFICES ASSUME Init PROVE SyncInv
  OBVIOUS
<1>1. TypeOK
  BY TypeInit
<1>2. \A p \in Paths : /\ local[p].kind = "none" /\ listing[p].kind = "none"
                       /\ manifest[p].kind = "none" /\ new_manifest[p].kind = "none"
                       /\ work[p] = "none"
  BY DEF Init, Missing, NoEntry, NoManifest, NoRecord, NoWork
<1>3. VersionsOK
  BY <1>1, <1>2, VersionTypes DEF Init, VersionsOK, NoEntry, NoManifest, NoRecord
<1>4. TreeOK /\ ListingOK /\ LossOK /\ PruneOK /\ ListedVersionOK /\ ListedLossOK
  BY <1>2 DEF Init, TreeOK, ListingOK, LossOK, PruneOK, ListedVersionOK, ListedLossOK, Above
<1>5. RunOK
  BY <1>2 DEF Init, RunOK, Moving
<1>6. RecordsOK(manifest) /\ RecordsOK(new_manifest) /\ LossRecordsOK
  BY <1>2 DEF RecordsOK, LossRecordsOK, Plain
<1> QED
  BY <1>1, <1>3, <1>4, <1>5, <1>6 DEF SyncInv

(* A change of the drive only ever raises versions.                        *)
LEMMA DriveKeeps ==
  ASSUME SyncInv, TypeOK',
         \A p \in Paths : remote[p].version <= remote'[p].version,
         UNCHANGED <<output, run, pruning, manifest, phase, new_manifest, work>>
  PROVE  SyncInv'
<1> USE DEF SyncInv, output, run, pruning
<1>1. \A p \in Paths : remote[p].version \in Nat /\ remote'[p].version \in Nat
  BY BoundAssumption DEF TypeOK, RemoteNodes, Versions
<1>2. VersionsOK'
  BY <1>1, VersionTypes DEF VersionsOK
<1>3. TreeOK' /\ ListingOK' /\ LossOK' /\ RunOK' /\ PruneOK' /\ ListedVersionOK' /\ ListedLossOK'
  BY DEF TreeOK, ListingOK, LossOK, RunOK, PruneOK, ListedVersionOK, ListedLossOK, Above
<1>4. \A p \in Paths : /\ Overtaken(manifest[p], p) => Overtaken(manifest[p], p)'
                       /\ Overtaken(new_manifest[p], p) => Overtaken(new_manifest[p], p)'
  BY <1>1, VersionTypes DEF Overtaken
<1>5. RecordsOK(manifest)' /\ RecordsOK(new_manifest)' /\ LossRecordsOK'
  BY <1>4 DEF RecordsOK, LossRecordsOK, Plain
<1> QED
  BY <1>2, <1>3, <1>5

LEMMA ChangeKeeps ==
  ASSUME SyncInv, TypeOK', NEW p \in Paths, Change(p) \/ Edit(p)
  PROVE  SyncInv'
<1>1. \A q \in Paths : remote[q].version <= remote'[q].version
  <2>1. CASE Change(p)
    BY <2>1, VersionTypes DEF Change, SyncInv, TypeOK, RemoteNodes
  <2>2. CASE Edit(p)
    BY <2>2, VersionTypes DEF Edit, SyncInv, TypeOK, RemoteNodes
  <2> QED
    BY <2>1, <2>2
<1> QED
  BY <1>1, DriveKeeps DEF Change, Edit

LEMMA ListingFacts ==
  ASSUME TypeOK, NEW unread \in SUBSET Folders, NEW misfiled \in SUBSET (unread \cap Untyped),
         NEW dropped
  PROVE  \A p \in Paths :
           LET entry == Listing(unread, misfiled, dropped)[p]
           IN  /\ entry.version <= remote[p].version
               /\ entry.kind = "file" /\ p \notin Untyped => entry.version = remote[p].version
               /\ \A q \in Above(p) :
                    Listing(unread, misfiled, dropped)[q].kind = "file" => entry.kind = "none"
<1> SUFFICES ASSUME NEW p \in Paths
             PROVE  LET entry == Listing(unread, misfiled, dropped)[p]
                    IN  /\ entry.version <= remote[p].version
                        /\ entry.kind = "file" /\ p \notin Untyped =>
                              entry.version = remote[p].version
                        /\ \A q \in Above(p) :
                             Listing(unread, misfiled, dropped)[q].kind = "file" =>
                               entry.kind = "none"
  OBVIOUS
<1>1. remote[p].version \in Nat
  BY VersionTypes
<1>2. /\ Listing(unread, misfiled, dropped)[p].version <= remote[p].version
      /\ Listing(unread, misfiled, dropped)[p].kind = "file" /\ p \notin Untyped =>
            Listing(unread, misfiled, dropped)[p].version = remote[p].version
  BY <1>1 DEF Listing, NoEntry
<1>3. ASSUME NEW q \in Above(p), Listing(unread, misfiled, dropped)[q].kind = "file"
      PROVE  Listing(unread, misfiled, dropped)[p].kind = "none"
  <2>1. q \in Paths
    BY DEF Above
  <2>2. remote[q].kind = "file" \/ q \in misfiled
    BY <1>3, <2>1 DEF Listing, NoEntry
  <2>3. ~Exists(p) \/ Above(p) \cap (unread \cup dropped) # {}
    BY <2>1, <2>2 DEF Exists
  <2>4. Listing(unread, misfiled, dropped)[p] = NoEntry
    BY <2>3 DEF Listing
  <2> QED
    BY <2>4 DEF NoEntry
<1> QED
  BY <1>2, <1>3

LEMMA BeginKeeps ==
  ASSUME SyncInv, TypeOK', BeginRun
  PROVE  SyncInv'
<1> USE DEF SyncInv, output, pruning
<1>0. PICK unread \in SUBSET Folders :
        \E misfiled \in SUBSET (unread \cap Untyped) : \E dropped \in SUBSET Unresolvable :
          listing' = Listing(unread, misfiled, dropped)
  BY DEF BeginRun
<1>1. PICK misfiled \in SUBSET (unread \cap Untyped), dropped \in SUBSET Unresolvable :
        listing' = Listing(unread, misfiled, dropped)
  BY <1>0
<1>2. /\ phase = "idle" /\ phase' = "directories" /\ old' \in {manifest, NoManifest}
      /\ work' = [p \in Paths |-> IF listing'[p].kind = "dir" THEN "mkdir" ELSE "none"]
      /\ UNCHANGED <<local, lost, unsaved_loss, todo, remote, manifest, new_manifest>>
  BY DEF BeginRun
<1>3. \A p \in Paths :
        /\ listing'[p].version <= remote[p].version
        /\ listing'[p].kind = "file" /\ p \notin Untyped => listing'[p].version = remote[p].version
        /\ \A q \in Above(p) : listing'[q].kind = "file" => listing'[p].kind = "none"
  BY <1>1, ListingFacts
<1>4. VersionsOK' /\ ListingOK' /\ ListedVersionOK'
  BY <1>2, <1>3 DEF VersionsOK, ListingOK, ListedVersionOK, Above
<1>5. TreeOK' /\ LossOK' /\ PruneOK' /\ RecordsOK(manifest)'
  BY <1>2 DEF TreeOK, LossOK, PruneOK, RecordsOK, Overtaken, Above
<1>6. lost' = {} /\ new_manifest' = NoManifest
  BY <1>2 DEF RunOK
<1>7. RunOK'
  BY <1>2, <1>6 DEF RunOK, Moving, NoManifest, NoRecord
<1>8. ListedLossOK' /\ LossRecordsOK' /\ RecordsOK(new_manifest)'
  BY <1>6 DEF ListedLossOK, LossRecordsOK, RecordsOK, Plain, NoManifest, NoRecord
<1> QED
  BY <1>4, <1>5, <1>7, <1>8

(* A run that ends leaves its memory behind; what it removed is remembered *)
(* or is overtaken in what it saved.                                       *)
LEMMA EndKeeps ==
  ASSUME SyncInv, TypeOK', Forget, UNCHANGED <<remote, local>>,
         \A p \in unsaved_loss' : p \in lost \cup unsaved_loss,
         \A p \in Paths : manifest'[p].version <= remote[p].version,
         RecordsOK(manifest)'
  PROVE  SyncInv'
<1> USE DEF SyncInv, Forget
<1>1. \A p \in Paths : /\ listing'[p] = NoEntry /\ new_manifest'[p] = NoRecord
                       /\ work'[p] = "none"
  BY DEF NoManifest, NoWork
<1>2. VersionsOK'
  BY <1>1, VersionTypes DEF VersionsOK, NoEntry, NoRecord
<1>3. TreeOK' /\ LossOK' /\ PruneOK'
  BY DEF TreeOK, LossOK, PruneOK, Above
<1>4. ListingOK' /\ ListedVersionOK' /\ ListedLossOK' /\ LossRecordsOK'
  BY <1>1 DEF ListingOK, ListedVersionOK, ListedLossOK, LossRecordsOK, NoEntry
<1>5. RunOK'
  BY <1>1 DEF RunOK, Moving, NoRecord
<1>6. RecordsOK(new_manifest)'
  BY <1>1 DEF RecordsOK, Plain, NoRecord
<1> QED
  BY <1>2, <1>3, <1>4, <1>5, <1>6

LEMMA UnsavedKeeps ==
  ASSUME SyncInv, TypeOK', EndUnsaved \/ Crash
  PROVE  SyncInv'
<1>1. Forget /\ Unsaved /\ UNCHANGED <<remote, local, manifest>>
  BY DEF EndUnsaved, Crash, drive
<1>2. RecordsOK(manifest)'
  BY <1>1 DEF SyncInv, RecordsOK, Overtaken, Unsaved, Forget
<1> QED
  BY <1>1, <1>2, EndKeeps DEF SyncInv, VersionsOK, Unsaved

LEMMA SaveKeeps ==
  ASSUME SyncInv, TypeOK', SaveManifest
  PROVE  SyncInv'
<1>1. /\ Forget /\ manifest' = new_manifest /\ UNCHANGED <<remote, local>>
      /\ unsaved_loss' = {p \in unsaved_loss : new_manifest[p].kind = "file"}
  BY DEF SaveManifest, drive
<1>2. RecordsOK(manifest)'
  BY <1>1 DEF SyncInv, RecordsOK, LossRecordsOK, Overtaken, Forget, Plain
<1> QED
  BY <1>1, <1>2, EndKeeps DEF SyncInv, VersionsOK

---------------------------------------------------------------------------
(* What a step does to the tree below /output                              *)

Removed(p) == local[p].kind = "file" /\ local'[p].kind # "file"

LEMMA LocalStep ==
  ASSUME SyncInv, TypeOK', SetLocal(local'), Rewritten(local'), TreeOK', RunOK', PruneOK',
         UNCHANGED <<remote, listing, manifest, new_manifest, phase>>,
         \A p \in Paths : Removed(p) =>
           /\ new_manifest[p].kind # "file"
           /\ listing[p].kind = "file" =>
                phase # "directories" /\ (phase = "transfers" => p \in Known)
  PROVE  SyncInv'
<1>1. local' \in [Paths -> LocalNodes]
  BY DEF TypeOK
<1>2. VersionsOK' /\ LossOK' /\ RecordsOK(manifest)' /\ RecordsOK(new_manifest)'
  BY <1>1, LocalChange
<1>3. \A p \in lost' : p \in Paths /\ (p \in lost \/ Removed(p))
  BY DEF SetLocal, Removed
<1>4. ListedLossOK' /\ LossRecordsOK'
  BY <1>3 DEF SyncInv, ListedLossOK, LossRecordsOK, Plain, Overtaken
<1>5. ListingOK' /\ ListedVersionOK'
  BY DEF SyncInv, ListingOK, ListedVersionOK, Above
<1> QED
  BY <1>2, <1>4, <1>5 DEF SyncInv

LEMMA EnsureTree ==
  ASSUME SyncInv, NEW p \in Paths, EnsureDirectory(p)
  PROVE  /\ SetLocal(local') /\ Rewritten(local') /\ TreeOK'
         /\ \A q \in Paths : Removed(q) => q = p
<1> USE DEF SyncInv
<1>1. CASE /\ Reachable(p)
           /\ SetLocal([WithParents(p, Cleared(p, "dir")) EXCEPT ![p] = Directory])
  <2> DEFINE tree == [WithParents(p, Cleared(p, "dir")) EXCEPT ![p] = Directory]
  <2>1. local' = tree /\ SetLocal(local')
    BY <1>1 DEF SetLocal
  <2>2. ASSUME InTheWay(p, "dir"), NEW q \in Under[p]
        PROVE  q \in Paths /\ local[q].kind # "file"
    <3>1. local[p].kind # "dir"
      BY <2>2 DEF InTheWay
    <3>2. q \in Paths /\ p \in Above(q)
      BY TreeAssumption DEF Above
    <3> QED
      BY <3>1, <3>2 DEF TreeOK
  <2>3. tree[p] = Directory /\ \A q \in Above(p) : tree[q] = Directory
    BY AboveIsOrdered DEF WithParents, Replaced, Cleared, TypeOK
  <2>4. \A q \in Paths \ ({p} \cup Above(p)) :
          tree[q] = IF InTheWay(p, "dir") /\ q \in Under[p] THEN Missing ELSE local[q]
    BY DEF WithParents, Replaced, Cleared, TypeOK
  <2>5. Rewritten(tree)
    BY <2>3, <2>4 DEF Rewritten, Directory, Missing
  <2>6. ASSUME NEW q \in Paths, tree[q].kind = "file", NEW r \in Above(q)
        PROVE  tree[r].kind = "dir"
    <3>1. q \notin {p} \cup Above(p) /\ local[q].kind = "file" /\ r \in Paths
      BY <2>3, <2>4, <2>6 DEF Directory, Missing, Above
    <3>2. local[r].kind = "dir"
      BY <3>1 DEF TreeOK
    <3>3. CASE r \in {p} \cup Above(p)
      BY <2>3, <3>3 DEF Directory
    <3>4. CASE r \notin {p} \cup Above(p)
      <4>1. r \in Under[p] => q \in Under[p]
        BY <3>1, TreeAssumption DEF Above
      <4> QED
        BY <2>2, <2>4, <3>1, <3>2, <3>4, <4>1
    <3> QED
      BY <3>3, <3>4
  <2>7. TreeOK'
    BY <2>1, <2>6 DEF TreeOK, Above
  <2>8. \A q \in Paths : Removed(q) => q = p
    BY <1>1, <2>1, <2>2, <2>4 DEF Removed, Reachable
  <2> QED
    BY <2>1, <2>5, <2>7, <2>8
<1>2. CASE ClearFails(p, "dir")
  <2>1. PICK gone \in SUBSET {q \in Under[p] : local[q].kind = "file"} :
          SetLocal(Replaced(local, gone, Missing))
    BY <1>2 DEF ClearFails
  <2>2. local[p].kind # "dir"
    BY <1>2 DEF ClearFails, InTheWay
  <2>3. gone = {}
    <3>1. ASSUME NEW q \in gone PROVE FALSE
      <4>1. q \in Paths /\ p \in Above(q) /\ local[q].kind = "file"
        BY TreeAssumption DEF Above
      <4> QED
        BY <2>2, <4>1 DEF TreeOK
    <3> QED
      BY <3>1
  <2>4. local' = local /\ SetLocal(local')
    BY <2>1, <2>3 DEF SetLocal, Replaced, TypeOK
  <2> QED
    BY <2>4 DEF Rewritten, TreeOK, Removed, Above
<1> QED
  BY <1>1, <1>2 DEF EnsureDirectory

LEMMA EnsureKeeps ==
  ASSUME SyncInv, TypeOK', NEW p \in Paths, EnsureDirectory(p)
  PROVE  SyncInv'
<1> USE DEF SyncInv
<1>1. /\ phase = "directories" /\ listing[p].kind = "dir" /\ new_manifest = NoManifest
      /\ UNCHANGED <<remote, listing, manifest, new_manifest, phase, complete, old, todo>>
      /\ \E outcome \in {"made", "blocked"} : work' = [work EXCEPT ![p] = outcome]
  BY DEF EnsureDirectory, RunOK, drive, run, pruning
<1>2. lost' = lost \/ phase' # "idle"
  BY <1>1
<1>3. RunOK'
  BY <1>1 DEF RunOK, Moving, TypeOK
<1>4. PruneOK'
  BY <1>1 DEF PruneOK
<1>5. \A q \in Paths : Removed(q) => new_manifest[q].kind # "file" /\ listing[q].kind # "file"
  BY <1>1, EnsureTree DEF NoManifest, NoRecord
<1> QED
  BY <1>1, <1>3, <1>4, <1>5, EnsureTree, LocalStep

LEMMA ClearTree ==
  ASSUME SyncInv, NEW p \in Paths, ClearConflict(p)
  PROVE  /\ SetLocal(local') /\ Rewritten(local') /\ TreeOK'
         /\ \A q \in Paths \ ({p} \cup Under[p]) : local'[q] = local[q]
         /\ Removed(p) => p \in Known
<1> USE DEF SyncInv
<1>1. PICK gone \in SUBSET Paths :
        /\ SetLocal(Replaced(local, gone, Missing))
        /\ gone \subseteq {p} \cup Under[p]
        /\ p \in gone => InTheWay(p, Expected(p))
        /\ \A q \in gone :
             local[q].kind = "file" \/ \A r \in Paths : q \in Above(r) => r \in gone
  <2>1. CASE SetLocal(Cleared(p, Expected(p)))
    <3>1. CASE InTheWay(p, Expected(p))
      <4>1. {p} \cup Under[p] \subseteq Paths
        BY TreeAssumption
      <4>2. \A q \in {p} \cup Under[p] : \A r \in Paths : q \in Above(r) => r \in Under[p]
        BY TreeAssumption DEF Above
      <4>3. \A q \in {p} \cup Under[p] : \A r \in Paths :
              q \in Above(r) => r \in {p} \cup Under[p]
        BY <4>2
      <4> QED
        BY <2>1, <3>1, <4>1, <4>3 DEF Cleared
    <3>2. CASE ~InTheWay(p, Expected(p))
      <4>1. Replaced(local, {}, Missing) = local
        BY DEF Replaced, TypeOK
      <4>2. SetLocal(Replaced(local, {}, Missing))
        BY <2>1, <3>2, <4>1 DEF Cleared
      <4> QED
        BY <4>2
    <3> QED
      BY <3>1, <3>2
  <2>2. CASE ClearFails(p, Expected(p))
    <3>1. PICK gone \in SUBSET {q \in Under[p] : local[q].kind = "file"} :
            SetLocal(Replaced(local, gone, Missing))
      BY <2>2 DEF ClearFails
    <3>2. gone \in SUBSET Paths /\ p \notin gone
      BY TreeAssumption
    <3>3. gone \subseteq {p} \cup Under[p] /\ \A q \in gone : local[q].kind = "file"
      OBVIOUS
    <3> QED
      BY <3>1, <3>2, <3>3
  <2> QED
    BY <2>1, <2>2 DEF ClearConflict
<1>2. SetLocal(local') /\ \A q \in Paths : local'[q] = IF q \in gone THEN Missing ELSE local[q]
  BY <1>1 DEF SetLocal, Replaced
<1>3. Rewritten(local')
  BY <1>2 DEF Rewritten, Missing
<1>4. TreeOK'
  <2>1. ASSUME NEW q \in Paths, local'[q].kind = "file", NEW r \in Above(q)
        PROVE  local'[r].kind = "dir"
    <3>1. q \notin gone /\ local[q].kind = "file" /\ r \in Paths
      BY <1>2, <2>1 DEF Missing, Above
    <3>2. local[r].kind = "dir"
      BY <3>1 DEF TreeOK
    <3>3. r \notin gone
      BY <1>1, <3>1, <3>2
    <3> QED
      BY <1>2, <3>1, <3>2, <3>3
  <2> QED
    BY <2>1 DEF TreeOK, Above
<1>5. Removed(p) => p \in Known
  <2>1. Removed(p) => p \in gone /\ local[p].kind = "file"
    BY <1>2 DEF Removed
  <2> QED
    BY <1>1, <2>1 DEF InTheWay, Expected
<1> QED
  BY <1>1, <1>2, <1>3, <1>4, <1>5

(* Nothing is listed, worked on or recorded below an entry on its way.     *)
LEMMA BelowMoving ==
  ASSUME SyncInv, NEW p \in Paths, work[p] \in Moving, NEW q \in Under[p]
  PROVE  q \in Paths /\ listing[q].kind = "none" /\ new_manifest[q].kind # "file"
<1>1. q \in Paths /\ p \in Above(q) /\ listing[p].kind = "file"
  BY TreeAssumption DEF SyncInv, RunOK, Above
<1> QED
  BY <1>1 DEF SyncInv, ListingOK, RunOK

(* ... nor is anything listed as a file that it is in.                     *)
LEMMA AboveMoving ==
  ASSUME SyncInv, NEW p \in Paths, work[p] \in Moving, NEW q \in Above(p)
  PROVE  q \in Paths /\ work[q] \notin Moving
  BY DEF SyncInv, RunOK, ListingOK, Above

(* The work of p goes on; that of others is undisturbed.                   *)
LEMMA TransferRunOK ==
  ASSUME SyncInv, NEW p \in Paths, phase = "transfers", work[p] \in Moving,
         NEW outcome \in Moving, work' = [work EXCEPT ![p] = outcome],
         UNCHANGED <<listing, new_manifest, old, manifest, phase, complete>>,
         \A q \in Paths \ {p} : work[q] \in {"file", "package"} => local'[q] = local[q],
         outcome = "file" =>
           local'[p].kind = "file" /\ listing[p].version <= local'[p].version,
         outcome = "package" => local'[p].kind = "dir"
  PROVE  RunOK'
<1> USE DEF SyncInv
<1>1. \A q \in Paths : work'[q] = IF q = p THEN outcome ELSE work[q]
  BY DEF TypeOK
<1>2. /\ phase' # "idle" => old' \in {manifest', NoManifest}
      /\ phase' = "transfers"
  BY DEF RunOK
<1>3. \A q \in Paths :
       /\ new_manifest'[q].kind = "file" => listing'[q].kind = "file"
       /\ work'[q] = "mkdir" => listing'[q].kind = "dir"
       /\ work'[q] \in Moving =>
            /\ listing'[q].kind = "file"
            /\ new_manifest'[q] = NoRecord
            /\ old'[q].kind = "file" => old'[q].version # listing'[q].version
  BY <1>1 DEF RunOK, Moving
<1>4. \A q \in Paths :
       /\ work'[q] = "file" =>
            local'[q].kind = "file" /\ listing'[q].version <= local'[q].version
       /\ work'[q] = "package" => local'[q].kind = "dir"
  BY <1>1 DEF RunOK
<1> QED
  BY <1>2, <1>3, <1>4 DEF RunOK

LEMMA ClearKeeps ==
  ASSUME SyncInv, TypeOK', NEW p \in Paths, ClearConflict(p)
  PROVE  SyncInv'
<1>1. /\ phase = "transfers" /\ work[p] \in Moving
      /\ UNCHANGED <<remote, listing, manifest, new_manifest, phase, complete, old, todo>>
  BY DEF ClearConflict, Moving, drive, run, pruning
<1>2. PICK outcome \in {"cleared", "failed"} : work' = [work EXCEPT ![p] = outcome]
  BY DEF ClearConflict
<1>3. \A q \in Paths \ {p} : work[q] \in {"file", "package"} => local'[q] = local[q]
  <2>1. \A q \in Paths : work[q] \in {"file", "package"} => listing[q].kind = "file"
    BY DEF SyncInv, RunOK, Moving
  <2> QED
    BY <1>1, <2>1, ClearTree, BelowMoving
<1>4. RunOK'
  BY <1>1, <1>2, <1>3, TransferRunOK DEF Moving
<1>5. PruneOK'
  BY <1>1 DEF PruneOK
<1>6. ASSUME NEW q \in Paths, Removed(q)
      PROVE  new_manifest[q].kind # "file" /\ (listing[q].kind = "file" => q \in Known)
  <2>1. CASE q = p
    <3>1. new_manifest[p] = NoRecord
      BY <1>1 DEF SyncInv, RunOK
    <3> QED
      BY <1>6, <2>1, <3>1, ClearTree DEF NoRecord
  <2>2. CASE q \in Under[p]
    BY <1>1, <2>2, BelowMoving
  <2> QED
    BY <1>6, <2>1, <2>2, ClearTree DEF Removed
<1> QED
  BY <1>1, <1>4, <1>5, <1>6, ClearTree, LocalStep

LEMMA FileTree ==
  ASSUME SyncInv, NEW p \in Paths, DownloadFile(p)
  PROVE  /\ SetLocal(local') /\ Rewritten(local') /\ TreeOK'
         /\ \A q \in Paths \ ({p} \cup Above(p)) : local'[q] = local[q]
         /\ local'[p] = File(remote[p].version)
         /\ \A q \in Above(p) : local'[q] = Directory
         /\ \A q \in Paths : ~Removed(q)
<1> USE DEF SyncInv
<1>1. /\ SetLocal([WithParents(p, local) EXCEPT ![p] = File(remote[p].version)])
      /\ Reachable(p) /\ local[p].kind # "dir"
  BY DEF DownloadFile
<1>2. WithParents(p, local) \in [Paths -> LocalNodes]
  BY NodeTypes, ReplacedTypes DEF WithParents, TypeOK
<1>3. /\ local'[p] = File(remote[p].version)
      /\ \A q \in Above(p) : local'[q] = Directory
      /\ \A q \in Paths \ ({p} \cup Above(p)) : local'[q] = local[q]
      /\ SetLocal(local')
  BY <1>1, <1>2, AboveIsOrdered DEF SetLocal, WithParents, Replaced
<1>4. Rewritten(local')
  BY <1>3 DEF Rewritten, Directory
<1>5. TreeOK'
  <2>1. ASSUME NEW q \in Paths, local'[q].kind = "file", NEW r \in Above(q)
        PROVE  local'[r].kind = "dir"
    <3>1. CASE r \in Above(p)
      BY <1>3, <3>1 DEF Directory
    <3>2. CASE r \notin Above(p)
      <4>1. q # p /\ q \notin Above(p) /\ r \in Paths
        BY <1>3, <2>1, <3>2 DEF Directory, Above
      <4>2. local[q].kind = "file"
        BY <1>3, <2>1, <4>1
      <4>3. local[r].kind = "dir"
        BY <4>1, <4>2 DEF TreeOK
      <4> QED
        BY <1>1, <1>3, <3>2, <4>1, <4>3
    <3> QED
      BY <3>1, <3>2
  <2> QED
    BY <2>1 DEF TreeOK, Above
<1>6. \A q \in Paths : ~Removed(q)
  BY <1>1, <1>3 DEF Removed, Reachable, File
<1> QED
  BY <1>3, <1>4, <1>5, <1>6

LEMMA FileKeeps ==
  ASSUME SyncInv, TypeOK', NEW p \in Paths, DownloadFile(p)
  PROVE  SyncInv'
<1>1. /\ phase = "transfers" /\ work[p] \in Moving /\ work' = [work EXCEPT ![p] = "file"]
      /\ UNCHANGED <<remote, listing, manifest, new_manifest, phase, complete, old, todo>>
  BY DEF DownloadFile, Transferring, Moving, drive, run, pruning
<1>2. \A q \in Paths \ {p} : work[q] \in {"file", "package"} => local'[q] = local[q]
  BY <1>1, FileTree, AboveMoving DEF Moving
<1>3. local'[p].kind = "file" /\ listing[p].version <= local'[p].version
  <2>1. local'[p] = File(remote[p].version) /\ listing[p].version <= remote[p].version
    BY FileTree DEF SyncInv, VersionsOK
  <2> QED
    BY <2>1 DEF File
<1>4. RunOK'
  BY <1>1, <1>2, <1>3, TransferRunOK DEF Moving
<1>5. PruneOK'
  BY <1>1 DEF PruneOK
<1> QED
  BY <1>1, <1>4, <1>5, FileTree, LocalStep

LEMMA WalkTree ==
  ASSUME SyncInv, NEW p \in Paths, DownloadTree(p)
  PROVE  /\ SetLocal(local') /\ Rewritten(local') /\ TreeOK'
         /\ \A q \in Paths \ ({p} \cup Above(p) \cup Under[p]) : local'[q] = local[q]
         /\ local'[p] = Directory
         /\ \A q \in Paths : ~Removed(q)
<1> USE DEF SyncInv
<1>1. PICK unread \in SUBSET (Folders \cap (Under[p] \cup {p})) :
        \E S \in SUBSET Found(p, unread) :
          /\ \A q \in S : Above(q) \cap Under[p] \subseteq S
          /\ \A q \in S : local[q].kind # (IF remote[q].kind = "file" THEN "dir" ELSE "file")
          /\ SetLocal(WithParents(p, WalkedInto(p, S)))
  BY DEF DownloadTree
<1>2. PICK S \in SUBSET Found(p, unread) :
        /\ \A q \in S : Above(q) \cap Under[p] \subseteq S
        /\ \A q \in S : local[q].kind # (IF remote[q].kind = "file" THEN "dir" ELSE "file")
        /\ SetLocal(WithParents(p, WalkedInto(p, S)))
  BY <1>1
<1>3. Reachable(p) /\ local[p].kind # "file"
  BY DEF DownloadTree
<1>4. \A q \in S : q \in Paths /\ q \in Under[p] /\ p \in Above(q) /\ Exists(q)
  BY TreeAssumption DEF Found, Above
<1>5. p \notin Above(p) /\ p \notin S
  BY <1>4, AboveIsOrdered
<1>6. /\ SetLocal(local')
      /\ \A q \in Paths :
           local'[q] = IF q \in Above(p) THEN Directory
                       ELSE IF q \in S /\ remote[q].kind = "file" THEN File(remote[q].version)
                       ELSE IF q = p \/ q \in S THEN Directory
                       ELSE local[q]
  BY <1>2 DEF SetLocal, WithParents, Replaced, WalkedInto
<1>7. Rewritten(local')
  BY <1>6 DEF Rewritten, Directory
<1>8. TreeOK'
  <2>1. ASSUME NEW q \in Paths, local'[q].kind = "file", NEW r \in Above(q)
        PROVE  local'[r].kind = "dir"
    <3>1. r \in Paths /\ q \notin Above(p) /\ q # p
      BY <1>5, <1>6, <2>1 DEF Directory, Above
    <3>2. CASE r \in Above(p) \cup {p}
      BY <1>5, <1>6, <3>1, <3>2 DEF Directory
    <3>3. CASE q \in S /\ r \notin Above(p) \cup {p}
      <4>1. p \in Above(r)
        BY <1>4, <2>1, <3>3, AboveIsOrdered
      <4>2. r \in Under[p]
        BY <3>1, <4>1, UnderIsBelow
      <4>3. r \in S
        BY <1>2, <2>1, <3>3, <4>2
      <4>4. remote[r].kind = "folder"
        BY <1>4, <2>1, <3>3 DEF Exists
      <4> QED
        BY <1>6, <3>1, <3>3, <4>3, <4>4 DEF Directory
    <3>4. CASE q \notin S /\ r \notin Above(p) \cup {p}
      <4>1. local[q].kind = "file"
        BY <1>6, <2>1, <3>1, <3>4
      <4>2. local[r].kind = "dir"
        BY <2>1, <3>1, <4>1 DEF TreeOK
      <4>3. r \in S => remote[r].kind # "file"
        BY <1>2, <4>2
      <4> QED
        BY <1>6, <3>1, <3>4, <4>2, <4>3 DEF Directory
    <3> QED
      BY <3>2, <3>3, <3>4
  <2> QED
    BY <2>1 DEF TreeOK, Above
<1>9. ASSUME NEW q \in Paths, local[q].kind = "file"
      PROVE  local'[q].kind = "file"
  <2>1. q # p /\ q \notin Above(p)
    BY <1>3, <1>9 DEF Reachable
  <2>2. q \in S => remote[q].kind = "file"
    BY <1>2, <1>9
  <2>3. local'[q] = local[q] \/ local'[q] = File(remote[q].version)
    BY <1>6, <2>1, <2>2
  <2> QED
    BY <1>9, <2>3 DEF File
<1> QED
  BY <1>4, <1>5, <1>6, <1>7, <1>8, <1>9 DEF Removed

LEMMA WalkKeeps ==
  ASSUME SyncInv, TypeOK', NEW p \in Paths, DownloadTree(p)
  PROVE  SyncInv'
<1>1. /\ phase = "transfers" /\ work[p] \in Moving
      /\ UNCHANGED <<remote, listing, manifest, new_manifest, phase, complete, old, todo>>
  BY DEF DownloadTree, Transferring, Moving, drive, run, pruning
<1>2. PICK outcome \in {"package", "failed", "queued"} : work' = [work EXCEPT ![p] = outcome]
  BY DEF DownloadTree
<1>3. \A q \in Paths \ {p} : work[q] \in {"file", "package"} => local'[q] = local[q]
  <2>1. \A q \in Paths : work[q] \in {"file", "package"} => listing[q].kind = "file"
    BY DEF SyncInv, RunOK, Moving
  <2>2. \A q \in Paths : work[q] \in {"file", "package"} => work[q] \in Moving
    BY DEF Moving
  <2> QED
    BY <1>1, <2>1, <2>2, WalkTree, AboveMoving, BelowMoving
<1>4. RunOK'
  <2>1. local'[p].kind = "dir"
    BY WalkTree DEF Directory
  <2>2. outcome \in Moving /\ outcome # "file"
    BY DEF Moving
  <2> QED
    BY <1>1, <1>2, <1>3, <2>1, <2>2, TransferRunOK
<1>5. PruneOK'
  BY <1>1 DEF PruneOK
<1> QED
  BY <1>1, <1>4, <1>5, WalkTree, LocalStep

LEMMA AttemptKeeps ==
  ASSUME SyncInv, TypeOK', NEW p \in Paths,
         ReconcilePackage(p) \/ FailTransfer(p) \/ RetryTransfer(p)
  PROVE  SyncInv'
<1> USE DEF SyncInv
<1>1. /\ phase = "transfers" /\ work[p] \in Moving
      /\ UNCHANGED <<remote, local, lost, unsaved_loss>>
      /\ UNCHANGED <<listing, manifest, new_manifest, phase, complete, old, todo>>
  BY DEF ReconcilePackage, FailTransfer, RetryTransfer, Transferring, Moving, drive, output,
     run, pruning
<1>2. PICK outcome \in {"package", "failed", "queued"} :
        /\ work' = [work EXCEPT ![p] = outcome]
        /\ outcome = "package" => local[p].kind = "dir"
  BY DEF ReconcilePackage, FailTransfer, RetryTransfer
<1>3. RunOK'
  <2>1. outcome \in Moving /\ outcome # "file"
    BY DEF Moving
  <2>2. \A q \in Paths \ {p} : work[q] \in {"file", "package"} => local'[q] = local[q]
    BY <1>1
  <2>3. outcome = "package" => local'[p].kind = "dir"
    BY <1>1, <1>2
  <2> QED
    BY <1>1, <1>2, <2>1, <2>2, <2>3, TransferRunOK
<1>4. TreeOK' /\ VersionsOK' /\ ListingOK' /\ LossOK' /\ PruneOK'
  BY <1>1 DEF TreeOK, VersionsOK, ListingOK, LossOK, PruneOK, Above
<1>5. ListedVersionOK' /\ ListedLossOK'
  BY <1>1 DEF ListedVersionOK, ListedLossOK
<1>6. RecordsOK(manifest)' /\ RecordsOK(new_manifest)' /\ LossRecordsOK'
  BY <1>1 DEF RecordsOK, LossRecordsOK, Overtaken
<1> QED
  BY <1>3, <1>4, <1>5, <1>6

---------------------------------------------------------------------------
(* The invariant is kept: plan, results, delete phase                      *)

LEMMA RecordFields ==
  \A kind, p : RecordAs(kind, p).kind = kind /\ RecordAs(kind, p).version = listing[p].version
  BY DEF RecordAs

LEMMA PlanKeeps ==
  ASSUME SyncInv, TypeOK', PlanTransfers
  PROVE  SyncInv'
<1> USE DEF SyncInv
<1>1. /\ phase = "directories" /\ phase' = "transfers"
      /\ UNCHANGED <<remote, local, lost, unsaved_loss, listing, complete, old, todo, manifest>>
      /\ \A p \in Paths : work[p] # "mkdir"
      /\ old \in {manifest, NoManifest}
  BY DEF PlanTransfers, RunOK, drive, output, run, pruning
<1>2. \A p \in Paths :
        /\ work'[p] = IF p \notin ListedAs("file") THEN work[p]
                      ELSE IF MustTransfer(p) THEN "queued" ELSE "skipped"
        /\ p \notin ListedAs("file") \/ MustTransfer(p) => new_manifest'[p] = NoRecord
        /\ p \in ListedAs("file") /\ ~MustTransfer(p) =>
             new_manifest'[p] =
               RecordAs(IF old[p].kind = "package" THEN "package" ELSE "file", p)
  BY DEF PlanTransfers
<1>3. \A p \in Paths : p \in ListedAs("file") <=> listing[p].kind = "file"
  BY DEF ListedAs
<1>4. ASSUME NEW p \in Paths, new_manifest'[p].kind = "file"
      PROVE  /\ listing[p].kind = "file" /\ new_manifest'[p].version = listing[p].version
             /\ \/ manifest[p].kind = "file" /\ manifest[p].version = listing[p].version
                \/ local[p].kind = "file" /\ listing[p].version <= local[p].version
  <2>0. p \in ListedAs("file") /\ ~MustTransfer(p)
    BY <1>2, <1>4 DEF NoRecord
  <2>1. listing[p].kind = "file" /\ ~MustTransfer(p) /\ old[p].kind # "package"
    BY <1>2, <1>3, <1>4, <2>0, RecordFields
  <2>2. new_manifest'[p].version = listing[p].version
    BY <1>2, <2>0, RecordFields
  <2>3. CASE ~needs_transfer(p)
    BY <1>1, <2>1, <2>2, <2>3 DEF needs_transfer, NoManifest, NoRecord
  <2>4. CASE needs_transfer(p)
    BY <2>1, <2>2, <2>4 DEF MustTransfer, Aligned, VersionsOK
  <2> QED
    BY <2>1, <2>2, <2>3, <2>4
<1>5. RunOK'
  <2>1. ASSUME NEW p \in Paths, work'[p] \in Moving
        PROVE  /\ work'[p] = "queued" /\ listing[p].kind = "file"
               /\ new_manifest'[p] = NoRecord
               /\ old[p].kind = "file" => old[p].version # listing[p].version
    <3>1. work[p] \notin Moving
      BY <1>1 DEF RunOK
    <3>2. work'[p] = "queued" /\ p \in ListedAs("file") /\ MustTransfer(p)
      BY <1>2, <2>1, <3>1 DEF Moving
    <3> QED
      BY <1>2, <1>3, <3>2 DEF MustTransfer, needs_transfer
  <2>2. \A p \in Paths : work'[p] # "mkdir" /\ work'[p] \notin {"file", "package"}
    BY <1>1, <1>2, <2>1 DEF Moving
  <2> QED
    BY <1>1, <1>4, <2>1, <2>2 DEF RunOK
<1>6. VersionsOK'
  <2>1. ASSUME NEW p \in Paths PROVE new_manifest'[p].version <= remote[p].version
    <3>1. new_manifest'[p].version \in {0, listing[p].version}
      BY <1>2, RecordFields DEF NoRecord
    <3> QED
      BY <3>1, VersionTypes DEF VersionsOK
  <2> QED
    BY <1>1, <2>1 DEF VersionsOK
<1>7. TreeOK' /\ ListingOK' /\ LossOK' /\ PruneOK' /\ ListedVersionOK' /\ RecordsOK(manifest)'
  BY <1>1 DEF TreeOK, ListingOK, LossOK, PruneOK, ListedVersionOK, RecordsOK, Overtaken, Above
<1>8. \A p \in lost : listing[p].kind # "file"
  BY <1>1 DEF ListedLossOK
<1>9. ListedLossOK' /\ LossRecordsOK'
  BY <1>1, <1>4, <1>8 DEF ListedLossOK, LossRecordsOK, Plain
<1>10. RecordsOK(new_manifest)'
  BY <1>1, <1>4 DEF RecordsOK, Overtaken, Plain
<1> QED
  BY <1>5, <1>6, <1>7, <1>9, <1>10

LEMMA SuccessKeeps ==
  ASSUME SyncInv, TypeOK', NEW p \in Paths, RecordSuccess(p)
  PROVE  SyncInv'
<1> USE DEF SyncInv
<1>1. /\ phase = "transfers" /\ work[p] \in {"file", "package"} /\ work[p] \in Moving
      /\ listing[p].kind = "file"
      /\ UNCHANGED <<remote, lost, unsaved_loss, listing, complete, old, todo, manifest, phase>>
  BY DEF RecordSuccess, RunOK, Moving, drive, run, pruning
<1>2. \A q \in Paths : work'[q] = IF q = p THEN "done" ELSE work[q]
  BY DEF RecordSuccess, TypeOK
<1>3. \A q \in Paths :
        new_manifest'[q] = IF q = p THEN [kind |-> work[p], version |-> listing[p].version]
                           ELSE new_manifest[q]
  BY DEF RecordSuccess, RecordAs, TypeOK
<1>4. \A q \in Paths : q # p => local'[q] = local[q]
  BY DEF RecordSuccess, Stamped, TypeOK
<1>5. \/ local' = local
      \/ local'[p] = [local[p] EXCEPT
                        !.mtime = IF local[p].kind = "file" THEN listing[p].version ELSE 0]
  BY DEF RecordSuccess, Stamped, TypeOK
<1>6. local[p] \in LocalNodes
  BY DEF TypeOK
<1>7. local'[p].kind = local[p].kind /\ local'[p].version = local[p].version
  BY <1>5, <1>6 DEF LocalNodes
<1>8. \A q \in Paths : local'[q].kind = local[q].kind /\ local'[q].version = local[q].version
  BY <1>4, <1>7
<1>9. local[p].kind = "file" =>
        work[p] = "file" /\ listing[p].version <= local[p].version /\ p \notin lost
  BY <1>1 DEF RunOK, LossOK
<1>10. work[p] = "file" => local[p].kind = "file"
  BY DEF RunOK
<1>11. VersionsOK'
  <2>1. ASSUME local[p].kind = "file"
        PROVE  local'[p].mtime <= local'[p].version
    <3>1. local'[p].mtime = listing[p].version \/ local'[p] = local[p]
      BY <1>5, <1>6, <2>1 DEF LocalNodes
    <3> QED
      BY <1>7, <1>9, <2>1, <3>1 DEF VersionsOK
  <2>2. \A q \in Paths : new_manifest'[q].version <= remote[q].version
    BY <1>3 DEF VersionsOK
  <2> QED
    BY <1>1, <1>4, <1>8, <2>1, <2>2 DEF VersionsOK
<1>12. RunOK'
  BY <1>1, <1>2, <1>3, <1>8 DEF RunOK, Moving
<1>13. TreeOK' /\ ListingOK' /\ LossOK' /\ PruneOK'
  <2>1. TreeOK'
    BY <1>8 DEF TreeOK, Above
  <2>2. LossOK'
    BY <1>1, <1>8 DEF LossOK, TypeOK
  <2>3. ListingOK' /\ PruneOK'
    BY <1>1 DEF ListingOK, PruneOK, Above
  <2> QED
    BY <2>1, <2>2, <2>3
<1>14. ListedVersionOK' /\ ListedLossOK'
  BY <1>1 DEF ListedVersionOK, ListedLossOK
<1>15. RecordsOK(manifest)'
  BY <1>1, <1>8 DEF RecordsOK, Overtaken, Plain
<1>16. RecordsOK(new_manifest)'
  BY <1>1, <1>3, <1>8, <1>9, <1>10 DEF RecordsOK, Overtaken, Plain
<1>17. LossRecordsOK'
  BY <1>1, <1>3, <1>9, <1>10 DEF LossRecordsOK, Overtaken, Plain
<1> QED
  BY <1>11, <1>12, <1>13, <1>14, <1>15, <1>16, <1>17

LEMMA FailureKeeps ==
  ASSUME SyncInv, TypeOK', NEW p \in Paths, RecordFailure(p)
  PROVE  SyncInv'
<1> USE DEF SyncInv
<1>1. /\ phase = "transfers" /\ work[p] = "failed" /\ work[p] \in Moving
      /\ listing[p].kind = "file"
      /\ UNCHANGED <<remote, local, lost, unsaved_loss, listing, complete, old, todo>>
      /\ UNCHANGED <<manifest, phase>>
  BY DEF RecordFailure, RunOK, Moving, drive, output, run, pruning
<1>2. \A q \in Paths : /\ work'[q] = IF q = p THEN "kept" ELSE work[q]
                       /\ new_manifest'[q] = IF q = p THEN old[p] ELSE new_manifest[q]
  BY DEF RecordFailure, TypeOK
<1>3. old[p] = manifest[p] \/ old[p] = NoRecord
  BY <1>1 DEF RunOK, NoManifest
<1>4. old[p].kind = "file" => old[p] = manifest[p] /\ manifest[p].version # listing[p].version
  BY <1>1, <1>3 DEF RunOK, NoRecord
<1>5. VersionsOK'
  <2>1. old[p].version <= remote[p].version
    BY <1>3, VersionTypes DEF VersionsOK, NoRecord
  <2> QED
    BY <1>1, <1>2, <2>1 DEF VersionsOK
<1>6. RunOK'
  BY <1>1, <1>2 DEF RunOK, Moving
<1>7. TreeOK' /\ ListingOK' /\ LossOK' /\ PruneOK'
  BY <1>1 DEF TreeOK, ListingOK, LossOK, PruneOK, Above
<1>8. ListedVersionOK' /\ ListedLossOK' /\ RecordsOK(manifest)'
  BY <1>1 DEF ListedVersionOK, ListedLossOK, RecordsOK, Overtaken
<1>9. RecordsOK(new_manifest)'
  BY <1>1, <1>2, <1>4 DEF RecordsOK, Overtaken, Plain
<1>10. ASSUME p \in Plain \cap lost, old[p].kind = "file"
       PROVE  old[p].version < remote[p].version
  <2>1. p \in Paths \ Untyped
    BY <1>1, <1>10 DEF Plain, ListedLossOK
  <2>2. manifest[p].version <= listing[p].version
    BY <1>1, <2>1 DEF ListedVersionOK
  <2> QED
    BY <1>4, <1>10, <2>2, VersionTypes DEF VersionsOK
<1>11. LossRecordsOK'
  BY <1>1, <1>2, <1>10 DEF LossRecordsOK, Overtaken, Plain
<1> QED
  BY <1>5, <1>6, <1>7, <1>8, <1>9, <1>11

LEMMA FinishTransfersKeeps ==
  ASSUME SyncInv, TypeOK', FinishTransfers
  PROVE  SyncInv'
<1> USE DEF SyncInv
<1>1. /\ phase = "transfers" /\ phase' \in {"prune_files", "saving"}
      /\ phase' = "prune_files" => complete
      /\ \A p \in todo' : phase' = "prune_files" /\ p \in Unprotected("file")
      /\ \A p \in Paths : work[p] \notin Moving
      /\ UNCHANGED <<remote, local, lost, unsaved_loss, listing, complete, old, manifest, work>>
  BY DEF FinishTransfers, Moving, drive, output, run
<1>2. \A p \in Paths :
        \/ new_manifest'[p] = new_manifest[p]
        \/ new_manifest'[p] = RecordAs("dir", p)
  BY DEF FinishTransfers
<1>3. \A p \in Paths : /\ new_manifest'[p].kind = "file" => new_manifest'[p] = new_manifest[p]
                       /\ new_manifest'[p].version <= remote[p].version
  BY <1>2, RecordFields DEF VersionsOK
<1>4. VersionsOK'
  BY <1>1, <1>3 DEF VersionsOK
<1>5. RunOK'
  BY <1>1, <1>3 DEF RunOK, Moving
<1>6. PruneOK'
  BY <1>1 DEF PruneOK, Unprotected, Protected, ListedAs
<1>7. TreeOK' /\ ListingOK' /\ LossOK'
  BY <1>1 DEF TreeOK, ListingOK, LossOK, Above
<1>8. ListedVersionOK' /\ ListedLossOK' /\ RecordsOK(manifest)'
  BY <1>1 DEF ListedVersionOK, ListedLossOK, RecordsOK, Overtaken
<1>9. RecordsOK(new_manifest)' /\ LossRecordsOK'
  BY <1>1, <1>3 DEF RecordsOK, LossRecordsOK, Overtaken, Plain
<1> QED
  BY <1>4, <1>5, <1>6, <1>7, <1>8, <1>9

LEMMA FinishKeeps ==
  ASSUME SyncInv, TypeOK', FinishFiles \/ FinishDirectories
  PROVE  SyncInv'
<1> USE DEF SyncInv
<1>1. /\ phase \in {"prune_files", "prune_dirs"} /\ phase' \in {"prune_dirs", "saving"}
      /\ \A p \in todo' : phase' = "prune_dirs" /\ local[p].kind = "dir"
      /\ UNCHANGED <<remote, local, lost, unsaved_loss, listing, complete, old, manifest, work>>
      /\ UNCHANGED new_manifest
  BY DEF FinishFiles, FinishDirectories, Unprotected, drive, output, run, pruning
<1>2. RunOK'
  BY <1>1 DEF RunOK, Moving
<1>3. TreeOK' /\ VersionsOK' /\ ListingOK' /\ LossOK' /\ PruneOK'
  BY <1>1 DEF TreeOK, VersionsOK, ListingOK, LossOK, PruneOK, Above
<1>4. ListedVersionOK' /\ ListedLossOK'
  BY <1>1 DEF ListedVersionOK, ListedLossOK
<1>5. RecordsOK(manifest)' /\ RecordsOK(new_manifest)' /\ LossRecordsOK'
  BY <1>1 DEF RecordsOK, LossRecordsOK, Overtaken
<1> QED
  BY <1>2, <1>3, <1>4, <1>5

(* One path is removed, or nothing is.                                     *)
LEMMA PruneTree ==
  ASSUME SyncInv, NEW p \in Paths, PruneFile(p) \/ PruneDirectory(p)
  PROVE  \/ UNCHANGED output
         \/ /\ SetLocal(local') /\ Rewritten(local') /\ TreeOK'
            /\ local'[p] = Missing
            /\ \A q \in Paths \ {p} : local'[q] = local[q]
<1> USE DEF SyncInv
<1>1. SUFFICES ASSUME SetLocal([local EXCEPT ![p] = Missing]),
                      PruneDirectory(p) => \A q \in Under[p] : local[q].kind = "none"
               PROVE  /\ SetLocal(local') /\ Rewritten(local') /\ TreeOK'
                      /\ local'[p] = Missing
                      /\ \A q \in Paths \ {p} : local'[q] = local[q]
  BY DEF PruneFile, PruneDirectory
<1>2. SetLocal(local') /\ \A q \in Paths : local'[q] = IF q = p THEN Missing ELSE local[q]
  BY <1>1 DEF SetLocal, TypeOK
<1>3. Rewritten(local')
  BY <1>2 DEF Rewritten, Missing
<1>4. ASSUME NEW q \in Paths, local'[q].kind = "file", NEW r \in Above(q)
      PROVE  local'[r].kind = "dir"
  <2>1. q # p /\ local[q].kind = "file" /\ r \in Paths
    BY <1>2, <1>4 DEF Missing, Above
  <2>2. local[r].kind = "dir"
    BY <1>4, <2>1 DEF TreeOK
  <2>3. r # p
    <3>1. CASE PruneFile(p)
      BY <2>2, <3>1 DEF PruneFile, PruneOK
    <3>2. CASE PruneDirectory(p)
      BY <1>1, <1>4, <2>1, <3>2, UnderIsBelow
    <3> QED
      BY <3>1, <3>2
  <2> QED
    BY <1>2, <2>1, <2>2, <2>3
<1> QED
  BY <1>2, <1>3, <1>4 DEF TreeOK, Above

LEMMA PruneKeeps ==
  ASSUME SyncInv, TypeOK', NEW p \in Paths, PruneFile(p) \/ PruneDirectory(p)
  PROVE  SyncInv'
<1> USE DEF SyncInv
<1>1. /\ phase \in {"prune_files", "prune_dirs"} /\ p \in todo /\ todo' = todo \ {p}
      /\ UNCHANGED <<remote, listing, complete, old, manifest, new_manifest, work, phase>>
  BY DEF PruneFile, PruneDirectory, drive, run
<1>2. RunOK'
  BY <1>1 DEF RunOK, Moving
<1>3. CASE UNCHANGED output
  <2>1. TreeOK' /\ VersionsOK' /\ ListingOK' /\ LossOK' /\ PruneOK'
    BY <1>1, <1>3 DEF TreeOK, VersionsOK, ListingOK, LossOK, PruneOK, Above, output
  <2>2. ListedVersionOK' /\ ListedLossOK'
    BY <1>1, <1>3 DEF ListedVersionOK, ListedLossOK, output
  <2>3. RecordsOK(manifest)' /\ RecordsOK(new_manifest)' /\ LossRecordsOK'
    BY <1>1, <1>3 DEF RecordsOK, LossRecordsOK, Overtaken, output
  <2> QED
    BY <1>2, <2>1, <2>2, <2>3
<1>4. CASE /\ SetLocal(local') /\ Rewritten(local') /\ TreeOK'
           /\ local'[p] = Missing
           /\ \A q \in Paths \ {p} : local'[q] = local[q]
  <2>1. PruneOK'
    BY <1>1, <1>4 DEF PruneOK, TypeOK
  <2>2. ASSUME NEW q \in Paths, Removed(q)
        PROVE  new_manifest[q].kind # "file" /\ listing[q].kind # "file"
    <3>1. q = p /\ local[p].kind = "file"
      BY <1>4, <2>2 DEF Removed
    <3>2. listing[p].kind # "file"
      BY <1>1, <3>1 DEF PruneOK
    <3> QED
      BY <3>1, <3>2 DEF RunOK
  <2> QED
    BY <1>1, <1>2, <1>4, <2>1, <2>2, LocalStep
<1> QED
  BY <1>3, <1>4, PruneTree

---------------------------------------------------------------------------
(* The theorems                                                            *)

LEMMA InvStep ==
  ASSUME SyncInv, [Next]_vars
  PROVE  SyncInv'
<1>1. TypeOK'
  BY TypeStep DEF SyncInv
<1>2. CASE Drive
  BY <1>1, <1>2, ChangeKeeps DEF Drive
<1>3. CASE BeginRun \/ SaveManifest \/ EndUnsaved \/ Crash
  BY <1>1, <1>3, BeginKeeps, SaveKeeps, UnsavedKeeps
<1>4. ASSUME NEW p \in Paths, EnsureDirectory(p) \/ ClearConflict(p) \/ DownloadFile(p)
               \/ DownloadTree(p)
      PROVE  SyncInv'
  BY <1>1, <1>4, EnsureKeeps, ClearKeeps, FileKeeps, WalkKeeps
<1>5. ASSUME NEW p \in Paths, ReconcilePackage(p) \/ FailTransfer(p) \/ RetryTransfer(p)
      PROVE  SyncInv'
  BY <1>1, <1>5, AttemptKeeps
<1>6. ASSUME NEW p \in Paths, RecordSuccess(p) \/ RecordFailure(p)
      PROVE  SyncInv'
  BY <1>1, <1>6, SuccessKeeps, FailureKeeps
<1>7. CASE PlanTransfers \/ FinishTransfers
  BY <1>1, <1>7, PlanKeeps, FinishTransfersKeeps
<1>8. CASE Prune
  BY <1>1, <1>8, PruneKeeps, FinishKeeps DEF Prune
<1>9. CASE UNCHANGED vars
  <2>1. /\ \A p \in Paths : remote[p].version <= remote'[p].version
        /\ UNCHANGED <<output, run, pruning, manifest, phase, new_manifest, work>>
    BY <1>9, VersionTypes DEF vars, drive, SyncInv
  <2> QED
    BY <1>1, <2>1, DriveKeeps
<1> QED
  BY <1>2, <1>3, <1>4, <1>5, <1>6, <1>7, <1>8, <1>9 DEF Next, Run, Transfer

LEMMA InvAlways == Spec => []SyncInv
  BY InvInit, InvStep, PTL DEF Spec

(* What the manifest would let a run skip is in place, in the drive's      *)
(* version, whatever crashed, failed or changed before.                    *)
THEOREM SkippingIsSafe == Spec => []SkipIsSafe
<1>1. SyncInv => SkipIsSafe
  <2> SUFFICES ASSUME SyncInv, NEW p \in Plain \ (lost \cup unsaved_loss),
                      manifest[p].kind = "file", manifest[p].version = remote[p].version
               PROVE  local[p].kind = "file" /\ local[p].version = remote[p].version
    BY DEF SkipIsSafe, Plain
  <2>1. p \in Paths /\ ~Overtaken(manifest[p], p)
    BY VersionTypes DEF SyncInv, Plain, Overtaken
  <2>2. local[p].kind = "file" /\ manifest[p].version <= local[p].version
    BY <2>1 DEF SyncInv, RecordsOK
  <2> QED
    BY <2>1, <2>2, VersionTypes DEF SyncInv, VersionsOK
<1> QED
  BY <1>1, InvAlways, PTL

LEMMA KeepsStep ==
  ASSUME SyncInv, SyncInv', [Next]_vars, phase # "idle", ~complete,
         NEW p \in Paths, Removed(p)
  PROVE  \/ p \in ListedAs("dir")
         \/ p \in ListedAs("file") \cap Known
         \/ Above(p) \cap ListedAs("file") # {}
<1>1. ~UNCHANGED local
  BY DEF Removed
<1>2. ASSUME NEW q \in Paths, EnsureDirectory(q)
      PROVE  p \in ListedAs("dir")
  <2>1. p = q
    BY <1>2, EnsureTree
  <2>2. listing[q].kind = "dir"
    BY <1>2 DEF EnsureDirectory, SyncInv, RunOK
  <2> QED
    BY <2>1, <2>2 DEF ListedAs
<1>3. ASSUME NEW q \in Paths, ClearConflict(q)
      PROVE  p \in ListedAs("file") \cap Known \/ q \in Above(p) \cap ListedAs("file")
  <2>1. q \in ListedAs("file")
    BY <1>3 DEF ClearConflict, SyncInv, RunOK, Moving, ListedAs
  <2>2. p = q \/ p \in Under[q]
    BY <1>3, ClearTree DEF Removed
  <2> QED
    BY <1>3, <2>1, <2>2, ClearTree, UnderIsBelow
<1>4. ASSUME NEW q \in Paths, DownloadFile(q) \/ DownloadTree(q)
      PROVE  FALSE
  BY <1>4, FileTree, WalkTree
<1>5. ASSUME NEW q \in Paths, RecordSuccess(q)
      PROVE  FALSE
  <2>1. local'[p].kind = local[p].kind
    <3>1. local[q] \in LocalNodes
      BY DEF SyncInv, TypeOK
    <3>2. local'[p] = local[p] \/ \E t : local'[p] = [local[p] EXCEPT !.mtime = t] /\ p = q
      BY <1>5 DEF RecordSuccess, Stamped, SyncInv, TypeOK
    <3> QED
      BY <3>1, <3>2 DEF LocalNodes
  <2> QED
    BY <2>1 DEF Removed
<1>6. ASSUME NEW q \in Paths, PruneFile(q) \/ PruneDirectory(q)
      PROVE  FALSE
  BY <1>6 DEF PruneFile, PruneDirectory, SyncInv, RunOK
<1>7. CASE UNCHANGED local
  BY <1>1, <1>7
<1>8. CASE Drive \/ BeginRun \/ PlanTransfers \/ FinishTransfers \/ FinishFiles
           \/ FinishDirectories \/ SaveManifest \/ EndUnsaved \/ Crash
  BY <1>7, <1>8 DEF Drive, Change, Edit, BeginRun, PlanTransfers, FinishTransfers,
     FinishFiles, FinishDirectories, SaveManifest, EndUnsaved, Crash, output
<1>9. ASSUME NEW q \in Paths, ReconcilePackage(q) \/ FailTransfer(q) \/ RetryTransfer(q)
               \/ RecordFailure(q)
      PROVE  FALSE
  BY <1>1, <1>9 DEF ReconcilePackage, FailTransfer, RetryTransfer, RecordFailure, output
<1> QED
  BY <1>2, <1>3, <1>4, <1>5, <1>6, <1>7, <1>8, <1>9
  DEF Next, Run, Transfer, Prune, vars, output

(* A run by an incomplete listing removes no file that is merely absent    *)
(* from it.                                                                *)
THEOREM IncompleteKeeps == Spec => IncompleteRunsKeep
<1>1. SyncInv /\ SyncInv' /\ [Next]_vars =>
        [phase # "idle" /\ ~complete =>
           \A p \in Paths : local[p].kind = "file" /\ local'[p].kind # "file" =>
             \/ p \in ListedAs("dir")
             \/ p \in ListedAs("file") \cap Known
             \/ Above(p) \cap ListedAs("file") # {}]_vars
  BY KeepsStep DEF Removed
<1> QED
  BY <1>1, InvAlways, PTL DEF Spec, IncompleteRunsKeep

---------------------------------------------------------------------------
(* A clean run                                                             *)

(* The local file is the one in the drive, or the folder of a package.     *)
GoodFile(p) ==
  \/ local[p].kind = "file" /\ local[p].version = remote[p].version
  \/ p \in Known /\ local[p].kind = "dir"

(* A listed directory is made, and so is every one above it.               *)
MadeOK(p) ==
  listing[p].kind = "dir" =>
    /\ work[p] \in {"mkdir", "made"}
    /\ phase # "directories" => work[p] = "made"
    /\ work[p] = "made" => \A q \in {p} \cup Above(p) : local[q].kind = "dir"

(* A listed file is on its way, or in place, or skipped on trust.          *)
DoneOK(p) ==
  listing[p].kind = "file" /\ phase # "directories" =>
    /\ work[p] \in Moving \cup {"skipped", "done"}
    /\ work[p] = "cleared" => local[p].kind \in {"none", Expected(p)}
    /\ work[p] = "package" => p \in Known /\ local[p].kind = "dir"
    /\ work[p] \in {"file", "done"} => GoodFile(p)
    /\ work[p] = "skipped" => TakenOnTrust(p) \/ GoodFile(p)

(* What a complete listing lacks, and no package holds.                    *)
Stray(p) == listing[p].kind = "none" /\ Above(p) \cap PackageRoots = {}

(* What is stray is taken up by the phase that removes it, and then gone.  *)
StrayOK(p) ==
  Stray(p) =>
    /\ phase = "prune_files" /\ local[p].kind = "file" => p \in todo
    /\ phase = "prune_dirs" => local[p].kind # "file" /\ (local[p].kind = "dir" => p \in todo)
    /\ phase = "saving" /\ DeleteRemoved /\ complete => local[p].kind = "none"

(* As long as a run is clean, each entry of the listing is as far as the   *)
(* phase says.                                                             *)
MirrorInv ==
  /\ phase = "directories" => \A p \in Paths : listing[p].kind # "dir" => work[p] = "none"
  /\ phase # "idle" /\ Clean =>
       /\ \A p \in Paths : MadeOK(p) /\ DoneOK(p) /\ StrayOK(p)
       /\ phase = "prune_dirs" => todo \cap (ListedAs("dir") \cup PackageRoots) = {}

(* A full listing: files with the version of the drive, in listed folders  *)
(* only.                                                                   *)
LEMMA FullFacts ==
  ASSUME listing = Full, NEW p \in Paths
  PROVE  /\ listing[p].kind \in {"none", "file", "dir"}
         /\ listing[p].kind = "file" => /\ remote[p].kind = "file"
                                        /\ listing[p].version = remote[p].version
         /\ listing[p].kind # "none" => \A q \in Above(p) : listing[q].kind = "dir"
         /\ listing[p].kind # "dir" => \A q \in Under[p] : listing[q].kind = "none"
<1>1. ASSUME NEW q \in Paths
      PROVE  /\ ~Exists(q) => listing[q].kind = "none"
             /\ Exists(q) /\ remote[q].kind = "file" =>
                  listing[q].kind = "file" /\ listing[q].version = remote[q].version
             /\ Exists(q) /\ remote[q].kind # "file" => listing[q].kind = "dir"
  <2>1. listing[q] = IF ~Exists(q) \/ q \in {} \/ Above(q) \cap ({} \cup {}) # {} THEN NoEntry
                     ELSE IF remote[q].kind = "file"
                     THEN [kind |-> "file", version |-> remote[q].version]
                     ELSE [kind |-> IF q \in {} THEN "file" ELSE "dir", version |-> 0]
    BY DEF Full, Listing
  <2>2. CASE ~Exists(q)
    BY <2>1, <2>2 DEF NoEntry
  <2>3. CASE Exists(q)
    BY <2>1, <2>3
  <2> QED
    BY <2>2, <2>3
<1>2. ASSUME NEW q \in Paths, Exists(q), NEW r \in Above(q)
      PROVE  r \in Paths /\ listing[r].kind = "dir"
  <2>1. r \in Paths /\ remote[r].kind = "folder" /\ Exists(r)
    BY <1>2, AboveIsOrdered DEF Exists
  <2> QED
    BY <1>1, <2>1
<1>3. ASSUME NEW q \in Paths
      PROVE  listing[q].kind # "none" <=> Exists(q)
  BY <1>1
<1>4. ASSUME listing[p].kind # "dir", NEW q \in Under[p]
      PROVE  listing[q].kind = "none"
  <2>1. q \in Paths /\ p \in Above(q)
    BY TreeAssumption DEF Above
  <2> QED
    BY <1>2, <1>3, <1>4, <2>1
<1>5. /\ listing[p].kind \in {"none", "file", "dir"}
      /\ listing[p].kind = "file" => /\ remote[p].kind = "file"
                                     /\ listing[p].version = remote[p].version
  BY <1>1
<1> QED
  BY <1>2, <1>3, <1>4, <1>5

(* What a run that is clean so far was clean before.                       *)
LEMMA CleanBefore ==
  ASSUME SyncInv, MirrorInv, Next, phase # "idle", phase' # "idle", Clean'
  PROVE  /\ Clean /\ UNCHANGED <<remote, listing, old, manifest>>
         /\ \A p \in Paths : MadeOK(p) /\ DoneOK(p) /\ StrayOK(p)
         /\ phase = "prune_dirs" => todo \cap (ListedAs("dir") \cup PackageRoots) = {}
<1>1. steady' /\ listing' = Full' /\ prune_failed' = FALSE
      /\ \A p \in Paths : work'[p] \notin {"kept", "blocked"}
  BY DEF Clean
<1>2. \A p \in Paths : ~Change(p) /\ ~Edit(p)
  BY <1>1 DEF Change, Edit
<1>3. ~BeginRun /\ ~SaveManifest /\ ~EndUnsaved /\ ~Crash
  BY DEF BeginRun, SaveManifest, EndUnsaved, Crash, Forget
<1>4. ASSUME NEW p \in Paths, EnsureDirectory(p)
      PROVE  /\ UNCHANGED <<remote, listing, old, manifest, steady, prune_failed>>
             /\ \A q \in Paths : work[q] \in {"kept", "blocked"} => work'[q] = work[q]
  BY <1>4 DEF EnsureDirectory, drive, run, pruning, SyncInv, TypeOK
<1>5. ASSUME NEW p \in Paths, Transfer(p)
      PROVE  /\ UNCHANGED <<remote, listing, old, manifest, steady, prune_failed>>
             /\ \A q \in Paths : work[q] \in {"kept", "blocked"} => work'[q] = work[q]
  <2>1. PICK outcome : work' = [work EXCEPT ![p] = outcome]
    BY <1>5 DEF Transfer, ClearConflict, DownloadFile, DownloadTree, ReconcilePackage,
       FailTransfer, RetryTransfer, RecordSuccess, RecordFailure
  <2>2. work[p] \notin {"kept", "blocked"}
    BY <1>5 DEF Transfer, ClearConflict, DownloadFile, DownloadTree, ReconcilePackage,
       FailTransfer, RetryTransfer, RecordSuccess, RecordFailure, Transferring
  <2>3. UNCHANGED <<remote, listing, old, manifest, steady, prune_failed>>
    BY <1>5 DEF Transfer, ClearConflict, DownloadFile, DownloadTree, ReconcilePackage,
       FailTransfer, RetryTransfer, RecordSuccess, RecordFailure, drive, run, pruning
  <2> QED
    BY <2>1, <2>2, <2>3 DEF SyncInv, TypeOK
<1>6. ASSUME PlanTransfers
      PROVE  /\ UNCHANGED <<remote, listing, old, manifest, steady, prune_failed>>
             /\ \A q \in Paths : work[q] \in {"kept", "blocked"} => work'[q] = work[q]
  <2>1. \A q \in Paths : listing[q].kind = "file" => work[q] = "none"
    BY <1>6 DEF PlanTransfers, MirrorInv
  <2>2. \A q \in Paths : q \notin ListedAs("file") => work'[q] = work[q]
    BY <1>6 DEF PlanTransfers
  <2> QED
    BY <1>6, <2>1, <2>2 DEF PlanTransfers, drive, run, pruning, ListedAs
<1>7. ASSUME FinishTransfers \/ Prune
      PROVE  /\ UNCHANGED <<remote, listing, old, manifest, steady, work>>
             /\ prune_failed' \in {prune_failed, TRUE}
  <2>1. UNCHANGED <<remote, listing, old, manifest, steady, work>>
    BY <1>7 DEF FinishTransfers, Prune, PruneFile, PruneDirectory, FinishFiles,
       FinishDirectories, drive, run
  <2>2. prune_failed' \in {prune_failed, TRUE}
    BY <1>7 DEF FinishTransfers, Prune, PruneFile, PruneDirectory, FinishFiles,
       FinishDirectories, pruning
  <2> QED
    BY <2>1, <2>2
<1>8. /\ UNCHANGED <<remote, listing, old, manifest, steady>>
      /\ prune_failed' \in {prune_failed, TRUE}
      /\ \A q \in Paths : work[q] \in {"kept", "blocked"} => work'[q] = work[q]
  BY <1>2, <1>3, <1>4, <1>5, <1>6, <1>7 DEF Next, Drive, Run
<1>9. Full' = Full
  BY <1>8 DEF Full, Listing, Exists
<1>10. Clean
  <2>1. steady /\ listing = Full
    BY <1>1, <1>8, <1>9
  <2>2. ~prune_failed
    <3>1. prune_failed \in BOOLEAN
      BY DEF SyncInv, TypeOK
    <3> QED
      BY <1>1, <1>8, <3>1
  <2>3. \A p \in Paths : work[p] \notin {"kept", "blocked"}
    BY <1>1, <1>8
  <2> QED
    BY <2>1, <2>2, <2>3 DEF Clean
<1> QED
  BY <1>8, <1>10 DEF MirrorInv

(* The directories that were made stay.                                     *)
LEMMA MadeStay ==
  ASSUME SyncInv, Clean, UNCHANGED listing, \A p \in Paths : MadeOK(p),
         \A q \in Paths : listing[q].kind = "dir" =>
           work'[q] = work[q] /\ (local[q].kind = "dir" => local'[q].kind = "dir"),
         phase' = "directories" \/ phase # "directories" \/ \A q \in Paths : work[q] # "mkdir"
  PROVE  \A p \in Paths : MadeOK(p)'
<1> SUFFICES ASSUME NEW p \in Paths, listing[p].kind = "dir"
             PROVE  /\ work'[p] \in {"mkdir", "made"}
                    /\ phase' # "directories" => work'[p] = "made"
                    /\ work'[p] = "made" => \A q \in {p} \cup Above(p) : local'[q].kind = "dir"
  BY DEF MadeOK, Above
<1>1. \A q \in {p} \cup Above(p) : q \in Paths /\ listing[q].kind = "dir"
  BY FullFacts DEF Clean, Above
<1>2. /\ work[p] \in {"mkdir", "made"} /\ work'[p] = work[p]
      /\ phase # "directories" => work[p] = "made"
      /\ work[p] = "made" => \A q \in {p} \cup Above(p) : local[q].kind = "dir"
  BY DEF MadeOK
<1> QED
  BY <1>1, <1>2

(* A file whose place is not disturbed stays as it is done.                 *)
LEMMA DoneStays ==
  ASSUME SyncInv, NEW p \in Paths, DoneOK(p), phase # "directories",
         UNCHANGED <<remote, listing, old>>, work'[p] = work[p],
         local'[p].kind = local[p].kind, local'[p].version = local[p].version,
         p \in unsaved_loss /\ local'[p].kind # "file" => p \in unsaved_loss'
  PROVE  DoneOK(p)'
<1> SUFFICES ASSUME listing[p].kind = "file"
             PROVE  DoneOK(p)'
  BY DEF DoneOK
<1>1. GoodFile(p) => GoodFile(p)'
  BY DEF GoodFile
<1>2. TakenOnTrust(p) => TakenOnTrust(p)' \/ p \in unsaved_loss
  BY DEF TakenOnTrust
<1>3. p \in unsaved_loss => local[p].kind # "file"
  BY DEF SyncInv, LossOK
<1>4. TakenOnTrust(p) => TakenOnTrust(p)'
  BY <1>3 DEF TakenOnTrust
<1> QED
  BY <1>1, <1>4 DEF DoneOK

(* What is removed without being saved stays known, until it is there.      *)
LEMMA LossStays ==
  ASSUME SetLocal(local'), NEW p \in unsaved_loss, p \in Paths, local'[p].kind # "file"
  PROVE  p \in unsaved_loss'
  BY DEF SetLocal

(* Before the delete phase nothing is asked of what is stray.              *)
LEMMA OffThePrune ==
  ASSUME phase' \in {"directories", "transfers"}
  PROVE  /\ \A p \in Paths : StrayOK(p)'
         /\ ~(phase' = "prune_dirs")
  BY DEF StrayOK

(* What there is to show of a step.                                        *)
LEMMA MirrorIs ==
  ASSUME phase' # "directories" \/ (\A p \in Paths : listing'[p].kind # "dir" => work'[p] = "none"),
         phase' # "idle" /\ Clean' => \A p \in Paths : MadeOK(p)' /\ DoneOK(p)' /\ StrayOK(p)',
         phase' # "idle" /\ Clean' /\ phase' = "prune_dirs" =>
           todo' \cap (ListedAs("dir") \cup PackageRoots)' = {}
  PROVE  MirrorInv'
  BY DEF MirrorInv

(* A directory that is made takes the directories above it along, and      *)
(* none away that a listed one needs.                                      *)
LEMMA EnsureMakes ==
  ASSUME SyncInv, NEW p \in Paths, EnsureDirectory(p), work'[p] # "blocked"
  PROVE  /\ \A q \in {p} \cup Above(p) : local'[q].kind = "dir"
         /\ \A q \in Paths : local[q].kind = "dir" /\ (p \notin Above(q) \/ local[p].kind = "dir") =>
              local'[q].kind = "dir"
         /\ work' = [work EXCEPT ![p] = "made"]
<1> USE DEF SyncInv
<1>1. /\ SetLocal([WithParents(p, Cleared(p, "dir")) EXCEPT ![p] = Directory])
      /\ work' = [work EXCEPT ![p] = "made"]
  BY DEF EnsureDirectory, TypeOK
<1> DEFINE tree == [WithParents(p, Cleared(p, "dir")) EXCEPT ![p] = Directory]
<1>2. local' = tree
  BY <1>1 DEF SetLocal
<1>3. tree[p] = Directory /\ \A q \in Above(p) : tree[q] = Directory
  BY AboveIsOrdered DEF WithParents, Replaced, Cleared, TypeOK
<1>4. \A q \in Paths \ ({p} \cup Above(p)) :
        tree[q] = IF InTheWay(p, "dir") /\ q \in Under[p] THEN Missing ELSE local[q]
  BY DEF WithParents, Replaced, Cleared, TypeOK
<1>5. local[p].kind = "dir" => ~InTheWay(p, "dir")
  BY DEF InTheWay
<1> HIDE DEF tree
<1>6. ASSUME NEW q \in Paths, local[q].kind = "dir", p \notin Above(q) \/ local[p].kind = "dir"
      PROVE  local'[q].kind = "dir"
  <2>1. CASE q \in {p} \cup Above(p)
    BY <1>2, <1>3, <2>1 DEF Directory
  <2>2. CASE q \notin {p} \cup Above(p)
    <3>1. tree[q] = local[q]
      BY <1>4, <1>5, <1>6, <2>2, UnderIsBelow
    <3> QED
      BY <1>2, <1>6, <3>1
  <2> QED
    BY <2>1, <2>2
<1> QED
  BY <1>1, <1>2, <1>3, <1>6 DEF Directory

(* A step that makes a directory.                                          *)
LEMMA EnsureMirrors ==
  ASSUME SyncInv, MirrorInv, Next, NEW p \in Paths, EnsureDirectory(p)
  PROVE  MirrorInv'
<1>1. /\ phase = "directories" /\ phase' = "directories" /\ UNCHANGED listing
      /\ listing[p].kind = "dir" /\ \A q \in Paths \ {p} : work'[q] = work[q]
  BY DEF EnsureDirectory, run, SyncInv, RunOK, TypeOK
<1>2. \A q \in Paths : listing'[q].kind # "dir" => work'[q] = "none"
  BY <1>1 DEF MirrorInv
<1>3. ASSUME Clean', NEW q \in Paths
      PROVE  MadeOK(q)' /\ DoneOK(q)' /\ StrayOK(q)'
  <2>1. Clean /\ MadeOK(q)
    BY <1>1, <1>3, CleanBefore
  <2>2. work'[p] # "blocked"
    BY <1>3 DEF Clean
  <2>3. /\ \A r \in {p} \cup Above(p) : local'[r].kind = "dir"
        /\ \A r \in Paths : local[r].kind = "dir" /\ (p \notin Above(r) \/ local[p].kind = "dir") =>
              local'[r].kind = "dir"
        /\ work'[p] = "made"
    BY <2>2, EnsureMakes DEF SyncInv, TypeOK
  <2>4. ASSUME listing[q].kind = "dir", work'[q] = "made", NEW r \in {q} \cup Above(q), q # p
        PROVE  local'[r].kind = "dir"
    <3>1. \A s \in {q} \cup Above(q) : local[s].kind = "dir"
      BY <1>1, <2>1, <2>4 DEF MadeOK
    <3>2. p \in Above(r) => local[p].kind = "dir"
      BY <2>4, <3>1, AboveIsOrdered
    <3>3. r \in Paths
      BY <2>4, AboveIsOrdered
    <3> QED
      BY <2>3, <2>4, <3>1, <3>2, <3>3
  <2>5. MadeOK(q)'
    <3>1. listing[q].kind = "dir" => work'[q] \in {"mkdir", "made"}
      BY <1>1, <2>1, <2>3 DEF MadeOK
    <3>2. \A r \in {q} \cup Above(q) :
            listing[q].kind = "dir" /\ work'[q] = "made" => local'[r].kind = "dir"
      BY <2>3, <2>4
    <3> QED
      BY <1>1, <3>1, <3>2 DEF MadeOK, Above
  <2>6. DoneOK(q)' /\ StrayOK(q)'
    BY <1>1, OffThePrune DEF DoneOK
  <2> QED
    BY <2>5, <2>6
<1> QED
  BY <1>1, <1>2, <1>3, MirrorIs

(* The first step of a run: nothing is made yet.                           *)
LEMMA BeginMirrors ==
  ASSUME SyncInv, BeginRun
  PROVE  MirrorInv'
<1>1. /\ phase' = "directories"
      /\ work' = [p \in Paths |-> IF listing'[p].kind = "dir" THEN "mkdir" ELSE "none"]
  BY DEF BeginRun
<1>2. ASSUME NEW p \in Paths
      PROVE  MadeOK(p)' /\ DoneOK(p)' /\ StrayOK(p)'
  <2>1. MadeOK(p)'
    BY <1>1 DEF MadeOK
  <2>2. DoneOK(p)' /\ StrayOK(p)'
    BY <1>1, OffThePrune DEF DoneOK
  <2> QED
    BY <2>1, <2>2
<1> QED
  BY <1>1, <1>2, MirrorIs

(* Once the drive changes or is edited, the run is not clean any more.     *)
LEMMA DriveMirrors ==
  ASSUME SyncInv, MirrorInv, Drive
  PROVE  MirrorInv'
<1>1. steady' = FALSE /\ UNCHANGED <<phase, listing, work>>
  BY DEF Drive, Change, Edit, run
<1>2. ~Clean'
  BY <1>1 DEF Clean
<1> QED
  BY <1>1, <1>2 DEF MirrorInv

(* The steps that end a run.                                               *)
LEMMA EndMirrors ==
  ASSUME SaveManifest \/ EndUnsaved \/ Crash
  PROVE  MirrorInv'
  BY DEF SaveManifest, EndUnsaved, Crash, Forget, MirrorInv

(* What is skipped is there.                                                *)
LEMMA PlanMirrors ==
  ASSUME SyncInv, MirrorInv, Next, PlanTransfers
  PROVE  MirrorInv'
<1>1. /\ phase = "directories" /\ phase' = "transfers" /\ \A p \in Paths : work[p] # "mkdir"
      /\ UNCHANGED <<remote, local, listing, old, unsaved_loss>>
      /\ work' = [p \in Paths |->
           IF p \notin ListedAs("file") THEN work[p]
           ELSE IF MustTransfer(p) THEN "queued" ELSE "skipped"]
  BY DEF PlanTransfers, drive, output, run
<1>2. ASSUME Clean'
      PROVE  \A p \in Paths : MadeOK(p)' /\ DoneOK(p)' /\ StrayOK(p)'
  <2>1. Clean /\ \A p \in Paths : MadeOK(p)
    BY <1>1, <1>2, CleanBefore
  <2>2. \A q \in Paths : listing[q].kind = "dir" => work'[q] = work[q]
    BY <1>1 DEF ListedAs
  <2>3. \A p \in Paths : MadeOK(p)'
    BY <1>1, <2>1, <2>2, MadeStay
  <2>4. ASSUME NEW p \in Paths, listing[p].kind = "file"
        PROVE  DoneOK(p)'
    <3>1. work'[p] = IF MustTransfer(p) THEN "queued" ELSE "skipped"
      BY <1>1, <2>4 DEF ListedAs
    <3>2. listing[p].version = remote[p].version
      BY <2>1, <2>4, FullFacts DEF Clean
    <3>3. ASSUME ~MustTransfer(p), ~TakenOnTrust(p)'
          PROVE  GoodFile(p)'
      <4>1. /\ p \notin unsaved_loss \cup (Known \cap Untyped) /\ old[p].kind # "package"
        BY <1>1, <3>1, <3>3 DEF TakenOnTrust
      <4>2. CASE needs_transfer(p)
        <5>1. local[p].kind = "file" /\ local[p].mtime = listing[p].version
          BY <3>3, <4>2 DEF MustTransfer, Aligned
        <5>2. local[p].version <= remote[p].version /\ local[p].mtime <= local[p].version
          BY <5>1 DEF SyncInv, VersionsOK
        <5>3. local[p].version = remote[p].version
          BY <3>2, <5>1, <5>2, VersionTypes DEF SyncInv
        <5> QED
          BY <1>1, <5>1, <5>3 DEF GoodFile
      <4>3. CASE ~needs_transfer(p)
        <5>1. old[p].kind = "file" /\ old[p].version = remote[p].version
          BY <3>2, <4>1, <4>3 DEF needs_transfer
        <5>2. manifest[p] = old[p]
          BY <1>1, <5>1 DEF SyncInv, RunOK, NoManifest, NoRecord
        <5>3. p \in Plain /\ p \notin lost
          BY <1>1, <2>4, <4>1 DEF Plain, SyncInv, ListedLossOK
        <5>4. ~Overtaken(manifest[p], p)
          BY <5>1, <5>2, VersionTypes DEF SyncInv, Overtaken
        <5>5. local[p].kind = "file" /\ manifest[p].version <= local[p].version
          BY <4>1, <5>1, <5>2, <5>3, <5>4 DEF SyncInv, RecordsOK
        <5>6. local[p].version = remote[p].version
          BY <5>1, <5>2, <5>5, VersionTypes DEF SyncInv, VersionsOK
        <5> QED
          BY <1>1, <5>5, <5>6 DEF GoodFile
      <4> QED
        BY <4>2, <4>3
    <3>4. work'[p] \in {"queued", "skipped"} /\ (work'[p] = "skipped" => ~MustTransfer(p))
      BY <3>1
    <3> QED
      BY <3>3, <3>4 DEF DoneOK, Moving
  <2>5. \A p \in Paths : DoneOK(p)'
    BY <1>1, <2>4 DEF DoneOK
  <2> QED
    BY <1>1, <2>3, <2>5, OffThePrune
<1> QED
  BY <1>1, <1>2, MirrorIs

(* What every step of a transfer leaves as it is.                          *)
LEMMA TransferBasics ==
  ASSUME SyncInv, NEW p \in Paths, Transfer(p)
  PROVE  /\ phase = "transfers" /\ phase' = "transfers" /\ work[p] \in Moving
         /\ listing[p].kind = "file" /\ UNCHANGED <<remote, listing, old>>
         /\ \A q \in Paths \ {p} : work'[q] = work[q]
<1>1. PICK outcome : work' = [work EXCEPT ![p] = outcome]
  BY DEF Transfer, ClearConflict, DownloadFile, DownloadTree, ReconcilePackage,
     FailTransfer, RetryTransfer, RecordSuccess, RecordFailure
<1>2. phase = "transfers" /\ phase' = "transfers" /\ UNCHANGED <<remote, listing, old>>
  BY DEF Transfer, ClearConflict, DownloadFile, DownloadTree, ReconcilePackage,
     FailTransfer, RetryTransfer, RecordSuccess, RecordFailure, Transferring, drive, run
<1>3. work[p] \in Moving
  BY DEF Transfer, ClearConflict, DownloadFile, DownloadTree, ReconcilePackage,
     FailTransfer, RetryTransfer, RecordSuccess, RecordFailure, Transferring, Moving
<1> QED
  BY <1>1, <1>2, <1>3 DEF SyncInv, RunOK, TypeOK

(* The transfer of p disturbs no directory and no other file.               *)
LEMMA TransferMirrors ==
  ASSUME SyncInv, MirrorInv, Next, NEW p \in Paths, Transfer(p),
         Clean' /\ Clean /\ DoneOK(p) =>
           /\ DoneOK(p)'
           /\ \A q \in Paths \ {p} :
                /\ listing[q].kind = "dir" /\ local[q].kind = "dir" => local'[q].kind = "dir"
                /\ listing[q].kind = "file" =>
                     /\ local'[q].kind = local[q].kind /\ local'[q].version = local[q].version
                     /\ q \in unsaved_loss /\ local'[q].kind # "file" => q \in unsaved_loss'
  PROVE  MirrorInv'
<1>1. /\ phase = "transfers" /\ phase' = "transfers" /\ work[p] \in Moving
      /\ listing[p].kind = "file" /\ UNCHANGED <<remote, listing, old>>
      /\ \A q \in Paths \ {p} : work'[q] = work[q]
  BY TransferBasics
<1>2. ASSUME Clean'
      PROVE  \A q \in Paths : MadeOK(q)' /\ DoneOK(q)' /\ StrayOK(q)'
  <2>1. Clean /\ \A q \in Paths : MadeOK(q) /\ DoneOK(q)
    BY <1>1, <1>2, CleanBefore
  <2>2. /\ DoneOK(p)'
        /\ \A q \in Paths \ {p} :
             /\ listing[q].kind = "dir" /\ local[q].kind = "dir" => local'[q].kind = "dir"
             /\ listing[q].kind = "file" =>
                  /\ local'[q].kind = local[q].kind /\ local'[q].version = local[q].version
                  /\ q \in unsaved_loss /\ local'[q].kind # "file" => q \in unsaved_loss'
    BY <1>2, <2>1
  <2>3. \A q \in Paths : MadeOK(q)'
    BY <1>1, <2>1, <2>2, MadeStay
  <2>4. ASSUME NEW q \in Paths
        PROVE  DoneOK(q)'
    <3>1. CASE q = p
      BY <2>2, <3>1
    <3>2. CASE q # p /\ listing[q].kind = "file"
      BY <1>1, <2>1, <2>2, <3>2, DoneStays
    <3>3. CASE listing[q].kind # "file"
      BY <1>1, <3>3 DEF DoneOK
    <3> QED
      BY <3>1, <3>2, <3>3
  <2> QED
    BY <1>1, <2>3, <2>4, OffThePrune
<1> QED
  BY <1>1, <1>2, MirrorIs

(* Clearing what is in the way of a transfer: nothing listed is below it.  *)
LEMMA ClearMirrors ==
  ASSUME SyncInv, MirrorInv, Next, NEW p \in Paths, ClearConflict(p)
  PROVE  MirrorInv'
<1>0. Transfer(p)
  BY DEF Transfer
<1>1. /\ phase = "transfers" /\ phase' = "transfers" /\ work[p] \in Moving
      /\ listing[p].kind = "file" /\ UNCHANGED <<remote, listing, old>>
  BY <1>0, TransferBasics
<1>2. /\ SetLocal(local') /\ \A q \in Paths \ ({p} \cup Under[p]) : local'[q] = local[q]
  BY ClearTree
<1>3. \A q \in Under[p] : listing[q].kind = "none"
  BY <1>1, BelowMoving
<1>4. DoneOK(p)'
  <2>1. CASE work'[p] = "failed"
    BY <1>1, <2>1 DEF DoneOK, Moving
  <2>2. CASE work'[p] # "failed"
    <3>1. SetLocal(Cleared(p, Expected(p))) /\ work'[p] = "cleared"
      BY <2>2 DEF ClearConflict, SyncInv, TypeOK
    <3>2. local'[p] = IF InTheWay(p, Expected(p)) THEN Missing ELSE local[p]
      BY <3>1 DEF SetLocal, Cleared, Replaced
    <3>3. local'[p].kind \in {"none", Expected(p)}
      BY <3>2 DEF InTheWay, Missing
    <3> QED
      BY <1>1, <3>1, <3>3 DEF DoneOK, Moving, Expected
  <2> QED
    BY <2>1, <2>2
<1>5. ASSUME NEW q \in Paths \ {p}
      PROVE  /\ listing[q].kind = "dir" /\ local[q].kind = "dir" => local'[q].kind = "dir"
             /\ listing[q].kind = "file" =>
                  /\ local'[q].kind = local[q].kind /\ local'[q].version = local[q].version
                  /\ q \in unsaved_loss /\ local'[q].kind # "file" => q \in unsaved_loss'
  BY <1>2, <1>3, LossStays
<1> QED
  BY <1>0, <1>4, <1>5, TransferMirrors

(* A download: the version in the drive, in directories that are listed.   *)
LEMMA DownloadMirrors ==
  ASSUME SyncInv, MirrorInv, Next, NEW p \in Paths, DownloadFile(p)
  PROVE  MirrorInv'
<1>0. Transfer(p)
  BY DEF Transfer
<1>1. /\ phase = "transfers" /\ phase' = "transfers" /\ work[p] \in Moving
      /\ listing[p].kind = "file" /\ UNCHANGED <<remote, listing, old>>
  BY <1>0, TransferBasics
<1>2. /\ SetLocal(local')
      /\ \A q \in Paths \ ({p} \cup Above(p)) : local'[q] = local[q]
      /\ local'[p] = File(remote[p].version)
      /\ \A q \in Above(p) : local'[q] = Directory
  BY FileTree
<1>3. DoneOK(p)'
  <2>1. work'[p] = "file"
    BY DEF DownloadFile, SyncInv, TypeOK
  <2>2. GoodFile(p)'
    BY <1>1, <1>2 DEF GoodFile, File
  <2> QED
    BY <2>1, <2>2 DEF DoneOK, Moving
<1>4. ASSUME Clean, NEW q \in Paths \ {p}
      PROVE  /\ listing[q].kind = "dir" /\ local[q].kind = "dir" => local'[q].kind = "dir"
             /\ listing[q].kind = "file" =>
                  /\ local'[q].kind = local[q].kind /\ local'[q].version = local[q].version
                  /\ q \in unsaved_loss /\ local'[q].kind # "file" => q \in unsaved_loss'
  <2>1. \A r \in Above(p) : listing[r].kind = "dir"
    BY <1>1, <1>4, FullFacts DEF Clean
  <2> QED
    BY <1>2, <2>1, LossStays DEF Directory
<1> QED
  BY <1>0, <1>3, <1>4, TransferMirrors

(* What is listed in full as a file is no folder.                           *)
LEMMA WalkMirrors ==
  ASSUME SyncInv, MirrorInv, Next, NEW p \in Paths, DownloadTree(p)
  PROVE  MirrorInv'
<1>0. Transfer(p)
  BY DEF Transfer
<1>1. phase' = "transfers" /\ phase = "transfers" /\ listing[p].kind = "file"
  BY <1>0, TransferBasics
<1>2. ~Clean
  <2>1. remote[p].kind = "folder"
    BY DEF DownloadTree, Folders
  <2> QED
    BY <1>1, <2>1, FullFacts DEF Clean
<1> QED
  BY <1>0, <1>2, TransferMirrors

(* A package found in place, and the attempts that fail.                   *)
LEMMA AttemptMirrors ==
  ASSUME SyncInv, MirrorInv, Next, NEW p \in Paths,
         ReconcilePackage(p) \/ FailTransfer(p) \/ RetryTransfer(p)
  PROVE  MirrorInv'
<1>0. Transfer(p)
  BY DEF Transfer
<1>1. /\ phase = "transfers" /\ phase' = "transfers" /\ work[p] \in Moving
      /\ listing[p].kind = "file" /\ UNCHANGED <<remote, listing, old>>
  BY <1>0, TransferBasics
<1>2. UNCHANGED <<local, unsaved_loss>> /\ work[p] = "cleared"
  BY DEF ReconcilePackage, FailTransfer, RetryTransfer, Transferring, output
<1>3. \/ work'[p] = "package" /\ local[p].kind = "dir"
      \/ work'[p] \in {"failed", "queued"}
  BY DEF ReconcilePackage, FailTransfer, RetryTransfer, SyncInv, TypeOK
<1>4. ASSUME DoneOK(p)
      PROVE  DoneOK(p)'
  <2>1. local[p].kind \in {"none", Expected(p)}
    BY <1>1, <1>2, <1>4 DEF DoneOK
  <2>2. CASE work'[p] = "package" /\ local[p].kind = "dir"
    <3>1. p \in Known
      BY <2>1, <2>2 DEF Expected
    <3> QED
      BY <1>2, <2>2, <3>1 DEF DoneOK, Moving
  <2>3. CASE work'[p] \in {"failed", "queued"}
    BY <2>3 DEF DoneOK, Moving
  <2> QED
    BY <1>3, <2>2, <2>3
<1> QED
  BY <1>0, <1>2, <1>4, TransferMirrors

(* The coordinator takes the outcome: a failure is kept, a success is      *)
(* good.                                                                   *)
LEMMA RecordMirrors ==
  ASSUME SyncInv, MirrorInv, Next, NEW p \in Paths, RecordSuccess(p) \/ RecordFailure(p)
  PROVE  MirrorInv'
<1>0. Transfer(p)
  BY DEF Transfer
<1>1. /\ phase = "transfers" /\ phase' = "transfers" /\ work[p] \in Moving
      /\ listing[p].kind = "file" /\ UNCHANGED <<remote, listing, old>>
  BY <1>0, TransferBasics
<1>2. CASE RecordFailure(p)
  <2>1. work'[p] = "kept"
    BY <1>2 DEF RecordFailure, SyncInv, TypeOK
  <2>2. ~Clean'
    BY <2>1 DEF Clean
  <2> QED
    BY <1>0, <2>2, TransferMirrors
<1>3. CASE RecordSuccess(p)
  <2>1. work'[p] = "done" /\ work[p] \in {"file", "package"} /\ UNCHANGED unsaved_loss
    BY <1>3 DEF RecordSuccess, SyncInv, TypeOK
  <2>2. \A q \in Paths : local'[q].kind = local[q].kind /\ local'[q].version = local[q].version
    <3>1. ASSUME NEW q \in Paths
          PROVE  local'[q] = local[q] \/ \E t : local'[q] = [local[q] EXCEPT !.mtime = t]
      BY <1>3 DEF RecordSuccess, Stamped, SyncInv, TypeOK
    <3>2. \A q \in Paths : local[q] \in LocalNodes
      BY DEF SyncInv, TypeOK
    <3> QED
      BY <3>1, <3>2 DEF LocalNodes
  <2>3. ASSUME DoneOK(p)
        PROVE  DoneOK(p)'
    <3>1. GoodFile(p)
      BY <1>1, <2>1, <2>3 DEF DoneOK, GoodFile
    <3>2. GoodFile(p)'
      BY <1>1, <2>2, <3>1 DEF GoodFile
    <3> QED
      BY <2>1, <3>2 DEF DoneOK
  <2> QED
    BY <1>0, <2>1, <2>2, <2>3, TransferMirrors
<1> QED
  BY <1>2, <1>3

(* From the plan to the end, what does not disturb a listed path.           *)
LEMMA LaterMirrors ==
  ASSUME SyncInv, MirrorInv, Next, phase # "idle", phase # "directories",
         phase' # "idle", phase' # "directories",
         Clean' =>
           /\ work' = work
           /\ \A q \in Paths : listing[q].kind = "dir" /\ local[q].kind = "dir" =>
                local'[q].kind = "dir"
           /\ Clean => \A q \in Paths : DoneOK(q) => DoneOK(q)'
           /\ Clean /\ (\A q \in Paths : MadeOK(q) /\ DoneOK(q) /\ StrayOK(q)) =>
                \A q \in Paths : StrayOK(q)'
           /\ Clean /\ (phase = "prune_dirs" => todo \cap (ListedAs("dir") \cup PackageRoots) = {})
                /\ phase' = "prune_dirs" =>
                todo' \cap (ListedAs("dir") \cup PackageRoots)' = {}
  PROVE  MirrorInv'
<1>1. ASSUME Clean'
      PROVE  /\ \A q \in Paths : MadeOK(q)' /\ DoneOK(q)' /\ StrayOK(q)'
             /\ phase' = "prune_dirs" => todo' \cap (ListedAs("dir") \cup PackageRoots)' = {}
  <2>1. /\ Clean /\ UNCHANGED listing /\ \A q \in Paths : MadeOK(q) /\ DoneOK(q) /\ StrayOK(q)
        /\ phase = "prune_dirs" => todo \cap (ListedAs("dir") \cup PackageRoots) = {}
    BY <1>1, CleanBefore
  <2>2. /\ work' = work
        /\ \A q \in Paths : listing[q].kind = "dir" /\ local[q].kind = "dir" => local'[q].kind = "dir"
    BY <1>1
  <2>3. \A q \in Paths : MadeOK(q)'
    BY <2>1, <2>2, MadeStay
  <2>4. \A q \in Paths : DoneOK(q)' /\ StrayOK(q)'
    BY <1>1, <2>1
  <2>5. phase' = "prune_dirs" => todo' \cap (ListedAs("dir") \cup PackageRoots)' = {}
    BY <1>1, <2>1
  <2> QED
    BY <2>3, <2>4, <2>5
<1> QED
  BY <1>1, MirrorIs

(* A file that is done, when no local file moves.                          *)
LEMMA LocalSameDone ==
  ASSUME SyncInv, NEW q \in Paths, DoneOK(q), phase # "directories",
         UNCHANGED <<remote, listing, old, work, local, unsaved_loss>>
  PROVE  DoneOK(q)'
  BY DoneStays

(* The steps from phase to phase: each takes up what is stray and left.    *)
LEMMA FinishMirrors ==
  ASSUME SyncInv, MirrorInv, Next, FinishTransfers \/ FinishFiles \/ FinishDirectories
  PROVE  MirrorInv'
<1>1. /\ UNCHANGED <<remote, listing, old, work, local, unsaved_loss, complete>>
      /\ phase \in {"transfers", "prune_files", "prune_dirs"}
      /\ phase' \in {"prune_files", "prune_dirs", "saving"}
  BY DEF FinishTransfers, FinishFiles, FinishDirectories, drive, output, run
<1>2. \A q \in Paths : DoneOK(q) => DoneOK(q)'
  BY <1>1, LocalSameDone
<1>3. \A q \in Paths : Stray(q)' => Stray(q)
  BY <1>1 DEF Stray, PackageRoots, ListedAs, Above
<1>4. CASE FinishTransfers
  <2>1. phase' = IF DeleteRemoved /\ complete THEN "prune_files" ELSE "saving"
    BY <1>4 DEF FinishTransfers
  <2>2. ASSUME NEW q \in Paths
        PROVE  StrayOK(q)'
    <3>1. CASE phase' = "saving"
      BY <1>1, <2>1, <3>1 DEF StrayOK
    <3>2. CASE phase' = "prune_files"
      <4>1. todo' = Unprotected("file")
        BY <1>4, <2>1, <3>2 DEF FinishTransfers
      <4>2. Stray(q) /\ local[q].kind = "file" => ~Protected(q)
        BY DEF Stray, Protected, ListedAs
      <4>3. Stray(q)' /\ local'[q].kind = "file" => q \in todo'
        BY <1>1, <1>3, <4>1, <4>2 DEF Unprotected
      <4> QED
        BY <3>2, <4>3 DEF StrayOK
    <3> QED
      BY <2>1, <3>1, <3>2
  <2> QED
    BY <1>1, <1>2, <2>1, <2>2, LaterMirrors
<1>5. CASE FinishFiles
  <2>1. phase = "prune_files" /\ todo = {} /\ phase' = "prune_dirs" /\ todo' = Unprotected("dir")
    BY <1>5 DEF FinishFiles
  <2>2. ASSUME NEW q \in Paths, StrayOK(q)
        PROVE  StrayOK(q)'
    <3>1. Stray(q) /\ local[q].kind = "dir" => ~Protected(q)
      BY DEF Stray, Protected, ListedAs, PackageRoots
    <3>2. Stray(q) => local[q].kind # "file"
      BY <2>1, <2>2 DEF StrayOK
    <3>3. Stray(q)' => local'[q].kind # "file" /\ (local'[q].kind = "dir" => q \in todo')
      BY <1>1, <1>3, <2>1, <3>1, <3>2 DEF Unprotected
    <3> QED
      BY <2>1, <3>3 DEF StrayOK
  <2>3. todo' \cap (ListedAs("dir") \cup PackageRoots)' = {}
    <3>1. \A q \in todo' : local[q].kind = "dir" /\ ~Protected(q)
      BY <2>1 DEF Unprotected
    <3>2. (ListedAs("dir") \cup PackageRoots)' = ListedAs("dir") \cup PackageRoots
      BY <1>1 DEF ListedAs, PackageRoots
    <3> QED
      BY <3>1, <3>2 DEF Protected
  <2> QED
    BY <1>1, <1>2, <2>1, <2>2, <2>3, LaterMirrors
<1>6. CASE FinishDirectories
  <2>1. phase = "prune_dirs" /\ todo = {} /\ phase' = "saving"
    BY <1>6 DEF FinishDirectories
  <2>2. ASSUME NEW q \in Paths, StrayOK(q)
        PROVE  StrayOK(q)'
    <3>1. local[q].kind \in {"none", "file", "dir"}
      BY DEF SyncInv, TypeOK, LocalNodes
    <3>2. Stray(q)' => local'[q].kind = "none"
      BY <1>1, <1>3, <2>1, <2>2, <3>1 DEF StrayOK
    <3> QED
      BY <2>1, <3>2 DEF StrayOK
  <2> QED
    BY <1>1, <1>2, <2>1, <2>2, LaterMirrors
<1> QED
  BY <1>4, <1>5, <1>6

(* A file is removed: it was stray, or a folder has its name.              *)
LEMMA PruneFileMirrors ==
  ASSUME SyncInv, MirrorInv, Next, NEW p \in Paths, PruneFile(p)
  PROVE  MirrorInv'
<1>1. /\ phase = "prune_files" /\ phase' = "prune_files" /\ p \in todo /\ todo' = todo \ {p}
      /\ UNCHANGED <<remote, listing, old, work>>
      /\ \/ SetLocal([local EXCEPT ![p] = Missing])
         \/ prune_failed' = TRUE
  BY DEF PruneFile, drive, run
<1>2. local[p].kind = "file" /\ listing[p].kind # "file"
  BY <1>1 DEF SyncInv, PruneOK
<1>3. ASSUME Clean'
      PROVE  /\ SetLocal(local') /\ local'[p] = Missing
             /\ \A q \in Paths \ {p} : local'[q] = local[q]
  <2>1. SetLocal([local EXCEPT ![p] = Missing])
    BY <1>1, <1>3 DEF Clean
  <2> QED
    BY <2>1 DEF SetLocal, SyncInv, TypeOK
<1>4. ASSUME Clean', NEW q \in Paths, DoneOK(q)
      PROVE  DoneOK(q)'
  <2>1. CASE q = p
    BY <1>1, <1>2, <2>1 DEF DoneOK
  <2>2. CASE q # p
    <3>1. q \in unsaved_loss /\ local'[q].kind # "file" => q \in unsaved_loss'
      BY <1>3, <1>4, LossStays
    <3> QED
      BY <1>1, <1>3, <1>4, <2>2, <3>1, DoneStays
  <2> QED
    BY <2>1, <2>2
<1>5. ASSUME Clean', NEW q \in Paths, StrayOK(q)
      PROVE  StrayOK(q)'
  <2>1. Stray(q)' => Stray(q)
    BY <1>1 DEF Stray, PackageRoots, ListedAs, Above
  <2>2. Stray(q)' /\ local'[q].kind = "file" => q \in todo'
    BY <1>1, <1>3, <1>5, <2>1 DEF StrayOK, Missing
  <2> QED
    BY <1>1, <2>2 DEF StrayOK
<1>6. ASSUME Clean', NEW q \in Paths, local[q].kind = "dir"
      PROVE  local'[q].kind = "dir"
  BY <1>2, <1>3, <1>6
<1> QED
  BY <1>1, <1>4, <1>5, <1>6, LaterMirrors

(* Nothing is left below a stray directory when its turn comes.             *)
LEMMA StrayBelow ==
  ASSUME SyncInv, listing = Full, NEW p \in Paths, Stray(p), NEW q \in Under[p]
  PROVE  q \in Paths /\ Stray(q)
<1>1. q \in Paths /\ p \in Above(q) /\ listing[q].kind = "none"
  BY TreeAssumption, FullFacts DEF Above, Stray
<1>2. ASSUME NEW r \in Above(q)
      PROVE  r \notin PackageRoots
  <2>1. r = p \/ r \in Above(p) \/ p \in Above(r)
    BY <1>1, AboveIsOrdered
  <2>2. r \in Paths
    BY DEF Above
  <2>3. p \in Above(r) => listing[r].kind = "none"
    BY <2>2, FullFacts, UnderIsBelow DEF Stray
  <2> QED
    BY <2>1, <2>3 DEF Stray, PackageRoots, ListedAs
<1> QED
  BY <1>1, <1>2 DEF Stray

(* A directory is removed, if nothing is below it; none that is listed.    *)
LEMMA PruneDirectoryMirrors ==
  ASSUME SyncInv, MirrorInv, Next, NEW p \in Paths, PruneDirectory(p)
  PROVE  MirrorInv'
<1>1. /\ phase = "prune_dirs" /\ phase' = "prune_dirs" /\ p \in todo /\ todo' = todo \ {p}
      /\ UNCHANGED <<remote, listing, old, work>> /\ Under[p] \cap todo = {}
      /\ \/ SetLocal([local EXCEPT ![p] = Missing])
         \/ (\E q \in Under[p] : local[q].kind # "none") /\ UNCHANGED <<local, lost, unsaved_loss>>
         \/ prune_failed' = TRUE
  BY DEF PruneDirectory, drive, run, output
<1>2. local[p].kind = "dir"
  BY <1>1 DEF SyncInv, PruneOK
<1>3. CASE Clean'
  <2>1. /\ Clean /\ \A q \in Paths : MadeOK(q) /\ DoneOK(q) /\ StrayOK(q)
        /\ todo \cap (ListedAs("dir") \cup PackageRoots) = {}
    BY <1>1, <1>3, CleanBefore
  <2>2. listing[p].kind # "dir" /\ (listing[p].kind = "file" => p \notin Known)
    BY <1>1, <2>1 DEF ListedAs, PackageRoots
  <2>3. \/ SetLocal(local') /\ local'[p] = Missing /\ \A q \in Paths \ {p} : local'[q] = local[q]
        \/ (\E q \in Under[p] : local[q].kind # "none") /\ UNCHANGED <<local, lost, unsaved_loss>>
    <3>1. CASE SetLocal([local EXCEPT ![p] = Missing])
      BY <3>1 DEF SetLocal, SyncInv, TypeOK
    <3>2. prune_failed' # TRUE
      BY <1>3 DEF Clean
    <3> QED
      BY <1>1, <3>1, <3>2
  <2>4. \A q \in Paths \ {p} : local'[q] = local[q]
    BY <2>3
  <2>5. ASSUME NEW q \in Paths
        PROVE  q \in unsaved_loss /\ local'[q].kind # "file" => q \in unsaved_loss'
    BY <2>3, LossStays
  <2>6. ASSUME NEW q \in Paths
        PROVE  DoneOK(q)'
    <3>1. CASE q # p
      BY <1>1, <2>1, <2>4, <2>5, <3>1, DoneStays
    <3>2. CASE q = p /\ listing[p].kind = "file"
      <4>1. work[p] = "skipped" /\ TakenOnTrust(p)
        <5>1. work[p] \notin Moving
          BY <1>1 DEF SyncInv, RunOK
        <5>2. ~GoodFile(p)
          BY <1>2, <2>2, <3>2 DEF GoodFile
        <5> QED
          BY <1>1, <2>1, <3>2, <5>1, <5>2 DEF DoneOK
      <4>2. local'[p].kind # "file"
        BY <1>2, <2>3 DEF Missing
      <4>3. TakenOnTrust(p)'
        BY <1>1, <2>5, <4>1, <4>2 DEF TakenOnTrust
      <4> QED
        BY <1>1, <3>2, <4>1, <4>3 DEF DoneOK, Moving
    <3>3. CASE q = p /\ listing[p].kind # "file"
      BY <1>1, <3>3 DEF DoneOK
    <3> QED
      BY <3>1, <3>2, <3>3
  <2>7. ASSUME NEW q \in Paths
        PROVE  StrayOK(q)'
    <3>1. Stray(q)' => Stray(q)
      BY <1>1 DEF Stray, PackageRoots, ListedAs, Above
    <3>2. StrayOK(q)
      BY <2>1
    <3>3. CASE q # p
      <4>1. Stray(q)' => local'[q].kind # "file" /\ (local'[q].kind = "dir" => q \in todo')
        BY <1>1, <2>4, <3>1, <3>2, <3>3 DEF StrayOK
      <4> QED
        BY <1>1, <4>1 DEF StrayOK
    <3>4. CASE q = p
      <4>1. CASE local'[p] = Missing
        BY <1>1, <3>4, <4>1 DEF StrayOK, Missing
      <4>2. CASE (\E r \in Under[p] : local[r].kind # "none")
        <5>1. PICK r \in Under[p] : local[r].kind # "none"
          BY <4>2
        <5>2. ~Stray(p)
          <6>1. SUFFICES ASSUME Stray(p) PROVE FALSE
            OBVIOUS
          <6>2. r \in Paths /\ Stray(r)
            BY <2>1, <6>1, StrayBelow DEF Clean
          <6>3. local[r].kind \in {"none", "file", "dir"}
            BY <6>2 DEF SyncInv, TypeOK, LocalNodes
          <6>4. StrayOK(r)
            BY <2>1, <6>2
          <6>5. r \notin todo
            BY <1>1
          <6> QED
            BY <1>1, <5>1, <6>2, <6>3, <6>4, <6>5 DEF StrayOK
        <5> QED
          BY <3>1, <3>4, <5>2 DEF StrayOK
      <4> QED
        BY <2>3, <4>1, <4>2
    <3> QED
      BY <3>3, <3>4
  <2>8. ASSUME NEW q \in Paths, listing[q].kind = "dir", local[q].kind = "dir"
        PROVE  local'[q].kind = "dir"
    BY <2>2, <2>4, <2>8
  <2>9. todo' \cap (ListedAs("dir") \cup PackageRoots)' = {}
    <3>1. (ListedAs("dir") \cup PackageRoots)' = ListedAs("dir") \cup PackageRoots
      BY <1>1 DEF ListedAs, PackageRoots
    <3> QED
      BY <1>1, <2>1, <3>1
  <2> QED
    BY <1>1, <2>6, <2>7, <2>8, <2>9, LaterMirrors
<1>4. CASE ~Clean'
  BY <1>1, <1>4, LaterMirrors
<1> QED
  BY <1>3, <1>4

(* Before the first run.                                                   *)
LEMMA MirrorInit == Init => MirrorInv
  BY DEF Init, MirrorInv

(* The invariant of a clean run is kept by every step.                     *)
LEMMA MirrorStep ==
  ASSUME SyncInv, MirrorInv, [Next]_vars
  PROVE  MirrorInv'
<1>1. CASE Drive
  BY <1>1, DriveMirrors
<1>2. CASE BeginRun \/ SaveManifest \/ EndUnsaved \/ Crash
  BY <1>2, BeginMirrors, EndMirrors
<1>3. ASSUME NEW p \in Paths, Next, EnsureDirectory(p)
      PROVE  MirrorInv'
  BY <1>3, EnsureMirrors
<1>4. ASSUME NEW p \in Paths, Next, Transfer(p)
      PROVE  MirrorInv'
  BY <1>4, ClearMirrors, DownloadMirrors, WalkMirrors, AttemptMirrors, RecordMirrors DEF Transfer
<1>5. ASSUME Next, PlanTransfers
      PROVE  MirrorInv'
  BY <1>5, PlanMirrors
<1>6. ASSUME Next, FinishTransfers \/ Prune
      PROVE  MirrorInv'
  BY <1>6, FinishMirrors, PruneFileMirrors, PruneDirectoryMirrors DEF Prune
<1>7. CASE UNCHANGED vars
  BY <1>7 DEF vars, drive, output, run, pruning, MirrorInv, Clean, Full, Listing, Exists, Above,
     MadeOK, DoneOK, StrayOK, Stray, GoodFile, TakenOnTrust, ListedAs, PackageRoots
<1> QED
  BY <1>1, <1>2, <1>3, <1>4, <1>5, <1>6, <1>7 DEF Next, Run

(* At the end of the run the invariant is the mirror.                      *)
LEMMA MirrorsWhenSaved ==
  ASSUME SyncInv, MirrorInv, phase = "saving", complete, Clean, NEW p \in Paths
  PROVE  TakenOnTrust(p) \/ Mirrored(p)
<1>1. MadeOK(p) /\ DoneOK(p) /\ StrayOK(p)
  BY DEF MirrorInv
<1>2. listing[p].kind \in {"none", "file", "dir"} /\ Full[p] = listing[p]
  BY FullFacts DEF Clean
<1>3. CASE listing[p].kind = "file"
  <2>1. work[p] \in {"skipped", "done"}
    BY <1>1, <1>3 DEF DoneOK, SyncInv, RunOK
  <2>2. TakenOnTrust(p) \/ GoodFile(p)
    BY <1>1, <1>3, <2>1 DEF DoneOK
  <2>3. GoodFile(p) => Mirrored(p)
    BY <1>2, <1>3 DEF GoodFile, Mirrored
  <2> QED
    BY <2>2, <2>3
<1>4. CASE listing[p].kind = "dir"
  <2>1. local[p].kind = "dir"
    BY <1>1, <1>4 DEF MadeOK
  <2> QED
    BY <1>2, <1>4, <2>1 DEF Mirrored
<1>5. CASE listing[p].kind = "none"
  <2>1. Stray(p) /\ DeleteRemoved => local[p].kind = "none"
    BY <1>1 DEF StrayOK
  <2>2. Stray(p) \/ Above(p) \cap PackageRoots # {}
    BY <1>5 DEF Stray
  <2>3. local[p].kind = "none" \/ ~DeleteRemoved \/ Above(p) \cap PackageRoots # {}
    BY <2>1, <2>2
  <2> QED
    BY <1>2, <1>5, <2>3 DEF Mirrored
<1> QED
  BY <1>2, <1>3, <1>4, <1>5

(* A run that is clean and saves its manifest has the local tree mirror    *)
(* the drive, but for what it skipped on the word of a record that may be  *)
(* wrong.                                                                  *)
THEOREM CleanRunsMirror == Spec => CleanRunMirrors
<1>1. Init => SyncInv /\ MirrorInv
  BY InvInit, MirrorInit
<1>2. SyncInv /\ MirrorInv /\ [Next]_vars => (SyncInv /\ MirrorInv)'
  BY InvStep, MirrorStep
<1>3. SyncInv /\ MirrorInv =>
        [Saves /\ Clean => \A p \in Paths : TakenOnTrust(p) \/ Mirrored(p)]_vars
  BY MirrorsWhenSaved DEF Saves
<1> QED
  BY <1>1, <1>2, <1>3, PTL DEF Spec, CleanRunMirrors
============================================================================
