------------------------------ MODULE Transfer ------------------------------
(***************************************************************************)
(* The transfer of one entry (syncer.transfer_if_required and the          *)
(* downloads of icloud_client.py), step by step: what DriveSync does in    *)
(* one.  The entry is a file, a folder, or a package: something that does  *)
(* not answer like a folder, though its parent's metadata may list its     *)
(* members.  The drive changes meanwhile, requests and file operations     *)
(* fail, and the process may end between any two steps.                    *)
(***************************************************************************)
EXTENDS Naturals, FiniteSets, SequencesExt

CONSTANTS
  Items,        \* the entry and what may ever be below it
  Root,         \* the entry
  Children,     \* Children[p]: what may be in p
  FirstDrives,  \* the kinds that all items may have at first
  RETRY_ATTEMPTS,
  MaxVersion, MaxChanges, MaxTransfers   \* bounds on edits, changes, transfers

(* A package in the entry is to the code a file like any other, so only the *)
(* entry is called one.                                                     *)
ASSUME TransferAssumption ==
  /\ IsFiniteSet(Items)
  /\ Root \in Items
  /\ Children \in [Items -> SUBSET (Items \ {Root})]
  /\ \A p, q \in Items : p # q => Children[p] \cap Children[q] = {}
  /\ FirstDrives \subseteq [Items -> {"none", "file", "folder", "package"}]
  /\ \A kinds \in FirstDrives : \A p \in Items \ {Root} : kinds[p] # "package"
  /\ RETRY_ATTEMPTS \in Nat \ {0}
  /\ MaxVersion \in Nat \ {0} /\ MaxChanges \in Nat /\ MaxTransfers \in Nat

Versions == 1 .. MaxVersion

VARIABLES
  known,        \* the entry has a suffix of KNOWN_PACKAGE_SUFFIXES
  remote,       \* the drive: kind and version of every item
  changes,      \* how often it changed
  local,        \* what is below /output
  partial,      \* the files .<name>.partial beside them
  transfers,    \* how many transfers were begun
  result,       \* how the last one ended
  pc, attempt,
  plan,         \* which download the attempt tries first
  doing,        \* the download it is in
  todo,         \* what that has yet to visit
  payload,      \* the members that the parent's metadata lists
  (* history *)
  steady,       \* the drive has not changed since the attempt began
  hollow        \* a folder gave no answer in this attempt

drive == <<known, remote, changes>>
output == <<local, partial>>
call == <<plan, doing, todo, payload>>
vars == <<drive, output, transfers, result, pc, attempt, call, steady, hollow>>

Nothing == [kind |-> "none", version |-> 0]
Directory == [kind |-> "dir", version |-> 0]
Torn(v) == [kind |-> "torn", version |-> v]
File(v) == [kind |-> "file", version |-> v]
Nodes == {Nothing, Directory} \cup {Torn(v) : v \in Versions} \cup {File(v) : v \in Versions}

TypeOK ==
  /\ known \in BOOLEAN
  /\ remote \in [Items -> [kind : {"none", "file", "folder", "package"}, version : Versions]]
  /\ changes \in 0..MaxChanges
  /\ local \in [Items -> Nodes]
  /\ partial \in [Items -> Nodes \ {Directory}]
  /\ transfers \in 0..MaxTransfers
  /\ result \in {"none", "file", "package", "reconciled", "failed"}
  /\ pc \in {"idle", "clear", "resolve", "visit", "open", "stream", "replace"}
  /\ attempt \in 1..RETRY_ATTEMPTS
  /\ plan \in {"none", "file_first", "tree_first", "tree_only"}
  /\ doing \in {"none", "file", "tree", "walk", "metadata"}
  /\ todo \in Seq(Items)
  /\ payload \in [Items -> {"none", "file", "folder", "package"}]
  /\ steady \in BOOLEAN /\ hollow \in BOOLEAN

NoPayload == [p \in Items |-> "none"]

Init ==
  /\ known \in BOOLEAN
  /\ \E kinds \in FirstDrives : remote = [p \in Items |-> [kind |-> kinds[p], version |-> 1]]
  /\ changes = 0
  /\ local = [p \in Items |-> Nothing] /\ partial = [p \in Items |-> Nothing]
  /\ transfers = 0 /\ result = "none"
  /\ pc = "idle" /\ attempt = 1
  /\ plan = "none" /\ doing = "none" /\ todo = <<>> /\ payload = NoPayload
  /\ steady = TRUE /\ hollow = FALSE

---------------------------------------------------------------------------
(* The drive                                                                *)

(* Under[p]: what is in p, to any depth; Above[p]: what p is in.            *)
Closed(S) == \A q \in S : Children[q] \subseteq S
Under ==
  [p \in Items |-> {c \in Items : \A S \in SUBSET Items :
                                   Children[p] \subseteq S /\ Closed(S) => c \in S}]
Above == [c \in Items |-> {p \in Items : c \in Under[p]}]

Exists(p) ==
  /\ remote[p].kind # "none"
  /\ \A q \in Above[p] : remote[q].kind \in {"folder", "package"}

(* What is at p disappears, or comes in another kind; or there is a new     *)
(* version of it.                                                           *)
Change(p) ==
  /\ changes < MaxChanges
  /\ changes' = changes + 1
  /\ \/ \E kind \in {"none", "file", "folder"} \cup (IF p = Root THEN {"package"} ELSE {}) :
          kind # remote[p].kind /\ remote' = [remote EXCEPT ![p].kind = kind]
     \/ /\ remote[p].kind # "none" /\ remote[p].version < MaxVersion
        /\ remote' = [remote EXCEPT ![p].version = @ + 1]
  /\ steady' = FALSE
  /\ UNCHANGED <<known, output, transfers, result, pc, attempt, call, hollow>>

---------------------------------------------------------------------------
(* transfer_if_required: attempts, and how they end                         *)

Ends(r) ==
  /\ pc' = "idle"
  /\ result' = r
  /\ attempt' = 1
  /\ plan' = "none" /\ doing' = "none" /\ todo' = <<>> /\ payload' = NoPayload

GoesOn(place) == pc' = place /\ UNCHANGED <<result, attempt>>

Begin ==
  /\ pc = "idle"
  /\ transfers < MaxTransfers
  /\ transfers' = transfers + 1
  /\ GoesOn("clear")
  /\ steady' = TRUE /\ hollow' = FALSE
  /\ UNCHANGED <<drive, output, call>>

(* Fault: the last attempt may be repeated.                                 *)
RaiseOnceMore ==
  \/ Ends("failed") /\ UNCHANGED <<steady, hollow>>
  \/ /\ attempt <= RETRY_ATTEMPTS
     /\ attempt' = attempt + 1
     /\ pc' = "clear"
     /\ steady' = TRUE /\ hollow' = FALSE
     /\ UNCHANGED <<result, call>>

(* Fault: attempts are not counted.                                         *)
RaiseUncounted ==
  \/ Ends("failed") /\ UNCHANGED <<steady, hollow>>
  \/ /\ pc' = "clear"
     /\ steady' = TRUE /\ hollow' = FALSE
     /\ UNCHANGED <<result, attempt, call>>

(* An exception leaves the attempt: a retryable one is followed by another  *)
(* attempt, the last one and any other end the transfer.                    *)
Raise ==
  \/ Ends("failed") /\ UNCHANGED <<steady, hollow>>
  \/ /\ attempt < RETRY_ATTEMPTS
     /\ attempt' = attempt + 1
     /\ pc' = "clear"
     /\ steady' = TRUE /\ hollow' = FALSE
     /\ UNCHANGED <<result, call>>

(* What a download that failed leads to: another download, or the end.      *)
NoMembers == {"package_item_missing", "package_children_unavailable"}

Fallback(download) ==
  /\ GoesOn("resolve")
  /\ doing' = download /\ todo' = <<>> /\ payload' = NoPayload
  /\ UNCHANGED plan

Fails(reason) ==
  /\ CASE plan = "file_first" /\ doing = "file"                   -> Fallback("tree")
       [] plan = "tree_first" /\ doing # "file" /\ reason \in NoMembers -> Fallback("file")
       [] plan = "tree_only" /\ reason \in NoMembers              -> Ends("reconciled")
       [] plan = "file_first" /\ doing # "file"                   -> Ends("failed")
       [] plan = "tree_first" /\ (doing = "file" \/ reason \notin NoMembers) -> Ends("failed")
       [] plan = "tree_only" /\ reason \notin NoMembers           -> Ends("failed")

---------------------------------------------------------------------------
(* change_conflicting_local_path, and the choice of the downloads           *)

InTheWay == local[Root].kind \notin {"none", IF known THEN "dir" ELSE "file"}

Put(tree, S, node) == [p \in Items |-> IF p \in S THEN node ELSE tree[p]]

ClearConflict ==
  /\ pc = "clear"
  /\ IF InTheWay
     THEN /\ local' = Put(local, {Root} \cup Under[Root], Nothing)
          /\ partial' = Put(partial, Under[Root], Nothing)
     ELSE UNCHANGED output
  /\ plan' = IF ~known THEN "file_first"
             ELSE IF local[Root].kind = "dir" THEN "tree_only" ELSE "tree_first"
  /\ doing' = IF known THEN "tree" ELSE "file"
  /\ todo' = <<>> /\ payload' = NoPayload
  /\ GoesOn("resolve")
  /\ UNCHANGED <<drive, transfers, steady, hollow>>

(* Some of what is in the way is removed, and the rest stays.               *)
ClearFails ==
  /\ pc = "clear"
  /\ InTheWay
  /\ \E gone \in SUBSET {p \in Under[Root] : local[p].kind = "file"} :
       local' = Put(local, gone, Nothing)
  /\ Ends("failed")
  /\ UNCHANGED <<drive, partial, transfers, steady, hollow>>

---------------------------------------------------------------------------
(* download_file and download_package_tree: the entry is looked up          *)

Reachable(p) == \A q \in Above[p] : local[q].kind \notin {"file", "torn"}
MakeParents(p) == Put(local, Above[p], Directory)

(* mkdir(parents=True, exist_ok=True).                                      *)
MakeDirectory(p) ==
  /\ Reachable(p) /\ local[p].kind \notin {"file", "torn"}
  /\ local' = Put(local, Above[p] \cup {p}, Directory)

Looks(kind) == Exists(Root) /\ remote[Root].kind = kind

FindFile ==
  /\ pc = "resolve" /\ doing = "file"
  /\ \/ Fails("path_not_found")
     \/ Looks("folder") /\ Fails("directory_node")
     \/ /\ Exists(Root)          \* a folder whose probe got no answer, too
        /\ GoesOn("open") /\ todo' = <<Root>>
        /\ UNCHANGED <<plan, doing, payload>>
  /\ UNCHANGED <<drive, output, transfers, steady, hollow>>

FindTree ==
  /\ pc = "resolve" /\ doing = "tree"
  /\ \/ Fails("path_not_found")
     \/ /\ Looks("folder")
        /\ GoesOn("visit") /\ doing' = "walk" /\ todo' = <<Root>>
        /\ UNCHANGED <<plan, payload>>
     \/ /\ Exists(Root)
        /\ GoesOn("resolve") /\ doing' = "metadata"
        /\ UNCHANGED <<plan, todo, payload>>
  /\ UNCHANGED <<drive, output, transfers, steady, hollow>>

(* _package_child_items: folders first; else their order, that of the       *)
(* answer, is left open.                                                    *)
Listed(p, kinds) ==
  SetToSeq({c \in Children[p] : kinds[c] = "folder"})
    \o SetToSeq({c \in Children[p] : kinds[c] \notin {"folder", "none"}})

(* _find_item_metadata: what the parent's answer says of the members.       *)
Metadata ==
  [p \in Items |-> IF p \in Under[Root] /\ Exists(p) THEN remote[p].kind ELSE "none"]

(* _download_package_tree_from_parent_metadata: the parent's answer may     *)
(* lack the entry (a list of names does), or list nothing in it; otherwise  *)
(* it is kept for the whole download.                                       *)
ReadMetadata ==
  /\ pc = "resolve" /\ doing = "metadata"
  /\ \/ Fails("package_item_missing") /\ UNCHANGED local
     \/ Fails("package_children_unavailable") /\ UNCHANGED local
     \/ /\ Listed(Root, Metadata) # <<>>
        /\ MakeDirectory(Root)
        /\ payload' = Metadata
        /\ todo' = Listed(Root, Metadata)
        /\ GoesOn("visit")
        /\ UNCHANGED <<plan, doing>>
  /\ UNCHANGED <<drive, partial, transfers, steady, hollow>>

---------------------------------------------------------------------------
(* The members, one after the other                                         *)

Visiting(p) == pc = "visit" /\ todo # <<>> /\ p = Head(todo)

TreeDone ==
  /\ pc = "visit" /\ todo = <<>>
  /\ Ends("package")
  /\ UNCHANGED <<drive, output, transfers, steady, hollow>>

(* _package_child_names: every name once, in some order.                    *)
Names(p) == SetToSeq({c \in Children[p] : Exists(c)})

(* _download_package_node: a folder that gives no answer is taken for empty.*)
EnterFolder(p) ==
  /\ Visiting(p) /\ doing = "walk"
  /\ p = Root \/ (Exists(p) /\ remote[p].kind = "folder")
  /\ MakeDirectory(p)
  /\ \/ todo' = Names(p) \o Tail(todo) /\ UNCHANGED hollow
     \/ /\ Names(p) # <<>>
        /\ todo' = Tail(todo) /\ hollow' = TRUE
  /\ GoesOn("visit")
  /\ UNCHANGED <<drive, partial, transfers, steady, plan, doing, payload>>

(* Fault: a member that is not found is left out.                           *)
SkipMissing(p) ==
  /\ Visiting(p) /\ doing = "walk" /\ p # Root
  /\ todo' = Tail(todo)
  /\ GoesOn("visit")
  /\ UNCHANGED <<drive, output, transfers, steady, hollow, plan, doing, payload>>

MissChild(p) ==
  /\ Visiting(p) /\ doing = "walk" /\ p # Root
  /\ Fails("package_child_missing")
  /\ UNCHANGED <<drive, output, transfers, steady, hollow>>

(* A file, or a folder whose probe got no answer.                           *)
FindMember(p) ==
  /\ Visiting(p) /\ p # Root /\ Exists(p)
  /\ doing = "metadata" => payload[p] # "folder"
  /\ GoesOn("open")
  /\ UNCHANGED <<drive, output, transfers, steady, hollow, call>>

(* _download_package_items_by_metadata: a folder by the parent's word, of   *)
(* which it must list something.                                            *)
EnterListedFolder(p) ==
  /\ Visiting(p) /\ doing = "metadata" /\ payload[p] = "folder"
  /\ \/ /\ Listed(p, payload) # <<>>
        /\ MakeDirectory(p)
        /\ todo' = Listed(p, payload) \o Tail(todo)
        /\ GoesOn("visit")
        /\ UNCHANGED <<plan, doing, payload>>
     \/ Fails("package_children_unavailable") /\ UNCHANGED local
  /\ UNCHANGED <<drive, partial, transfers, steady, hollow>>

(* A file by the parent's word, looked up by its path.                      *)
MissListedFile(p) ==
  /\ Visiting(p) /\ doing = "metadata" /\ payload[p] # "folder"
  /\ \/ Fails("path_not_found")
     \/ Exists(p) /\ remote[p].kind = "folder" /\ Fails("directory_node")
  /\ UNCHANGED <<drive, output, transfers, steady, hollow>>

---------------------------------------------------------------------------
(* _download_file_object and _write_downloaded_content                      *)

At(place, p) == pc = place /\ p = Head(todo)

OpenFails(p) ==
  /\ At("open", p)
  /\ Reachable(p)
  /\ local' = MakeParents(p)
  /\ Fails("open_failed")
  /\ UNCHANGED <<drive, partial, transfers, steady, hollow>>

(* The answer is of the version that the drive has now, and goes to a new   *)
(* partial file.                                                            *)
Open(p) ==
  /\ At("open", p)
  /\ Exists(p) /\ remote[p].kind # "folder"
  /\ Reachable(p)
  /\ local' = MakeParents(p)
  /\ partial' = [partial EXCEPT ![p] = Torn(remote[p].version)]
  /\ GoesOn("stream")
  /\ UNCHANGED <<drive, transfers, steady, hollow, call>>

Stream(p) ==
  /\ At("stream", p)
  /\ partial' = [partial EXCEPT ![p].kind = "file"]
  /\ GoesOn("replace")
  /\ UNCHANGED <<drive, local, transfers, steady, hollow, call>>

(* Fault: what was written by then is put in place.                         *)
WriteFailsUnnoticed(p) ==
  /\ pc \in {"stream", "replace"} /\ p = Head(todo)
  /\ GoesOn("replace")
  /\ UNCHANGED <<drive, output, transfers, steady, hollow, call>>

(* Fault: the file is cleaned up, not the partial one.                      *)
WriteFailsDiscarding(p) ==
  /\ pc \in {"stream", "replace"} /\ p = Head(todo)
  /\ local' = [local EXCEPT ![p] = Nothing]
  /\ Fails("write_failed")
  /\ UNCHANGED <<drive, partial, transfers, steady, hollow>>

(* An error that the write functions handle: the partial file is removed if *)
(* it can be.                                                               *)
WriteFails(p) ==
  /\ pc \in {"stream", "replace"} /\ p = Head(todo)
  /\ partial' \in {partial, [partial EXCEPT ![p] = Nothing]}
  /\ Fails("write_failed")
  /\ UNCHANGED <<drive, local, transfers, steady, hollow>>

(* A directory is not replaced.                                             *)
Replace(p) ==
  /\ At("replace", p)
  /\ local[p].kind # "dir"
  /\ local' = [local EXCEPT ![p] = partial[p]]
  /\ partial' = [partial EXCEPT ![p] = Nothing]
  /\ IF doing = "file" THEN Ends("file")
     ELSE GoesOn("visit") /\ todo' = Tail(todo) /\ UNCHANGED <<plan, doing, payload>>
  /\ UNCHANGED <<drive, transfers, steady, hollow>>

(* What leaves the attempt: a request's error that is not handled, or a     *)
(* directory that cannot be made.                                           *)
RaiseError ==
  /\ pc \in {"resolve", "visit", "open", "stream"}
  /\ Raise
  /\ UNCHANGED <<drive, output, transfers>>

(* The process ends.                                                        *)
Crash ==
  /\ pc # "idle"
  /\ Ends("none")
  /\ UNCHANGED <<drive, output, transfers, steady, hollow>>

Attempt ==
  \/ ClearConflict \/ ClearFails
  \/ FindFile \/ FindTree \/ ReadMetadata \/ TreeDone
  \/ \E p \in Items :
       \/ EnterFolder(p) \/ MissChild(p) \/ FindMember(p)
       \/ EnterListedFolder(p) \/ MissListedFile(p)
       \/ OpenFails(p) \/ Open(p) \/ Stream(p) \/ WriteFails(p) \/ Replace(p)
  \/ RaiseError

Next == Begin \/ Attempt \/ Crash \/ \E p \in Items : Change(p)

Spec == Init /\ [][Next]_vars

(* Requests have a timeout and content an end.                              *)
FairSpec == Spec /\ WF_vars(Attempt)

---------------------------------------------------------------------------
(* No file is ever seen that is not whole: what is under its name has been  *)
(* streamed to its end, as one version.                                     *)
WholeFiles == \A p \in Items : local[p].kind # "torn"

(* A file is replaced in one step, by one that is no older, whatever fails  *)
(* and stops; but for what stands in the way of the entry's kind.           *)
FilesOnlyAdvance ==
  [][\A p \in Items : local[p].kind = "file" =>
       \/ local'[p].kind = "file" /\ local'[p].version >= local[p].version
       \/ pc = "clear" /\ InTheWay]_vars

(* A transfer that succeeds has got everything: when the drive did not      *)
(* change during the attempt, every file and folder of the entry is there   *)
(* in the drive's version.  Excepted is an attempt in which a folder gave   *)
(* no answer, which the code takes for empty, and a package reconciled with *)
(* what an earlier transfer left.                                           *)
SuccessIsComplete ==
  pc = "idle" /\ steady /\ ~hollow =>
    /\ result = "file" => local[Root] = File(remote[Root].version)
    /\ result = "package" =>
         \A p \in {Root} \cup Under[Root] : Exists(p) =>
           IF remote[p].kind = "file" THEN local[p] = File(remote[p].version)
           ELSE local[p] = Directory

(* Under FairSpec every transfer ends, whatever is asked and answered.      *)
TransferEnds == pc # "idle" ~> pc = "idle"
=============================================================================
